--------------------------- MODULE SessionGate_proofs ---------------------------
(***************************************************************************)
(* The types and the safety of SessionGate, for any number of calls,       *)
(* confirmations, sessions and state objects.  Approvals are exact, spent  *)
(* once and final (ApprovalExact, ApprovalSpentOnce, DeniedNeverRuns);     *)
(* generations tell rejections apart (GenerationsIdentify); nothing is     *)
(* forgotten unanswered (NothingForgotten), every refusal is on record     *)
(* (BlockRecorded) and forces a review (ForcedReview); the cache gives     *)
(* what a review gave (CacheHonest); and the hooks implement the ledger    *)
(* (ImplementsLedger).                                                     *)
(***************************************************************************)
EXTENDS GateLedger, TLAPS


-------------------------------------------------------------------------------
(* What the operations on a state object return *)

LEMMA FreshType ==
  ASSUME TypeOK, NEW s \in Sessions
  PROVE  Fresh(s) \in SessionState
BY DEF Fresh, SessionState, TypeOK, StoreTypeOK

LEMMA NextGenerationType ==
  ASSUME TypeOK, NEW st \in SessionState
  PROVE  NextGeneration(st) \in SessionState
<1>1. now \in Nat /\ st.version + 1 \in Nat
  BY DEF SessionState, TypeOK, StoreTypeOK
<1> QED
  BY <1>1 DEF NextGeneration, SessionState

LEMMA RecordRejectionType ==
  ASSUME TypeOK, NEW st \in SessionState, NEW cmd \in Commands
  PROVE  RecordRejection(st, cmd) \in SessionState
<1>1. NextGeneration(st) \in SessionState
  BY NextGenerationType
<1>2. {[cmd |-> cmd, gen |-> st.version + 1]} \in SUBSET Rejection
  BY DEF SessionState, Rejection
<1> QED
  BY <1>1, <1>2 DEF RecordRejection, SessionState

LEMMA RecordFailureType ==
  ASSUME TypeOK, NEW st \in SessionState
  PROVE  RecordFailure(st) \in SessionState
<1>1. NextGeneration(st) \in SessionState
  BY NextGenerationType
<1>2. {[gen |-> st.version + 1, by |-> {}]} \in SUBSET Failure
  BY DEF SessionState, Failure
<1> QED
  BY <1>1, <1>2 DEF RecordFailure, SessionState

LEMMA RaiseRequestType ==
  ASSUME TypeOK, NEW st \in SessionState, NEW c \in Calls, call[c].cmd \in Commands
  PROVE  RaiseRequest(st, c) \in SessionState
<1> DEFINE blocked == IF Strict THEN RecordRejection(st, call[c].cmd) ELSE NextGeneration(st)
<1>1. blocked \in SessionState
  BY RecordRejectionType, NextGenerationType
<1>2. {[id |-> c, gen |-> blocked.version, cmd |-> call[c].cmd, expiresAt |-> now + PendingTTL]}
        \in SUBSET Request
  BY <1>1, InputAssumption DEF Request, SessionState, TypeOK, StoreTypeOK
<1>3. RaiseRequest(st, c) = [blocked EXCEPT !.pending =
        {[id |-> c, gen |-> blocked.version, cmd |-> call[c].cmd, expiresAt |-> now + PendingTTL]}]
  BY DEF RaiseRequest
<1> HIDE DEF blocked
<1> QED
  BY <1>1, <1>2, <1>3 DEF SessionState

LEMMA SpendType ==
  ASSUME NEW st \in SessionState
  PROVE  Spend(st) \in SessionState
BY DEF Spend, SessionState

LEMMA DiscardType ==
  ASSUME NEW st \in SessionState
  PROVE  Discard(st) \in SessionState
BY DEF Discard, SessionState

LEMMA ConsumeType ==
  ASSUME NEW st \in SessionState, NEW c \in Calls
  PROVE  Consume(st, c) \in SessionState
<1>1. {IF f \in FailureAtStart(st) THEN [f EXCEPT !.by = {c}] ELSE f : f \in st.failed}
        \in SUBSET Failure
  BY DEF SessionState, Failure
<1> QED
  BY <1>1 DEF Consume, SessionState

LEMMA ClearAnsweredType ==
  ASSUME NEW st \in SessionState, NEW c \in Calls
  PROVE  ClearAnswered(st, c) \in SessionState
BY DEF ClearAnswered, SessionState

LEMMA ClearSucceededType ==
  ASSUME NEW st \in SessionState, NEW c \in Calls
  PROVE  ClearSucceeded(st, c) \in SessionState
BY DEF ClearSucceeded, SessionState

-------------------------------------------------------------------------------
(* What the operations on the maps return *)

StoreMapsOK ==
  /\ sessions \in [Sessions -> Objs \cup {NoObj}]
  /\ recency \subseteq Sessions \X Sessions
  /\ cache \in [Keys -> Nat]
  /\ cacheOrder \subseteq Keys \X Keys

LEMMA ForgetType ==
  ASSUME TypeOK, NEW gone, Forget(gone)
  PROVE  cache' \in [Keys -> Nat] /\ cacheOrder' \subseteq Keys \X Keys
BY DEF Forget, Without, TypeOK, StoreTypeOK, Absent

LEMMA DropSessionsType ==
  ASSUME TypeOK, NEW gone, DropSessions(gone)
  PROVE  StoreMapsOK'
<1>1. cache' \in [Keys -> Nat] /\ cacheOrder' \subseteq Keys \X Keys
  BY ForgetType DEF DropSessions
<1> QED
  BY <1>1 DEF DropSessions, Without, StoreMapsOK, TypeOK, StoreTypeOK

LEMMA GetSessionType ==
  ASSUME TypeOK, NEW s \in Sessions, NEW o \in Objs, GetSession(s, o, Reachable)
  PROVE  StoreMapsOK' /\ Obtained(s, o) \in SessionState
<1>1. cache' \in [Keys -> Nat] /\ cacheOrder' \subseteq Keys \X Keys
  BY ForgetType DEF GetSession
<1>2. sessions' \in [Sessions -> Objs \cup {NoObj}]
  BY DEF GetSession, TypeOK, StoreTypeOK
<1>3. recency' \subseteq Sessions \X Sessions
  BY DEF GetSession, MovedToEnd, Appended, Without, Live, TypeOK, StoreTypeOK
<1>4. Obtained(s, o) \in SessionState
  BY FreshType DEF Obtained, SessionState, TypeOK, StoreTypeOK
<1> QED
  BY <1>1, <1>2, <1>3, <1>4 DEF StoreMapsOK

LEMMA DropExpiredType ==
  ASSUME TypeOK, NEW key, DropExpired(key)
  PROVE  cache' \in [Keys -> Nat] /\ cacheOrder' \subseteq Keys \X Keys
BY DEF DropExpired, Without, TypeOK, StoreTypeOK, Absent

LEMMA CacheAllowType ==
  ASSUME TypeOK, NEW k \in Keys, CacheAllow(k)
  PROVE  cache' \in [Keys -> Nat] /\ cacheOrder' \subseteq Keys \X Keys
<1>1. cache' \in [Keys -> Nat]
  BY StoreAssumption DEF CacheAllow, TypeOK, StoreTypeOK, Absent
<1>2. cacheOrder' \subseteq Keys \X Keys
  BY DEF CacheAllow, Appended, Without, Cached, TypeOK, StoreTypeOK
<1> QED
  BY <1>1, <1>2

-------------------------------------------------------------------------------
(* Types *)

\* A waiting hook holds an object and a command that is not blank; so does a
\* waiting confirmation.  Without it, the types of the objects do not carry over.
Held ==
  /\ \A c \in Calls : call[c].pc \in InFlight => call[c].obj \in Objs /\ call[c].cmd \in Commands
  /\ \A f \in Confirms : confirm[f].pc = "asking" => confirm[f].obj \in Objs

Typed == TypeOK /\ Held

LEMMA MineType ==
  ASSUME Typed, NEW c \in Calls, call[c].pc \in InFlight
  PROVE  Mine(c) \in SessionState /\ call[c].cmd \in Commands
BY DEF Typed, Held, TypeOK, StoreTypeOK, Mine

LEMMA WriteType ==
  ASSUME Typed, NEW c \in Calls, NEW st \in SessionState, Write(c, st)
  PROVE  heap' \in [Objs -> SessionState]
BY DEF Write, Typed, TypeOK, StoreTypeOK

LEMMA CallRecordType ==
  ASSUME NEW x \in CallState
  PROVE  /\ \A pc \in {"idle"} \cup InFlight \cup Settled : At(x, pc) \in CallState
         /\ \A cmd \in Commands \cup {Blank} : Given(x, cmd) \in CallState
         /\ \A o \in Objs : Started(x, o) \in CallState
         /\ \A view \in Views : Seeing(x, view) \in CallState
         /\ LocalsGone(x) \in CallState
         /\ Over(x) \in CallState
<1>1. LocalsGone(x) \in CallState
  BY DEF LocalsGone, CallState
<1>2. Over(x) \in CallState
  BY <1>1 DEF Over, CallState
<1>3. \A o \in Objs : Started(x, o) \in CallState
  BY DEF Started, CallState, InFlight
<1> QED
  BY <1>1, <1>2, <1>3 DEF At, Given, Seeing, CallState

LEMMA CallMoveType ==
  ASSUME NEW x \in CallState
  PROVE  /\ Blocked(x) \in CallState
         /\ \A way \in Ways : Passing(x, way) \in CallState
         /\ \A ids \in SUBSET Calls : Granted(x, ids) \in CallState
         /\ \A rej \in SUBSET Rejection, fail \in SUBSET Failure, key \in SUBSET Keys :
              Reviewing(x, rej, fail, key) \in CallState
<1>1. LocalsGone(x) \in CallState /\ Over(x) \in CallState
  BY CallRecordType
<1>2. Blocked(x) \in CallState
  BY <1>1, CallRecordType DEF Blocked, Settled
<1>3. ASSUME NEW way \in Ways PROVE Passing(x, way) \in CallState
  BY <1>1 DEF Passing, CallState, InFlight
<1>4. ASSUME NEW ids \in SUBSET Calls PROVE Granted(x, ids) \in CallState
  <2>1. Passing(x, "approval") \in CallState
    BY <1>3 DEF Ways
  <2> QED
    BY <2>1 DEF Granted, CallState
<1>5. ASSUME NEW rej \in SUBSET Rejection, NEW fail \in SUBSET Failure, NEW key \in SUBSET Keys
      PROVE  Reviewing(x, rej, fail, key) \in CallState
  BY DEF Reviewing, CallState, InFlight
<1> QED
  BY <1>2, <1>3, <1>4, <1>5

\* Only one call moves, to a record of the right type that holds an object and
\* a command if it is in flight.
LEMMA MoveType ==
  ASSUME Typed, NEW c \in Calls, NEW x \in CallState,
         x.pc \in InFlight => x.obj \in Objs /\ x.cmd \in Commands,
         call' = [call EXCEPT ![c] = x], confirm' = confirm
  PROVE  call' \in [Calls -> CallState] /\ Held'
BY DEF Typed, Held, TypeOK

LEMMA BlockType ==
  ASSUME Typed, NEW c \in Calls, Block(c), confirm' = confirm
  PROVE  call' \in [Calls -> CallState] /\ Held'
<1>1. call[c] \in CallState
  BY DEF Typed, TypeOK
<1>2. Blocked(call[c]) \in CallState
  BY <1>1, CallMoveType
<1>3. Blocked(call[c]).pc \notin InFlight
  <2>1. Over(call[c]) \in CallState
    BY <1>1, CallRecordType
  <2> QED
    BY <2>1 DEF Blocked, At, CallState, InFlight
<1> QED
  BY <1>2, <1>3, MoveType DEF Block

LEMMA PassingKeeps ==
  ASSUME NEW x \in CallState, NEW way \in Ways
  PROVE  Passing(x, way).obj = x.obj /\ Passing(x, way).cmd = x.cmd
<1>1. LocalsGone(x) \in CallState /\ LocalsGone(x).obj = x.obj /\ LocalsGone(x).cmd = x.cmd
  BY CallRecordType DEF LocalsGone, CallState
<1> QED
  BY <1>1 DEF Passing, CallState

LEMMA LetThroughType ==
  ASSUME Typed, NEW c \in Calls, NEW way \in Ways, call[c].pc \in InFlight,
         LetThrough(c, way), confirm' = confirm
  PROVE  call' \in [Calls -> CallState] /\ Held'
<1>1. call[c] \in CallState
  BY DEF Typed, TypeOK
<1>2. Passing(call[c], way) \in CallState
  BY <1>1, CallMoveType
<1>3. Passing(call[c], way).obj \in Objs /\ Passing(call[c], way).cmd \in Commands
  BY <1>1, PassingKeeps DEF Typed, Held
<1> QED
  BY <1>2, <1>3, MoveType DEF LetThrough

LEMMA FallbackType ==
  ASSUME Typed, NEW c \in Calls, NEW st \in SessionState, call[c].pc \in InFlight,
         Fallback(c, st), confirm' = confirm
  PROVE  heap' \in [Objs -> SessionState] /\ call' \in [Calls -> CallState] /\ Held'
<1>1. call[c].cmd \in Commands
  BY MineType
<1>2. RecordRejection(st, call[c].cmd) \in SessionState /\ RaiseRequest(st, c) \in SessionState
  BY <1>1, RecordRejectionType, RaiseRequestType DEF Typed
<1>3. CASE Write(c, st) /\ LetThrough(c, "open")
  BY <1>3, WriteType, LetThroughType DEF Ways
<1>4. CASE Write(c, RecordRejection(st, call[c].cmd)) /\ Block(c)
  BY <1>2, <1>4, WriteType, BlockType
<1>5. CASE Write(c, RaiseRequest(st, c)) /\ Block(c)
  BY <1>2, <1>5, WriteType, BlockType
<1> QED
  BY <1>3, <1>4, <1>5 DEF Fallback

\* Putting the parts of the type invariant together.
LEMMA Assemble ==
  ASSUME heap' \in [Objs -> SessionState], StoreMapsOK', now' \in Nat,
         call' \in [Calls -> CallState], confirm' \in [Confirms -> ConfirmState],
         reviewed' \subseteq Reviewed, Held'
  PROVE  Typed'
BY DEF Typed, TypeOK, StoreTypeOK, StoreMapsOK

LEMMA Unassemble ==
  ASSUME Typed
  PROVE  /\ heap \in [Objs -> SessionState] /\ StoreMapsOK /\ now \in Nat
         /\ call \in [Calls -> CallState] /\ confirm \in [Confirms -> ConfirmState]
         /\ reviewed \subseteq Reviewed /\ Held
         /\ UNCHANGED maps => StoreMapsOK'
BY DEF Typed, TypeOK, StoreTypeOK, StoreMapsOK, maps

\* A step that leaves the maps alone, or changes only the cache.
LEMMA HeapAndCall ==
  ASSUME Typed, heap' \in [Objs -> SessionState], call' \in [Calls -> CallState], Held',
         UNCHANGED <<maps, confirm, now, reviewed>>
  PROVE  Typed'
BY Unassemble, Assemble

LEMMA BeginTyped ==
  ASSUME Typed, NEW c \in Calls, NEW cmd \in Commands, Begin(c, cmd)
  PROVE  Typed'
<1> DEFINE s == SessionOf[c]
<1>1. s \in Sessions
  BY InputAssumption
<1>2. PICK o \in Objs :
        /\ GetSession(s, o, Reachable)
        /\ IF cmd = Blank
             THEN /\ heap' = [heap EXCEPT ![o] = RecordRejection(Obtained(s, o), cmd)]
                  /\ call' = [call EXCEPT ![c] = Blocked(Given(@, cmd))]
             ELSE /\ heap' = [heap EXCEPT ![o] = Obtained(s, o)]
                  /\ call' = [call EXCEPT ![c] = Started(Given(@, cmd), o)]
  BY DEF Begin
<1> HIDE DEF s
<1>3. StoreMapsOK' /\ Obtained(s, o) \in SessionState
  BY <1>1, <1>2, GetSessionType DEF Typed
<1>4. RecordRejection(Obtained(s, o), cmd) \in SessionState
  BY <1>3, RecordRejectionType DEF Typed
<1>5. heap' \in [Objs -> SessionState]
  BY <1>2, <1>3, <1>4 DEF Typed, TypeOK, StoreTypeOK
<1>6. Given(call[c], cmd) \in CallState /\ Given(call[c], cmd).cmd = cmd
  <2>1. call[c] \in CallState
    BY DEF Typed, TypeOK
  <2> QED
    BY <2>1, CallRecordType DEF Given, CallState
<1>7. call' \in [Calls -> CallState] /\ Held'
  <2> DEFINE given == Given(call[c], cmd)
  <2>1. CASE cmd = Blank
    <3>1. Blocked(given) \in CallState /\ Blocked(given).pc \notin InFlight
      <4>1. Over(given) \in CallState
        BY <1>6, CallRecordType
      <4> QED
        BY <1>6, <4>1, CallMoveType DEF Blocked, At, CallState, InFlight
    <3>2. call' = [call EXCEPT ![c] = Blocked(given)]
      BY <1>2, <2>1
    <3> HIDE DEF given
    <3> QED
      BY <3>1, <3>2, MoveType DEF Begin
  <2>2. CASE cmd # Blank
    <3>1. Started(given, o) \in CallState /\ Started(given, o).obj = o /\ Started(given, o).cmd = cmd
      BY <1>6, CallRecordType DEF Started, CallState
    <3>2. call' = [call EXCEPT ![c] = Started(given, o)]
      BY <1>2, <2>2
    <3> HIDE DEF given
    <3> QED
      BY <3>1, <3>2, MoveType DEF Begin
  <2> QED
    BY <2>1, <2>2
<1> QED
  BY <1>3, <1>5, <1>7, Assemble, Unassemble DEF Begin

\* The four refusals that record a rejection and throw have the same shape.
LEMMA RefusalTyped ==
  ASSUME Typed, NEW c \in Calls, call[c].pc \in InFlight,
         Write(c, RecordRejection(Mine(c), call[c].cmd)), Block(c),
         UNCHANGED <<maps, confirm, now, reviewed>>
  PROVE  Typed'
<1>1. Mine(c) \in SessionState /\ call[c].cmd \in Commands
  BY MineType
<1>2. RecordRejection(Mine(c), call[c].cmd) \in SessionState
  BY <1>1, RecordRejectionType DEF Typed
<1>3. heap' \in [Objs -> SessionState]
  BY <1>2, WriteType
<1>4. call' \in [Calls -> CallState] /\ Held'
  BY BlockType
<1> QED
  BY <1>3, <1>4, HeapAndCall

LEMMA UseApprovalTyped ==
  ASSUME Typed, NEW c \in Calls, NEW verdict, UseApproval(c, verdict)
  PROVE  Typed'
<1>1. call[c].pc \in InFlight /\ Mine(c) \in SessionState
  BY MineType DEF UseApproval, InFlight
<1>2. heap' \in [Objs -> SessionState]
  BY <1>1, SpendType, WriteType DEF UseApproval
<1> DEFINE ids == {a.id : a \in Mine(c).approved}
<1>3. ids \in SUBSET Calls
  BY <1>1 DEF SessionState, Approval
<1>4. call[c] \in CallState
  BY DEF Typed, TypeOK
<1> HIDE DEF ids
<1>5. Granted(call[c], ids) \in CallState
  BY <1>3, <1>4, CallMoveType
<1>6. Granted(call[c], ids).obj \in Objs /\ Granted(call[c], ids).cmd \in Commands
  <2>1. Passing(call[c], "approval") \in CallState
    BY <1>4, CallMoveType DEF Ways
  <2>2. Passing(call[c], "approval").obj \in Objs /\ Passing(call[c], "approval").cmd \in Commands
    BY <1>1, <1>4, PassingKeeps DEF Ways, Typed, Held
  <2> QED
    BY <2>1, <2>2 DEF Granted, CallState
<1>7. call' = [call EXCEPT ![c] = Granted(call[c], ids)]
  BY DEF UseApproval, ids
<1>8. call' \in [Calls -> CallState] /\ Held'
  BY <1>5, <1>6, <1>7, MoveType DEF UseApproval
<1> QED
  BY <1>2, <1>8, HeapAndCall DEF UseApproval

LEMMA StaticAllowTyped ==
  ASSUME Typed, NEW c \in Calls, NEW verdict, StaticAllow(c, verdict)
  PROVE  Typed'
<1>1. call[c].pc \in InFlight /\ Mine(c) \in SessionState
  BY MineType DEF StaticAllow, InFlight
<1>2. heap' \in [Objs -> SessionState]
  BY <1>1, DiscardType, WriteType DEF StaticAllow
<1>3. call' \in [Calls -> CallState] /\ Held'
  BY <1>1, LetThroughType DEF StaticAllow, Ways
<1> QED
  BY <1>2, <1>3, HeapAndCall DEF StaticAllow

LEMMA CachedAllowTyped ==
  ASSUME Typed, NEW c \in Calls, NEW verdict, NEW view \in Views, CachedAllow(c, verdict, view)
  PROVE  Typed'
<1>1. call[c].pc \in InFlight /\ Mine(c) \in SessionState /\ call[c] \in CallState
  BY MineType DEF CachedAllow, NeedsReview, InFlight, Typed, TypeOK
<1>2. heap' \in [Objs -> SessionState]
  BY <1>1, DiscardType, WriteType DEF CachedAllow
<1>3. Passing(call[c], "cache") \in CallState
  BY <1>1, CallMoveType DEF Ways
<1>4. Passing(call[c], "cache").obj \in Objs /\ Passing(call[c], "cache").cmd \in Commands
  BY <1>1, PassingKeeps DEF Ways, Typed, Held
<1> DEFINE x == Seeing(Passing(call[c], "cache"), view)
<1>5. x \in CallState /\ x.obj \in Objs /\ x.cmd \in Commands
  BY <1>3, <1>4, CallRecordType DEF Seeing, CallState
<1>6. call' = [call EXCEPT ![c] = x]
  BY DEF CachedAllow
<1> HIDE DEF x
<1>7. call' \in [Calls -> CallState] /\ Held'
  BY <1>5, <1>6, MoveType DEF CachedAllow
<1> QED
  BY <1>2, <1>7, HeapAndCall DEF CachedAllow

LEMMA StartReviewTyped ==
  ASSUME Typed, NEW c \in Calls, NEW verdict, NEW view \in Views, StartReview(c, verdict, view)
  PROVE  Typed'
<1> DEFINE st  == Discard(Mine(c))
           key == CacheKey(c, view)
           x   == Reviewing(Seeing(call[c], view), RejectionAtStart(st), FailureAtStart(st), key)
<1>1. call[c].pc \in InFlight /\ Mine(c) \in SessionState /\ call[c] \in CallState
      /\ call[c].cmd \in Commands /\ call[c].obj \in Objs
  BY MineType DEF StartReview, NeedsReview, InFlight, Typed, TypeOK, Held
<1>2. st \in SessionState /\ Consume(st, c) \in SessionState
  BY <1>1, DiscardType, ConsumeType
<1>3. heap' \in [Objs -> SessionState] /\ call' \in [Calls -> CallState] /\ Held'
  <2>1. CASE Write(c, Consume(st, c)) /\ call' = [call EXCEPT ![c] = x]
    <3>1. heap' \in [Objs -> SessionState]
      BY <1>2, <2>1, WriteType
    <3>2. RejectionAtStart(st) \in SUBSET Rejection /\ FailureAtStart(st) \in SUBSET Failure
      BY <1>2 DEF RejectionAtStart, FailureAtStart, SessionState
    <3>3. key \in SUBSET Keys
      BY <1>1, InputAssumption DEF CacheKey, Keys
    <3>4. Seeing(call[c], view) \in CallState /\ Seeing(call[c], view).obj = call[c].obj
          /\ Seeing(call[c], view).cmd = call[c].cmd
      BY <1>1, CallRecordType DEF Seeing, CallState
    <3> HIDE DEF st, key
    <3>5. x \in CallState
      BY <3>2, <3>3, <3>4, CallMoveType
    <3>6. x.obj = call[c].obj /\ x.cmd = call[c].cmd
      BY <3>4 DEF Reviewing, CallState
    <3> HIDE DEF x
    <3> QED
      BY <1>1, <2>1, <3>1, <3>5, <3>6, MoveType DEF StartReview
  <2>2. CASE Fallback(c, Consume(st, c))
    BY <1>1, <1>2, <2>2, FallbackType DEF StartReview
  <2> QED
    BY <2>1, <2>2 DEF StartReview
<1>4. cache' \in [Keys -> Nat] /\ cacheOrder' \subseteq Keys \X Keys
  BY DropExpiredType DEF StartReview, Typed
<1>5. StoreMapsOK'
  BY <1>4, Unassemble DEF StartReview, StoreMapsOK
<1> QED
  BY <1>3, <1>5, Assemble, Unassemble DEF StartReview

LEMMA ReviewBypassTyped ==
  ASSUME Typed, NEW c \in Calls, NEW reply, ReviewBypass(c, reply)
  PROVE  Typed'
<1>1. call[c].pc \in InFlight /\ Mine(c) \in SessionState /\ call[c] \in CallState
      /\ call[c].cmd \in Commands /\ call[c].obj \in Objs
  BY MineType DEF ReviewBypass, InFlight, Typed, TypeOK, Held
<1>2. RecordRejection(Mine(c), call[c].cmd) \in SessionState
  BY <1>1, RecordRejectionType DEF Typed
<1>3. heap' \in [Objs -> SessionState]
  BY <1>2, WriteType DEF ReviewBypass
<1> DEFINE x == At(call[c], "abort")
<1>4. x \in CallState /\ x.obj \in Objs /\ x.cmd \in Commands
  BY <1>1, CallRecordType DEF At, CallState, InFlight
<1>5. call' = [call EXCEPT ![c] = x]
  BY DEF ReviewBypass
<1> HIDE DEF x
<1>6. call' \in [Calls -> CallState] /\ Held'
  BY <1>4, <1>5, MoveType DEF ReviewBypass
<1> QED
  BY <1>3, <1>6, HeapAndCall DEF ReviewBypass

LEMMA ReviewAllowTyped ==
  ASSUME Typed, NEW c \in Calls, NEW reply, ReviewAllow(c, reply)
  PROVE  Typed'
<1>1. call[c].pc \in InFlight /\ Mine(c) \in SessionState /\ call[c] \in CallState
      /\ call[c].cmd \in Commands
  BY MineType DEF ReviewAllow, InFlight, Typed, TypeOK
<1>2. heap' \in [Objs -> SessionState]
  BY <1>1, ClearAnsweredType, WriteType DEF ReviewAllow
<1>3. call' \in [Calls -> CallState] /\ Held'
  BY <1>1, LetThroughType DEF ReviewAllow, Ways
<1>4. StoreMapsOK'
  <2>1. cache' \in [Keys -> Nat] /\ cacheOrder' \subseteq Keys \X Keys
    <3>1. CASE call[c].key = {}
      BY <3>1 DEF ReviewAllow, Typed, TypeOK, StoreTypeOK
    <3>2. CASE call[c].key # {}
      <4>1. PICK k \in call[c].key : CacheAllow(k)
        BY <3>2 DEF ReviewAllow
      <4>2. k \in Keys
        BY <1>1, <4>1 DEF CallState
      <4> QED
        BY <4>1, <4>2, CacheAllowType DEF Typed
    <3> QED
      BY <3>1, <3>2
  <2> QED
    BY <2>1, Unassemble DEF ReviewAllow, StoreMapsOK
<1>5. reviewed' \subseteq Reviewed
  <2>1. {[sid |-> SessionOf[c], cmd |-> call[c].cmd, view |-> v, at |-> now] : v \in call[c].view}
          \subseteq Reviewed
    BY <1>1, InputAssumption DEF Reviewed, CallState, Typed, TypeOK, StoreTypeOK
  <2> QED
    BY <2>1 DEF ReviewAllow, Typed, TypeOK
<1> QED
  BY <1>2, <1>3, <1>4, <1>5, Assemble, Unassemble DEF ReviewAllow

LEMMA ReviewReturnsTyped ==
  ASSUME Typed, NEW c \in Calls, ReviewReturns(c)
  PROVE  Typed'
<1> PICK reply \in Replies : \/ ReviewBypass(c, reply)
                             \/ ReviewDeny(c, reply)
                             \/ ReviewAllow(c, reply)
                             \/ ReviewFails(c, reply)
  BY DEF ReviewReturns
<1>1. CASE ReviewDeny(c, reply)
  BY <1>1, RefusalTyped DEF ReviewDeny, InFlight
<1>2. CASE ReviewFails(c, reply)
  <2>1. call[c].pc \in InFlight /\ Mine(c) \in SessionState
    BY <1>2, MineType DEF ReviewFails, InFlight
  <2>2. heap' \in [Objs -> SessionState] /\ call' \in [Calls -> CallState] /\ Held'
    BY <1>2, <2>1, FallbackType DEF ReviewFails
  <2> QED
    BY <1>2, <2>2, HeapAndCall DEF ReviewFails
<1> QED
  BY <1>1, <1>2, ReviewBypassTyped, ReviewAllowTyped

LEMMA DecideTyped ==
  ASSUME Typed, NEW c \in Calls, Decide(c)
  PROVE  Typed'
<1>1. ASSUME NEW verdict, StaticDeny(c, verdict) PROVE Typed'
  BY <1>1, RefusalTyped DEF StaticDeny, InFlight
<1> QED
  BY <1>1, UseApprovalTyped, StaticAllowTyped, CachedAllowTyped, StartReviewTyped DEF Decide

LEMMA SettleTyped ==
  ASSUME Typed, NEW c \in Calls, AbortReturns(c) \/ ClassifierThrows(c) \/ Verify(c)
  PROVE  Typed'
<1>1. call[c] \in CallState /\ heap \in [Objs -> SessionState]
  BY DEF Typed, TypeOK, StoreTypeOK
<1>2. CASE AbortReturns(c)
  <2>1. call' \in [Calls -> CallState] /\ Held'
    BY <1>2, BlockType DEF AbortReturns
  <2> QED
    BY <1>1, <1>2, <2>1, HeapAndCall DEF AbortReturns
<1>3. CASE VerifyFails(c)
  BY <1>3, RefusalTyped DEF VerifyFails, InFlight
<1>4. ASSUME NEW pc \in {"allowed", "thrown"}, call' = [call EXCEPT ![c] = At(Over(call[c]), pc)],
             call[c].pc \in InFlight, UNCHANGED <<heap, maps, confirm, now, reviewed>>
      PROVE  Typed'
  <2> DEFINE x == At(Over(call[c]), pc)
  <2>1. Over(call[c]) \in CallState
    BY <1>1, CallRecordType
  <2>2. x \in CallState /\ x.pc \notin InFlight
    BY <2>1, CallRecordType DEF At, CallState, InFlight, Settled
  <2>3. call' = [call EXCEPT ![c] = x]
    BY <1>4
  <2> HIDE DEF x
  <2>4. call' \in [Calls -> CallState] /\ Held'
    BY <1>4, <2>2, <2>3, MoveType
  <2> QED
    BY <1>1, <1>4, <2>4, HeapAndCall
<1>5. CASE VerifyPasses(c)
  BY <1>4, <1>5 DEF VerifyPasses, InFlight
<1>6. CASE ClassifierThrows(c)
  BY <1>4, <1>6 DEF ClassifierThrows, InFlight
<1> QED
  BY <1>2, <1>3, <1>5, <1>6 DEF Verify

LEMMA FinishTyped ==
  ASSUME Typed, NEW c \in Calls, NEW exit \in Exits, Finish(c, exit)
  PROVE  Typed'
<1> DEFINE s == SessionOf[c]
<1>1. s \in Sessions
  BY InputAssumption
<1>2. PICK o \in Objs :
        /\ GetSession(s, o, Reachable)
        /\ heap' = [heap EXCEPT ![o] = Reported(Obtained(s, o), c, exit)]
  BY DEF Finish
<1> HIDE DEF s
<1>3. StoreMapsOK' /\ Obtained(s, o) \in SessionState
  BY <1>1, <1>2, GetSessionType DEF Typed
<1> DEFINE st == Obtained(s, o)
<1>4. ClearSucceeded(st, c) \in SessionState /\ RecordFailure(st) \in SessionState
  BY <1>3, ClearSucceededType, RecordFailureType DEF Typed
<1> HIDE DEF st
<1>5. Reported(st, c, exit) \in SessionState
  BY <1>3, <1>4 DEF Reported, st
<1>6. heap' \in [Objs -> SessionState]
  BY <1>2, <1>5 DEF st, Typed, TypeOK, StoreTypeOK
<1> DEFINE x == At(call[c], "done")
<1>7. x \in CallState /\ x.pc \notin InFlight
  <2>1. call[c] \in CallState
    BY DEF Typed, TypeOK
  <2> QED
    BY <2>1, CallRecordType DEF At, CallState, InFlight, Settled
<1>8. call' = [call EXCEPT ![c] = x]
  BY DEF Finish
<1> HIDE DEF x
<1>9. call' \in [Calls -> CallState] /\ Held'
  BY <1>7, <1>8, MoveType DEF Finish
<1> QED
  BY <1>3, <1>6, <1>9, Assemble, Unassemble DEF Finish
\* A confirmation moves to a record of the right type, which holds an object
\* if the user is being asked.
LEMMA ConfirmMoveType ==
  ASSUME Typed, NEW f \in Confirms, NEW x \in ConfirmState,
         x.pc = "asking" => x.obj \in Objs,
         confirm' = [confirm EXCEPT ![f] = x], call' = call
  PROVE  confirm' \in [Confirms -> ConfirmState] /\ call' \in [Calls -> CallState] /\ Held'
BY DEF Typed, Held, TypeOK

LEMMA AskedType ==
  ASSUME Typed, NEW f \in Confirms, NEW id, NEW p \in Asked(f, id)
  PROVE  /\ Surviving(SessionOf[f]) \in Objs
         /\ p \in Request
<1>1. SessionOf[f] \in Sessions
  BY InputAssumption
<1>2. Surviving(SessionOf[f]) \in Objs
  BY <1>1, StoreAssumption DEF Asked, Surviving, Typed, TypeOK, StoreTypeOK
<1>3. heap[Surviving(SessionOf[f])] \in SessionState
  BY <1>2 DEF Typed, TypeOK, StoreTypeOK
<1>4. p \in heap[Surviving(SessionOf[f])].pending
  BY DEF Asked
<1> QED
  BY <1>2, <1>3, <1>4 DEF SessionState

LEMMA AnswerType ==
  ASSUME NEW st \in SessionState, NEW asked \in SUBSET Request, OptionAssumption
  PROVE  Withdrawn(st) \in SessionState /\ WithConsent(st, asked) \in SessionState
<1>1. Withdrawn(st) \in SessionState
  BY DEF Withdrawn, SessionState
<1>2. \A q \in asked : ApprovalOf(q) \in Approval
  BY DEF ApprovalOf, Request, Approval
<1>3. {ApprovalOf(q) : q \in asked} \in SUBSET Approval
  BY <1>2
<1>4. WithConsent(st, asked) \in SessionState
  BY <1>3 DEF WithConsent, SessionState
<1> QED
  BY <1>1, <1>4

LEMMA ConfirmOverType ==
  ASSUME Typed, NEW f \in Confirms
  PROVE  /\ [confirm[f] EXCEPT !.pc = "done"] \in ConfirmState
         /\ [confirm[f] EXCEPT !.pc = "done"].pc # "asking"
         /\ confirm[f].ask \in SUBSET Request
<1>1. confirm[f] \in ConfirmState
  BY DEF Typed, TypeOK
<1> QED
  BY <1>1 DEF ConfirmState

LEMMA AnsweredType ==
  ASSUME Typed, NEW f \in Confirms, NEW pc \in {"approved", "denied", "done"},
         NEW ask \in SUBSET Request, Answered(f, pc, ask), call' = call
  PROVE  confirm' \in [Confirms -> ConfirmState] /\ call' \in [Calls -> CallState] /\ Held'
<1> DEFINE x == [pc |-> pc, obj |-> NoObj, ask |-> ask]
<1>1. x \in ConfirmState /\ x.pc # "asking"
  BY DEF ConfirmState
<1>2. confirm' = [confirm EXCEPT ![f] = x]
  BY DEF Answered
<1> HIDE DEF x
<1> QED
  BY <1>1, <1>2, ConfirmMoveType

\* The three ways the confirm tool goes before it asks the user.
LEMMA ConfirmOpensTyped ==
  ASSUME Typed, NEW f \in Confirms, NEW id,
         ConfirmRefused(f, id) \/ ConfirmExpired(f, id) \/ ConfirmAsk(f, id)
  PROVE  Typed'
<1>1. StoreMapsOK' /\ now' = now /\ reviewed' = reviewed /\ call' = call
  BY DropSessionsType DEF Typed, ConfirmRefused, ConfirmExpired, ConfirmAsk, DropSessions
<1> DEFINE over == [confirm[f] EXCEPT !.pc = "done"]
<1>2. over \in ConfirmState /\ over.pc # "asking"
  BY ConfirmOverType
<1> HIDE DEF over
<1>3. CASE ConfirmRefused(f, id)
  <2>1. confirm' = [confirm EXCEPT ![f] = over]
    BY <1>3 DEF ConfirmRefused, over
  <2>2. confirm' \in [Confirms -> ConfirmState] /\ call' \in [Calls -> CallState] /\ Held'
    BY <1>1, <1>2, <2>1, ConfirmMoveType
  <2> QED
    BY <1>1, <1>3, <2>2, Assemble, Unassemble DEF ConfirmRefused
<1>4. CASE ConfirmExpired(f, id)
  <2>1. PICK p \in Asked(f, id) : ~InTime(p)
    BY <1>4 DEF ConfirmExpired
  <2>2. Surviving(SessionOf[f]) \in Objs
    BY <2>1, AskedType
  <2> DEFINE o == Surviving(SessionOf[f])
  <2>3. heap[o] \in SessionState
    BY <2>2 DEF Typed, TypeOK, StoreTypeOK
  <2>4. Withdrawn(heap[o]) \in SessionState
    BY <2>3 DEF Withdrawn, SessionState
  <2>5. heap' = [heap EXCEPT ![o] = Withdrawn(heap[o])]
    BY <1>4 DEF ConfirmExpired
  <2>6. heap' \in [Objs -> SessionState]
    BY <2>4, <2>5 DEF Typed, TypeOK, StoreTypeOK
  <2>7. confirm' = [confirm EXCEPT ![f] = over]
    BY <1>4 DEF ConfirmExpired, over
  <2>8. confirm' \in [Confirms -> ConfirmState] /\ call' \in [Calls -> CallState] /\ Held'
    BY <1>1, <1>2, <2>7, ConfirmMoveType
  <2> QED
    BY <1>1, <2>6, <2>8, Assemble, Unassemble
<1>5. CASE ConfirmAsk(f, id)
  <2>1. PICK p \in Asked(f, id) :
          confirm' = [confirm EXCEPT ![f] = [pc |-> "asking", obj |-> Surviving(SessionOf[f]),
                                             ask |-> {p}]]
    BY <1>5 DEF ConfirmAsk
  <2> DEFINE x == [pc |-> "asking", obj |-> Surviving(SessionOf[f]), ask |-> {p}]
  <2>2. x \in ConfirmState /\ x.obj \in Objs
    BY AskedType DEF ConfirmState
  <2>3. confirm' = [confirm EXCEPT ![f] = x]
    BY <2>1
  <2> HIDE DEF x
  <2>4. confirm' \in [Confirms -> ConfirmState] /\ call' \in [Calls -> CallState] /\ Held'
    BY <1>1, <2>2, <2>3, ConfirmMoveType
  <2> QED
    BY <1>1, <1>5, <2>4, Assemble, Unassemble DEF ConfirmAsk
<1> QED
  BY <1>3, <1>4, <1>5

\* The three ways it ends once the user has answered.
LEMMA ConfirmEndsTyped ==
  ASSUME Typed, NEW f \in Confirms,
         ConfirmApproved(f) \/ ConfirmDenied(f) \/ ConfirmSuperseded(f)
  PROVE  Typed'
<1>1. confirm[f].obj \in Objs /\ confirm[f].ask \in SUBSET Request
  BY ConfirmOverType DEF ConfirmApproved, ConfirmDenied, ConfirmSuperseded, Typed, Held
<1>2. heap[confirm[f].obj] \in SessionState
  BY <1>1 DEF Typed, TypeOK, StoreTypeOK
<1>3. /\ Withdrawn(heap[confirm[f].obj]) \in SessionState
      /\ WithConsent(heap[confirm[f].obj], confirm[f].ask) \in SessionState
  BY <1>1, <1>2, AnswerType, OptionAssumption
<1>4. heap' \in [Objs -> SessionState]
  BY <1>3 DEF ConfirmApproved, ConfirmDenied, ConfirmSuperseded, Typed, TypeOK, StoreTypeOK
<1>5. confirm' \in [Confirms -> ConfirmState] /\ call' \in [Calls -> CallState] /\ Held'
  BY <1>1, AnsweredType DEF ConfirmApproved, ConfirmDenied, ConfirmSuperseded
<1> QED
  BY <1>4, <1>5, Assemble, Unassemble DEF ConfirmApproved, ConfirmDenied, ConfirmSuperseded

LEMMA EventTyped ==
  ASSUME Typed, (\E s \in Sessions : SessionDeleted(s)) \/ Dispose \/ Tick
  PROVE  Typed'
<1>1. heap' = heap /\ call' = call /\ confirm' = confirm /\ reviewed' = reviewed
  BY DEF SessionDeleted, Dispose, Tick
<1>2. Held'
  BY <1>1 DEF Typed, Held
<1>3. now' \in Nat
  <2>1. now' = now \/ now' = now + 1
    BY DEF SessionDeleted, Dispose, Tick
  <2> QED
    BY <2>1 DEF Typed, TypeOK, StoreTypeOK
<1>4. StoreMapsOK'
  <2>1. CASE \E s \in Sessions : SessionDeleted(s)
    BY <2>1, DropSessionsType DEF SessionDeleted, Typed
  <2>2. CASE Dispose
    BY <2>2 DEF Dispose, Clear, StoreMapsOK, Absent
  <2>3. CASE Tick
    BY <2>3, Unassemble DEF Tick
  <2> QED
    BY <2>1, <2>2, <2>3
<1> QED
  BY <1>1, <1>2, <1>3, <1>4, Assemble, Unassemble

LEMMA InitTyped ==
  ASSUME Init
  PROVE  Typed
<1> DEFINE s0 == CHOOSE s \in Sessions : TRUE
<1>1. s0 \in Sessions
  BY StoreAssumption
<1>2. now = 0 /\ heap = [o \in Objs |-> Fresh(s0)]
  BY DEF Init, StoreInit
<1> HIDE DEF s0
<1>3. Fresh(s0) \in SessionState
  BY <1>1, <1>2 DEF Fresh, SessionState
<1>4. StoreTypeOK
  BY <1>2, <1>3 DEF Init, StoreInit, StoreTypeOK, Absent
<1>5. call \in [Calls -> CallState]
  BY DEF Init, CallState, Ways
<1>6. confirm \in [Confirms -> ConfirmState]
  BY DEF Init, ConfirmState
<1>7. Held
  BY DEF Init, Held, InFlight
<1> QED
  BY <1>4, <1>5, <1>6, <1>7 DEF Init, Typed, TypeOK

LEMMA NextTyped ==
  ASSUME Typed, [Next]_vars
  PROVE  Typed'
<1>1. ASSUME NEW c \in Calls, Resume(c) PROVE Typed'
  BY <1>1, DecideTyped, ReviewReturnsTyped, SettleTyped DEF Resume
<1>2. CASE Next
  BY <1>1, <1>2, BeginTyped, FinishTyped, ConfirmOpensTyped, ConfirmEndsTyped, EventTyped DEF Next
<1>3. CASE UNCHANGED vars
  BY <1>3 DEF vars, maps, Typed, TypeOK, StoreTypeOK, Held
<1> QED
  BY <1>2, <1>3

LEMMA AlwaysTyped ==
  Spec => []Typed
<1> QED
  BY InitTyped, NextTyped, PTL DEF Spec

\* Every variable keeps its type, for any number of sessions, calls and
\* confirmations; in particular no hook reads a state object that is not there.
THEOREM TypeCorrect ==
  Spec => []TypeOK
<1>1. Typed => TypeOK
  BY DEF Typed
<1> QED
  BY <1>1, AlwaysTyped, PTL


-------------------------------------------------------------------------------
(* The inductive invariant *)

\* Whoever holds an object holds one of its own session.
Owned ==
  /\ \A s \in Sessions : sessions[s] # NoObj => heap[sessions[s]].owner = s
  /\ \A c \in Calls : call[c].obj # NoObj => heap[call[c].obj].owner = SessionOf[c]
  /\ \A f \in Confirms : confirm[f].obj # NoObj => heap[confirm[f].obj].owner = SessionOf[f]

\* Request or approval r stands for a call of session s that was blocked.
Raised(r, s) == call[r.id].pc = "blocked" /\ call[r.id].cmd = r.cmd /\ SessionOf[r.id] = s

AllRaised ==
  /\ \A o \in Objs : \A p \in heap[o].pending : Raised(p, heap[o].owner)
  /\ \A o \in Objs : \A a \in heap[o].approved : Raised(a, heap[o].owner) /\ a.id \in Consented
  /\ \A f \in Confirms : \A q \in confirm[f].ask : Raised(q, SessionOf[f])

\* The optional fields.
Single ==
  /\ \A o \in Objs : \A p, q \in heap[o].pending : p = q
  /\ \A o \in Objs : \A a, b \in heap[o].approved : a = b
  /\ \A f \in Confirms : \A p, q \in confirm[f].ask : p = q

\* A request is in one place: pending or approved, in one object.
InOnePlace ==
  /\ \A o, u \in Objs : \A p \in heap[o].pending, q \in heap[u].pending : p.id = q.id => o = u
  /\ \A o, u \in Objs : \A a \in heap[o].approved, b \in heap[u].approved : a.id = b.id => o = u
  /\ \A o, u \in Objs : \A p \in heap[o].pending, a \in heap[u].approved : p.id # a.id

\* Once it has let a call through it is in no object, and no other call has it.
Gone(i) ==
  /\ \A o \in Objs : \A p \in heap[o].pending : p.id # i
  /\ \A o \in Objs : \A a \in heap[o].approved : a.id # i

GrantsSpent ==
  /\ \A c \in Calls : \A i \in call[c].grant :
       /\ i \in Consented /\ Gone(i)
       /\ call[i].pc = "blocked" /\ call[i].cmd = call[c].cmd /\ SessionOf[i] = SessionOf[c]
  /\ \A c, d \in Calls : \A i \in call[c].grant : i \in call[d].grant => c = d
  /\ \A c \in Calls : call[c].pc = "idle" => call[c].grant = {}

\* A request the user denied is in no object, and lets nothing through.
DenialsStand ==
  \A i \in Refused : Gone(i) /\ \A c \in Calls : i \notin call[c].grant

Requests == AllRaised /\ Single /\ InOnePlace /\ GrantsSpent /\ DenialsStand

Safe == Typed /\ Owned /\ Requests

-------------------------------------------------------------------------------
(* What the operations do to the fields the protocol is about *)

LEMMA OperationsKeep ==
  ASSUME NEW st \in SessionState, NEW c \in Calls, NEW cmd
  PROVE  /\ \A t \in {RecordRejection(st, cmd), Consume(st, c), ClearAnswered(st, c),
                      ClearSucceeded(st, c), RecordFailure(st), NextGeneration(st)} :
              t.owner = st.owner /\ t.pending = st.pending /\ t.approved = st.approved
         /\ \A t \in {Discard(st), Spend(st)} :
              t.owner = st.owner /\ t.pending = st.pending /\ t.approved = {}
<1>1. \A t \in {Consume(st, c), ClearAnswered(st, c), ClearSucceeded(st, c), NextGeneration(st)} :
        t.owner = st.owner /\ t.pending = st.pending /\ t.approved = st.approved
  BY DEF Consume, ClearAnswered, ClearSucceeded, NextGeneration, SessionState
<1>2. \A t \in {RecordRejection(st, cmd), RecordFailure(st)} :
        t.owner = st.owner /\ t.pending = st.pending /\ t.approved = st.approved
  BY DEF RecordRejection, RecordFailure, NextGeneration, SessionState
<1>3. \A t \in {Discard(st), Spend(st)} :
        t.owner = st.owner /\ t.pending = st.pending /\ t.approved = {}
  BY DEF Discard, Spend, SessionState
<1> QED
  BY <1>1, <1>2, <1>3

LEMMA RaiseRequestKeeps ==
  ASSUME NEW st \in SessionState, NEW c \in Calls
  PROVE  /\ RaiseRequest(st, c).owner = st.owner
         /\ RaiseRequest(st, c).approved = st.approved
         /\ \A p \in RaiseRequest(st, c).pending : p.id = c /\ p.cmd = call[c].cmd
         /\ \A p, q \in RaiseRequest(st, c).pending : p = q
<1> DEFINE blocked == IF Strict THEN RecordRejection(st, call[c].cmd) ELSE NextGeneration(st)
           new     == [id |-> c, gen |-> blocked.version, cmd |-> call[c].cmd,
                       expiresAt |-> now + PendingTTL]
<1>1. blocked.owner = st.owner /\ blocked.approved = st.approved
  BY OperationsKeep
<1>2. RaiseRequest(st, c) = [blocked EXCEPT !.pending = {new}]
  BY DEF RaiseRequest
<1>3. new.id = c /\ new.cmd = call[c].cmd
  OBVIOUS
<1>4. DOMAIN blocked = DOMAIN st
  BY DEF RecordRejection, NextGeneration
<1>5. {"owner", "approved", "pending"} \subseteq DOMAIN st
  BY DEF SessionState
<1> HIDE DEF blocked, new
<1>6. RaiseRequest(st, c).pending = {new}
  BY <1>2, <1>4, <1>5
<1>7. RaiseRequest(st, c).owner = st.owner /\ RaiseRequest(st, c).approved = st.approved
  BY <1>1, <1>2, <1>4, <1>5
<1> QED
  BY <1>3, <1>6, <1>7

-------------------------------------------------------------------------------
(* Steps that raise, approve and use nothing *)

\* The calls go on: nothing blocked moves, commands and grants stand.
CallsGoOn ==
  \A c \in Calls :
    /\ call[c].pc = "blocked" => call'[c].pc = "blocked"
    /\ call[c].pc # "idle" => call'[c].pc # "idle" /\ call'[c].cmd = call[c].cmd
    /\ call'[c].grant = call[c].grant

\* The objects lose requests and approvals at most; a new one has none.
ObjectsShrink ==
  \A o \in Objs :
    /\ heap'[o].pending \subseteq heap[o].pending
    /\ heap'[o].approved \subseteq heap[o].approved
    /\ heap'[o].owner = heap[o].owner \/ (heap'[o].pending = {} /\ heap'[o].approved = {})

AnswersStand == \A f \in Confirms : confirm'[f].ask \subseteq confirm[f].ask

LEMMA BlockedKeep ==
  ASSUME CallsGoOn, NEW r, r.id \in Calls, NEW s, Raised(r, s)
  PROVE  Raised(r, s)'
BY DEF CallsGoOn, Raised

LEMMA QuietRequests ==
  ASSUME Typed, Requests, CallsGoOn, ObjectsShrink, AnswersStand,
         Consented \subseteq Consented',
         \A i \in Refused' : i \in Refused \/ (Gone(i)' /\ \A c \in Calls : i \notin call[c].grant)
  PROVE  Requests'
<1>1. /\ \A o \in Objs : \A p \in heap[o].pending : p.id \in Calls
      /\ \A o \in Objs : \A a \in heap[o].approved : a.id \in Calls
      /\ \A f \in Confirms : \A q \in confirm[f].ask : q.id \in Calls
  BY DEF Typed, TypeOK, StoreTypeOK, SessionState, ConfirmState, Request, Approval
<1>2. AllRaised'
  <2>1. ASSUME NEW o \in Objs, NEW p \in heap'[o].pending PROVE Raised(p, heap[o].owner)'
    <3>1. p \in heap[o].pending /\ heap'[o].owner = heap[o].owner
      BY <2>1 DEF ObjectsShrink
    <3>2. Raised(p, heap[o].owner)
      BY <3>1 DEF Requests, AllRaised
    <3> QED
      BY <1>1, <3>1, <3>2 DEF Raised, CallsGoOn
  <2>2. ASSUME NEW o \in Objs, NEW a \in heap'[o].approved
        PROVE  Raised(a, heap[o].owner)' /\ a.id \in Consented'
    <3>1. a \in heap[o].approved /\ heap'[o].owner = heap[o].owner
      BY <2>2 DEF ObjectsShrink
    <3>2. Raised(a, heap[o].owner) /\ a.id \in Consented
      BY <3>1 DEF Requests, AllRaised
    <3> QED
      BY <1>1, <3>1, <3>2 DEF Raised, CallsGoOn
  <2>3. ASSUME NEW f \in Confirms, NEW q \in confirm'[f].ask PROVE Raised(q, SessionOf[f])'
    <3>1. q \in confirm[f].ask
      BY <2>3 DEF AnswersStand
    <3>2. Raised(q, SessionOf[f])
      BY <3>1 DEF Requests, AllRaised
    <3> QED
      BY <1>1, <3>1, <3>2 DEF Raised, CallsGoOn
  <2> QED
    BY <2>1, <2>2, <2>3 DEF AllRaised
<1>3. Single'
  BY DEF Requests, Single, ObjectsShrink, AnswersStand
<1>4. InOnePlace'
  BY DEF Requests, InOnePlace, ObjectsShrink
<1>5. \A i : Gone(i) => Gone(i)'
  BY DEF Gone, ObjectsShrink
<1>6. GrantsSpent'
  <2>1. call \in [Calls -> CallState]
    BY DEF Typed, TypeOK
  <2>2. ASSUME NEW c \in Calls, NEW i \in call'[c].grant
        PROVE  /\ i \in Consented' /\ Gone(i)'
               /\ call'[i].pc = "blocked" /\ call'[i].cmd = call'[c].cmd
               /\ SessionOf[i] = SessionOf[c]
    <3>1. i \in call[c].grant /\ i \in Calls
      BY <2>1, <2>2 DEF CallsGoOn, CallState
    <3>2. call[c].pc # "idle" /\ call[i].pc = "blocked"
      BY <3>1 DEF Requests, GrantsSpent
    <3>3. call'[c].cmd = call[c].cmd /\ call'[i].cmd = call[i].cmd /\ call'[i].pc = "blocked"
      BY <3>1, <3>2 DEF CallsGoOn
    <3> QED
      BY <1>5, <3>1, <3>3 DEF Requests, GrantsSpent
  <2>3. \A c, d \in Calls : \A i \in call'[c].grant : i \in call'[d].grant => c = d
    BY DEF Requests, GrantsSpent, CallsGoOn
  <2>4. \A c \in Calls : call'[c].pc = "idle" => call'[c].grant = {}
    BY DEF Requests, GrantsSpent, CallsGoOn
  <2> QED
    BY <2>2, <2>3, <2>4 DEF GrantsSpent
<1>7. DenialsStand'
  BY <1>5 DEF Requests, DenialsStand, CallsGoOn
<1> QED
  BY <1>2, <1>3, <1>4, <1>6, <1>7 DEF Requests

\* A call that is under way moves on, and writes to its object.
CallStep(c, st, x) ==
  /\ call[c].pc \in InFlight
  /\ heap' = [heap EXCEPT ![call[c].obj] = st]
  /\ st.owner = Mine(c).owner
  /\ call' = [call EXCEPT ![c] = x]
  /\ x.pc # "idle" /\ x.cmd = call[c].cmd /\ x.obj \in {call[c].obj, NoObj}
  /\ confirm' = confirm
  /\ sessions' = sessions

LEMMA CallStepOwned ==
  ASSUME Typed, Owned, NEW c \in Calls, NEW st, NEW x, CallStep(c, st, x)
  PROVE  Owned'
<1>1. heap \in [Objs -> SessionState] /\ call \in [Calls -> CallState]
      /\ sessions \in [Sessions -> Objs \cup {NoObj}]
  BY DEF Typed, TypeOK, StoreTypeOK
<1>2. call[c].obj \in Objs
  BY DEF Typed, Held, CallStep
<1>3. \A o \in Objs : heap'[o].owner = heap[o].owner
  BY <1>1, <1>2 DEF CallStep, Mine
<1>4. \A s \in Sessions : sessions'[s] # NoObj => heap'[sessions'[s]].owner = s
  BY <1>1, <1>3 DEF Owned, CallStep
<1>5. \A d \in Calls : call'[d].obj # NoObj => heap'[call'[d].obj].owner = SessionOf[d]
  <2>1. \A d \in Calls : call'[d].obj \in {call[d].obj, NoObj}
    BY <1>1 DEF CallStep
  <2>2. \A d \in Calls : call[d].obj \in Objs \cup {NoObj}
    BY <1>1 DEF CallState
  <2> QED
    BY <1>3, <2>1, <2>2 DEF Owned
<1>6. \A f \in Confirms : confirm'[f].obj # NoObj => heap'[confirm'[f].obj].owner = SessionOf[f]
  <2>1. \A f \in Confirms : confirm[f].obj \in Objs \cup {NoObj}
    BY DEF Typed, TypeOK, ConfirmState
  <2> QED
    BY <1>3, <2>1 DEF Owned, CallStep
<1> QED
  BY <1>4, <1>5, <1>6 DEF Owned

LEMMA QuietCallStep ==
  ASSUME Safe, NEW c \in Calls, NEW st, NEW x, CallStep(c, st, x),
         st.pending \subseteq Mine(c).pending, st.approved \subseteq Mine(c).approved,
         x.grant = call[c].grant
  PROVE  Owned' /\ Requests'
<1>1. heap \in [Objs -> SessionState] /\ call \in [Calls -> CallState]
  BY DEF Safe, Typed, TypeOK, StoreTypeOK
<1>2. call[c].obj \in Objs
  BY DEF Safe, Typed, Held, CallStep
<1>3. CallsGoOn
  BY <1>1 DEF CallStep, CallsGoOn, InFlight
<1>4. ObjectsShrink
  BY <1>1, <1>2 DEF CallStep, ObjectsShrink, Mine
<1>5. AnswersStand /\ Consented' = Consented /\ Refused' = Refused
  BY DEF CallStep, AnswersStand, Consented, Refused, Answers
<1> QED
  BY <1>3, <1>4, <1>5, CallStepOwned, QuietRequests DEF Safe

\* What becomes of a call's record.
LEMMA RecordKeeps ==
  ASSUME NEW x \in CallState, NEW way \in Ways, NEW view \in Views,
         NEW rej \in SUBSET Rejection, NEW fail \in SUBSET Failure, NEW key \in SUBSET Keys
  PROVE  /\ \A y \in {Blocked(x), At(Over(x), "allowed"), At(x, "abort"), At(x, "done"),
                      Passing(x, way), Seeing(Passing(x, way), view),
                      Reviewing(Seeing(x, view), rej, fail, key)} :
              y.pc # "idle" /\ y.cmd = x.cmd /\ y.obj \in {x.obj, NoObj} /\ y.grant = x.grant
         /\ Blocked(x).pc = "blocked"
<1> DEFINE gone == LocalsGone(x)
           over == Over(x)
<1>1. gone \in CallState /\ gone.cmd = x.cmd /\ gone.obj = x.obj /\ gone.grant = x.grant
  BY CallRecordType DEF LocalsGone, CallState
<1>2. over \in CallState /\ over.cmd = x.cmd /\ over.obj = NoObj /\ over.grant = x.grant
  BY <1>1, CallRecordType DEF Over, CallState
<1> HIDE DEF gone, over
<1>3. \A pc \in {"blocked", "allowed"} : /\ At(over, pc).cmd = x.cmd
                                         /\ At(over, pc).obj = NoObj
                                         /\ At(over, pc).grant = x.grant
                                         /\ At(over, pc).pc = pc
  BY <1>2 DEF At, CallState
<1>4. \A pc \in {"abort", "done"} : /\ At(x, pc).cmd = x.cmd
                                    /\ At(x, pc).obj = x.obj
                                    /\ At(x, pc).grant = x.grant
                                    /\ At(x, pc).pc = pc
  BY DEF At, CallState
<1>5. /\ Passing(x, way).cmd = x.cmd /\ Passing(x, way).obj = x.obj
      /\ Passing(x, way).grant = x.grant /\ Passing(x, way).pc = "verify"
      /\ Passing(x, way) \in CallState
  <2>1. Passing(x, way) = [gone EXCEPT !.pc = "verify", !.via = way]
    BY DEF Passing, gone
  <2> QED
    BY <1>1, <2>1, CallMoveType DEF CallState
<1>6. \A y \in CallState : /\ Seeing(y, view).cmd = y.cmd /\ Seeing(y, view).obj = y.obj
                           /\ Seeing(y, view).grant = y.grant /\ Seeing(y, view).pc = y.pc
                           /\ Seeing(y, view) \in CallState
  BY CallRecordType DEF Seeing, CallState
<1>7. \A y \in CallState : /\ Reviewing(y, rej, fail, key).cmd = y.cmd
                           /\ Reviewing(y, rej, fail, key).obj = y.obj
                           /\ Reviewing(y, rej, fail, key).grant = y.grant
                           /\ Reviewing(y, rej, fail, key).pc = "review"
  BY DEF Reviewing, CallState
<1> QED
  BY <1>3, <1>4, <1>5, <1>6, <1>7 DEF Blocked, over

-------------------------------------------------------------------------------
(* The steps of a call *)

LEMMA CallTypes ==
  ASSUME Safe, NEW c \in Calls, call[c].pc \in InFlight
  PROVE  /\ Mine(c) \in SessionState /\ call[c] \in CallState
         /\ call[c].cmd \in Commands /\ call[c].obj \in Objs
         /\ heap = [heap EXCEPT ![call[c].obj] = Mine(c)]
<1>1. heap \in [Objs -> SessionState] /\ call[c].obj \in Objs /\ call[c] \in CallState
  BY DEF Safe, Typed, TypeOK, StoreTypeOK, Held
<1> QED
  BY <1>1, MineType DEF Safe, Mine

LEMMA RefusalSafe ==
  ASSUME Safe, NEW c \in Calls, call[c].pc \in InFlight,
         NEW st \in {RecordRejection(Mine(c), call[c].cmd), RecordRejection(Consume(Discard(Mine(c)), c), call[c].cmd)},
         Write(c, st), Block(c), confirm' = confirm, sessions' = sessions
  PROVE  Owned' /\ Requests'
<1>1. Mine(c) \in SessionState /\ call[c] \in CallState
  BY CallTypes
<1>2. /\ st.owner = Mine(c).owner /\ st.pending = Mine(c).pending
      /\ st.approved \subseteq Mine(c).approved
  <2>1. CASE st = RecordRejection(Mine(c), call[c].cmd)
    BY <1>1, <2>1, OperationsKeep
  <2>2. CASE st = RecordRejection(Consume(Discard(Mine(c)), c), call[c].cmd)
    <3>1. Discard(Mine(c)) \in SessionState /\ Consume(Discard(Mine(c)), c) \in SessionState
      BY <1>1, DiscardType, ConsumeType
    <3> QED
      BY <1>1, <2>2, <3>1, OperationsKeep
  <2> QED
    BY <2>1, <2>2
<1> DEFINE x == Blocked(call[c])
<1>3. x.pc # "idle" /\ x.cmd = call[c].cmd /\ x.obj \in {call[c].obj, NoObj}
      /\ x.grant = call[c].grant
  <2>1. Blocked(call[c]) \in CallState
    BY <1>1, CallMoveType
  <2>2. LocalsGone(call[c]) \in CallState /\ Over(call[c]) \in CallState
    BY <1>1, CallRecordType
  <2> QED
    BY <1>1, <2>1, <2>2 DEF Blocked, At, Over, LocalsGone, CallState
<1>4. CallStep(c, st, x)
  BY <1>2, <1>3 DEF CallStep, Write, Block
<1> HIDE DEF x
<1> QED
  BY <1>2, <1>3, <1>4, QuietCallStep

\* What is let through without an approval.
LEMMA PassSafe ==
  ASSUME Safe, NEW c \in Calls, call[c].pc \in InFlight, NEW way \in Ways,
         NEW st \in {Mine(c), Discard(Mine(c)), Consume(Discard(Mine(c)), c), ClearAnswered(Mine(c), c)},
         Write(c, st), LetThrough(c, way), confirm' = confirm, sessions' = sessions
  PROVE  Owned' /\ Requests'
<1>1. Mine(c) \in SessionState /\ call[c] \in CallState
  BY CallTypes
<1>2. /\ st.owner = Mine(c).owner /\ st.pending = Mine(c).pending
      /\ st.approved \subseteq Mine(c).approved
  <2>1. Discard(Mine(c)) \in SessionState
    BY <1>1, DiscardType
  <2> QED
    BY <1>1, <2>1, OperationsKeep
<1> DEFINE x == Passing(call[c], way)
<1>3. x.pc # "idle" /\ x.cmd = call[c].cmd /\ x.obj \in {call[c].obj, NoObj}
      /\ x.grant = call[c].grant
  <2>1. LocalsGone(call[c]) \in CallState
    BY <1>1, CallRecordType
  <2> QED
    BY <1>1, <2>1 DEF Passing, LocalsGone, CallState
<1>4. CallStep(c, st, x)
  BY <1>2, <1>3 DEF CallStep, Write, LetThrough
<1> HIDE DEF x
<1> QED
  BY <1>2, <1>3, <1>4, QuietCallStep

LEMMA CachedAllowSafe ==
  ASSUME Safe, NEW c \in Calls, NEW verdict, NEW view \in Views, CachedAllow(c, verdict, view)
  PROVE  Owned' /\ Requests'
<1>1. call[c].pc \in InFlight /\ Mine(c) \in SessionState /\ call[c] \in CallState
  BY CallTypes DEF CachedAllow, NeedsReview, InFlight
<1> DEFINE x  == Seeing(Passing(call[c], "cache"), view)
           st == Discard(Mine(c))
<1>2. st.owner = Mine(c).owner /\ st.pending = Mine(c).pending /\ st.approved = {}
  BY <1>1, OperationsKeep
<1>3. x.pc # "idle" /\ x.cmd = call[c].cmd /\ x.obj \in {call[c].obj, NoObj}
      /\ x.grant = call[c].grant
  BY <1>1, RecordKeeps DEF Ways
<1>4. CallStep(c, st, x)
  BY <1>1, <1>2, <1>3 DEF CallStep, Write, CachedAllow, maps
<1> HIDE DEF x, st
<1> QED
  BY <1>2, <1>3, <1>4, QuietCallStep

LEMMA BypassSafe ==
  ASSUME Safe, NEW c \in Calls, NEW reply, ReviewBypass(c, reply)
  PROVE  Owned' /\ Requests'
<1>1. call[c].pc \in InFlight /\ Mine(c) \in SessionState /\ call[c] \in CallState
  BY CallTypes DEF ReviewBypass, InFlight
<1> DEFINE x  == At(call[c], "abort")
           st == RecordRejection(Mine(c), call[c].cmd)
<1>2. st.owner = Mine(c).owner /\ st.pending = Mine(c).pending /\ st.approved = Mine(c).approved
  BY <1>1, OperationsKeep
<1>3. x.pc # "idle" /\ x.cmd = call[c].cmd /\ x.obj \in {call[c].obj, NoObj}
      /\ x.grant = call[c].grant
  BY <1>1 DEF At, CallState
<1>4. CallStep(c, st, x)
  BY <1>1, <1>2, <1>3 DEF CallStep, Write, ReviewBypass, maps
<1> HIDE DEF x, st
<1> QED
  BY <1>2, <1>3, <1>4, QuietCallStep

\* The steps that leave the objects alone.
LEMMA SettleSafe ==
  ASSUME Safe, NEW c \in Calls, AbortReturns(c) \/ ClassifierThrows(c) \/ VerifyPasses(c)
  PROVE  Owned' /\ Requests'
<1>1. call[c].pc \in InFlight /\ call[c] \in CallState
      /\ heap = [heap EXCEPT ![call[c].obj] = Mine(c)]
  BY CallTypes DEF AbortReturns, ClassifierThrows, VerifyPasses, InFlight
<1> DEFINE x == IF AbortReturns(c) THEN Blocked(call[c]) ELSE At(Over(call[c]), IF VerifyPasses(c) THEN "allowed" ELSE "thrown")
<1>2. x.pc # "idle" /\ x.cmd = call[c].cmd /\ x.obj \in {call[c].obj, NoObj}
      /\ x.grant = call[c].grant
  <2>1. LocalsGone(call[c]) \in CallState /\ Over(call[c]) \in CallState
    BY <1>1, CallRecordType
  <2> QED
    BY <1>1, <2>1 DEF Blocked, At, Over, LocalsGone, CallState
<1>3. call' = [call EXCEPT ![c] = x]
  BY DEF AbortReturns, ClassifierThrows, VerifyPasses, Block
<1> HIDE DEF x
<1>4. CallStep(c, Mine(c), x)
  BY <1>1, <1>2, <1>3 DEF CallStep, AbortReturns, ClassifierThrows, VerifyPasses, maps
<1> QED
  BY <1>2, <1>4, QuietCallStep

\* A request is new when it is raised: nothing carries its id yet.
LEMMA RaiseSafe ==
  ASSUME Safe, NEW c \in Calls, call[c].pc \in InFlight,
         NEW st \in {Mine(c), Consume(Discard(Mine(c)), c)},
         Write(c, RaiseRequest(st, c)), Block(c), confirm' = confirm, sessions' = sessions
  PROVE  Owned' /\ Requests'
<1> DEFINE o == call[c].obj
           new == RaiseRequest(st, c)
           x == Blocked(call[c])
<1>1. Mine(c) \in SessionState /\ call[c] \in CallState /\ o \in Objs
  BY CallTypes
<1>2. st \in SessionState /\ st.owner = Mine(c).owner /\ st.approved \subseteq Mine(c).approved
  <2>1. Discard(Mine(c)) \in SessionState /\ Consume(Discard(Mine(c)), c) \in SessionState
    BY <1>1, DiscardType, ConsumeType
  <2> QED
    BY <1>1, <2>1, OperationsKeep
<1>3. /\ new.owner = Mine(c).owner /\ new.approved \subseteq Mine(c).approved
      /\ \A p \in new.pending : p.id = c /\ p.cmd = call[c].cmd
      /\ \A p, q \in new.pending : p = q
  BY <1>2, RaiseRequestKeeps
<1>4. x.pc = "blocked" /\ x.cmd = call[c].cmd /\ x.obj \in {call[c].obj, NoObj}
      /\ x.grant = call[c].grant
  <2>1. LocalsGone(call[c]) \in CallState /\ Over(call[c]) \in CallState
    BY <1>1, CallRecordType
  <2> QED
    BY <1>1, <2>1 DEF Blocked, At, Over, LocalsGone, CallState
<1>5. heap' = [heap EXCEPT ![o] = new] /\ call' = [call EXCEPT ![c] = x]
  BY DEF Write, Block
<1>6. heap \in [Objs -> SessionState] /\ call \in [Calls -> CallState]
  BY DEF Safe, Typed, TypeOK, StoreTypeOK
<1> HIDE DEF new, x
<1>7. Owned'
  <2>1. CallStep(c, new, x)
    BY <1>3, <1>4, <1>5 DEF CallStep
  <2> QED
    BY <2>1, CallStepOwned DEF Safe
<1>8. CallsGoOn
  BY <1>4, <1>5, <1>6 DEF CallsGoOn, InFlight
<1>9. call[c].pc # "blocked" /\ Mine(c).owner = SessionOf[c] /\ o # NoObj
  BY <1>1, StoreAssumption DEF InFlight, Safe, Owned, Mine
<1>10. /\ \A u \in Objs : \A p \in heap[u].pending : p.id \in Calls /\ p.id # c
       /\ \A u \in Objs : \A a \in heap[u].approved : a.id \in Calls /\ a.id # c
       /\ \A f \in Confirms : \A q \in confirm[f].ask : q.id \in Calls /\ q.id # c
  BY <1>6, <1>9 DEF Safe, Typed, TypeOK, SessionState, ConfirmState, Request, Approval,
                    Requests, AllRaised, Raised
<1>11. \A u \in Objs : /\ heap'[u].owner = heap[u].owner
                       /\ heap'[u].approved \subseteq heap[u].approved
                       /\ u # o => heap'[u].pending = heap[u].pending
                       /\ u = o => heap'[u].pending = new.pending
  BY <1>1, <1>3, <1>5, <1>6 DEF Mine
<1>12. Consented' = Consented /\ Refused' = Refused
  BY DEF Consented, Refused, Answers
<1>13. AllRaised'
  <2>1. ASSUME NEW u \in Objs, NEW p \in heap'[u].pending PROVE Raised(p, heap[u].owner)'
    <3>1. CASE u = o
      BY <1>3, <1>4, <1>5, <1>6, <1>9, <1>11, <2>1, <3>1 DEF Raised, Mine
    <3>2. CASE u # o
      <4>1. p \in heap[u].pending
        BY <1>11, <2>1, <3>2
      <4>2. Raised(p, heap[u].owner)
        BY <4>1 DEF Safe, Requests, AllRaised
      <4> QED
        BY <1>8, <1>10, <1>11, <4>1, <4>2 DEF Raised, CallsGoOn
    <3> QED
      BY <3>1, <3>2
  <2>2. ASSUME NEW u \in Objs, NEW a \in heap'[u].approved
        PROVE  Raised(a, heap[u].owner)' /\ a.id \in Consented'
    <3>1. a \in heap[u].approved
      BY <1>11, <2>2
    <3>2. Raised(a, heap[u].owner) /\ a.id \in Consented
      BY <3>1 DEF Safe, Requests, AllRaised
    <3> QED
      BY <1>8, <1>10, <1>11, <1>12, <3>1, <3>2 DEF Raised, CallsGoOn
  <2>3. ASSUME NEW f \in Confirms, NEW q \in confirm'[f].ask PROVE Raised(q, SessionOf[f])'
    <3>1. Raised(q, SessionOf[f]) /\ q \in confirm[f].ask
      BY <2>3 DEF Safe, Requests, AllRaised
    <3> QED
      BY <1>8, <1>10, <3>1 DEF Raised, CallsGoOn
  <2> QED
    BY <2>1, <2>2, <2>3 DEF AllRaised
<1>14. Single'
  <2>1. \A u \in Objs : \A p, q \in heap'[u].pending : p = q
    BY <1>3, <1>11 DEF Safe, Requests, Single
  <2>2. \A u \in Objs : \A a, b \in heap'[u].approved : a = b
    BY <1>11 DEF Safe, Requests, Single
  <2> QED
    BY <2>1, <2>2 DEF Safe, Requests, Single
<1>15. InOnePlace'
  <2>1. \A u, v \in Objs : \A p \in heap'[u].pending, q \in heap'[v].pending : p.id = q.id => u = v
    BY <1>3, <1>10, <1>11 DEF Safe, Requests, InOnePlace
  <2>2. \A u, v \in Objs : \A a \in heap'[u].approved, b \in heap'[v].approved : a.id = b.id => u = v
    BY <1>11 DEF Safe, Requests, InOnePlace
  <2>3. \A u, v \in Objs : \A p \in heap'[u].pending, a \in heap'[v].approved : p.id # a.id
    BY <1>3, <1>10, <1>11 DEF Safe, Requests, InOnePlace
  <2> QED
    BY <2>1, <2>2, <2>3 DEF InOnePlace
<1>16. \A i : i # c /\ Gone(i) => Gone(i)'
  BY <1>3, <1>11 DEF Gone
<1>17. GrantsSpent'
  <2>1. \A d \in Calls : call'[d].grant = call[d].grant
    BY <1>8 DEF CallsGoOn
  <2>2. ASSUME NEW d \in Calls, NEW i \in call'[d].grant
        PROVE  /\ i \in Consented' /\ Gone(i)'
               /\ call'[i].pc = "blocked" /\ call'[i].cmd = call'[d].cmd
               /\ SessionOf[i] = SessionOf[d]
    <3>1. i \in call[d].grant /\ i \in Calls
      BY <1>6, <2>1, <2>2 DEF CallState
    <3>2. i # c /\ call[d].pc # "idle" /\ call[i].pc = "blocked"
      BY <1>9, <3>1 DEF Safe, Requests, GrantsSpent
    <3>3. call'[d].cmd = call[d].cmd /\ call'[i].cmd = call[i].cmd /\ call'[i].pc = "blocked"
      BY <1>8, <3>1, <3>2 DEF CallsGoOn
    <3> QED
      BY <1>12, <1>16, <3>1, <3>2, <3>3 DEF Safe, Requests, GrantsSpent
  <2>3. \A d, e \in Calls : \A i \in call'[d].grant : i \in call'[e].grant => d = e
    BY <2>1 DEF Safe, Requests, GrantsSpent
  <2>4. \A d \in Calls : call'[d].pc = "idle" => call'[d].grant = {}
    BY <1>8 DEF CallsGoOn, Safe, Requests, GrantsSpent
  <2> QED
    BY <2>2, <2>3, <2>4 DEF GrantsSpent
<1>18. DenialsStand'
  <2>1. c \notin Refused
    BY <1>10 DEF Refused, Answers
  <2> QED
    BY <1>8, <1>12, <1>16, <2>1 DEF Safe, Requests, DenialsStand, CallsGoOn
<1> QED
  BY <1>7, <1>13, <1>14, <1>15, <1>17, <1>18 DEF Requests

\* Using an approval: the request goes from its object to the call.
LEMMA UseApprovalSafe ==
  ASSUME Safe, NEW c \in Calls, NEW verdict, UseApproval(c, verdict)
  PROVE  Owned' /\ Requests'
<1> DEFINE o   == call[c].obj
           ids == {a.id : a \in Mine(c).approved}
           new == Spend(Mine(c))
           x   == Granted(call[c], ids)
<1>1. /\ call[c].pc \in InFlight /\ Mine(c) \in SessionState /\ call[c] \in CallState
      /\ o \in Objs
  BY CallTypes DEF UseApproval, InFlight
<1>2. new.owner = Mine(c).owner /\ new.pending = Mine(c).pending /\ new.approved = {}
  BY <1>1, OperationsKeep
<1>3. x.pc = "verify" /\ x.cmd = call[c].cmd /\ x.obj = o /\ x.grant = ids
  <2>1. LocalsGone(call[c]) \in CallState
    BY <1>1, CallRecordType
  <2>2. Passing(call[c], "approval") \in CallState
    BY <1>1, CallMoveType DEF Ways
  <2> HIDE DEF ids
  <2> QED
    BY <1>1, <2>1, <2>2 DEF Granted, Passing, LocalsGone, CallState
<1>4. heap' = [heap EXCEPT ![o] = new] /\ call' = [call EXCEPT ![c] = x]
  BY DEF UseApproval, Write
<1>5. heap \in [Objs -> SessionState] /\ call \in [Calls -> CallState]
  BY DEF Safe, Typed, TypeOK, StoreTypeOK
<1>6. PICK a0 \in Mine(c).approved : a0.cmd = call[c].cmd
  BY DEF UseApproval, Approves
<1>7. /\ a0 \in heap[o].approved /\ a0.id \in Calls
      /\ \A a \in heap[o].approved : a = a0
      /\ Raised(a0, SessionOf[c]) /\ a0.id \in Consented
  <2>1. a0 \in heap[o].approved
    BY <1>6 DEF Mine
  <2>2. heap[o].owner = SessionOf[c]
    BY <1>1, StoreAssumption DEF Safe, Owned
  <2>3. a0.id \in Calls
    BY <1>1, <1>5, <2>1 DEF SessionState, Approval
  <2> QED
    BY <1>1, <2>1, <2>2, <2>3 DEF Safe, Requests, AllRaised, Single
<1>8. ids = {a0.id}
  BY <1>6, <1>7 DEF Mine
<1> HIDE DEF new, x, ids
<1>9. Owned'
  <2>1. CallStep(c, new, x)
    BY <1>1, <1>2, <1>3, <1>4 DEF CallStep, UseApproval, maps
  <2> QED
    BY <2>1, CallStepOwned DEF Safe
<1>10. /\ \A d \in Calls : /\ d # c => call'[d] = call[d]
                           /\ call'[d].cmd = call[d].cmd
                           /\ call[d].pc = "blocked" => call'[d].pc = "blocked"
       /\ call'[c].grant = {a0.id} /\ call'[c].pc = "verify"
       /\ call[c].pc = "classify"
  BY <1>3, <1>4, <1>5, <1>8 DEF UseApproval
<1>11. \A u \in Objs : /\ heap'[u].owner = heap[u].owner
                       /\ heap'[u].pending = heap[u].pending
                       /\ heap'[u].approved \subseteq heap[u].approved
                       /\ heap'[o].approved = {}
  BY <1>1, <1>2, <1>4, <1>5 DEF Mine
<1>12. Consented' = Consented /\ Refused' = Refused /\ confirm' = confirm
  BY DEF Consented, Refused, Answers, UseApproval
<1>13. /\ \A u \in Objs : \A p \in heap[u].pending : p.id \in Calls
       /\ \A u \in Objs : \A a \in heap[u].approved : a.id \in Calls
       /\ \A f \in Confirms : \A q \in confirm[f].ask : q.id \in Calls
  BY DEF Safe, Typed, TypeOK, StoreTypeOK, SessionState, ConfirmState, Request, Approval
<1>14. AllRaised'
  <2>1. \A r, s : r.id \in Calls /\ Raised(r, s) => Raised(r, s)'
    BY <1>10 DEF Raised
  <2> QED
    BY <1>11, <1>12, <1>13, <2>1 DEF Safe, Requests, AllRaised, Raised
<1>15. Single' /\ InOnePlace'
  BY <1>11, <1>12 DEF Safe, Requests, Single, InOnePlace
<1>16. \A i : Gone(i) => Gone(i)'
  BY <1>11 DEF Gone
<1>17. Gone(a0.id)'
  <2>1. \A u \in Objs : \A p \in heap'[u].pending : p.id # a0.id
    BY <1>1, <1>7, <1>11 DEF Safe, Requests, InOnePlace
  <2>2. \A u \in Objs : \A a \in heap'[u].approved : a.id # a0.id
    BY <1>1, <1>7, <1>11 DEF Safe, Requests, InOnePlace
  <2> QED
    BY <2>1, <2>2 DEF Gone
<1>18. \A d \in Calls : \A i \in call[d].grant : i # a0.id
  BY <1>1, <1>7 DEF Safe, Requests, GrantsSpent, Gone
<1>19. GrantsSpent'
  <2>1. ASSUME NEW d \in Calls, NEW i \in call'[d].grant
        PROVE  /\ i \in Consented' /\ Gone(i)'
               /\ call'[i].pc = "blocked" /\ call'[i].cmd = call'[d].cmd
               /\ SessionOf[i] = SessionOf[d]
    <3>1. CASE d = c
      <4>1. i = a0.id /\ call[i].pc = "blocked" /\ call[i].cmd = call[c].cmd
            /\ SessionOf[i] = SessionOf[c]
        BY <1>6, <1>7, <1>10, <2>1, <3>1 DEF Raised
      <4> QED
        BY <1>7, <1>10, <1>12, <1>17, <3>1, <4>1
    <3>2. CASE d # c
      <4>1. i \in call[d].grant /\ i \in Calls
        BY <1>5, <1>10, <2>1, <3>2 DEF CallState
      <4>2. /\ i \in Consented /\ Gone(i) /\ call[i].pc = "blocked"
            /\ call[i].cmd = call[d].cmd /\ SessionOf[i] = SessionOf[d]
        BY <4>1 DEF Safe, Requests, GrantsSpent
      <4> QED
        BY <1>10, <1>12, <1>16, <4>1, <4>2
    <3> QED
      BY <3>1, <3>2
  <2>2. \A d, e \in Calls : \A i \in call'[d].grant : i \in call'[e].grant => d = e
    BY <1>10, <1>18 DEF Safe, Requests, GrantsSpent
  <2>3. \A d \in Calls : call'[d].pc = "idle" => call'[d].grant = {}
    BY <1>10 DEF Safe, Requests, GrantsSpent
  <2> QED
    BY <2>1, <2>2, <2>3 DEF GrantsSpent
<1>20. DenialsStand'
  <2>1. a0.id \notin Refused
    BY <1>1, <1>7 DEF Safe, Requests, DenialsStand, Gone
  <2> QED
    BY <1>10, <1>12, <1>16, <2>1 DEF Safe, Requests, DenialsStand
<1> QED
  BY <1>9, <1>14, <1>15, <1>19, <1>20 DEF Requests

LEMMA FallbackSafe ==
  ASSUME Safe, NEW c \in Calls, call[c].pc \in InFlight,
         NEW st \in {Mine(c), Consume(Discard(Mine(c)), c)},
         Fallback(c, st), confirm' = confirm, sessions' = sessions
  PROVE  Owned' /\ Requests'
<1>1. CASE Write(c, st) /\ LetThrough(c, "open")
  BY <1>1, PassSafe DEF Ways
<1>2. CASE Write(c, RecordRejection(st, call[c].cmd)) /\ Block(c)
  BY <1>2, RefusalSafe
<1>3. CASE Write(c, RaiseRequest(st, c)) /\ Block(c)
  BY <1>3, RaiseSafe
<1> QED
  BY <1>1, <1>2, <1>3 DEF Fallback

LEMMA StartReviewSafe ==
  ASSUME Safe, NEW c \in Calls, NEW verdict, NEW view \in Views, StartReview(c, verdict, view)
  PROVE  Owned' /\ Requests'
<1> DEFINE st0 == Discard(Mine(c))
           st  == Consume(st0, c)
           key == CacheKey(c, view)
           x   == Reviewing(Seeing(call[c], view), RejectionAtStart(st0), FailureAtStart(st0), key)
<1>1. call[c].pc \in InFlight /\ Mine(c) \in SessionState /\ call[c] \in CallState
      /\ call[c].cmd \in Commands
  BY CallTypes DEF StartReview, NeedsReview, InFlight
<1>2. st0 \in SessionState
  BY <1>1, DiscardType
<1>3. st.owner = Mine(c).owner /\ st.pending = Mine(c).pending /\ st.approved = {}
  BY <1>1, <1>2, OperationsKeep
<1>4. RejectionAtStart(st0) \in SUBSET Rejection /\ FailureAtStart(st0) \in SUBSET Failure
  BY <1>2 DEF RejectionAtStart, FailureAtStart, SessionState
<1>5. key \in SUBSET Keys
  BY <1>1, InputAssumption DEF CacheKey, Keys
<1>6. CASE Write(c, st) /\ call' = [call EXCEPT ![c] = x]
  <2> HIDE DEF st0, key
  <2>1. x.pc # "idle" /\ x.cmd = call[c].cmd /\ x.obj \in {call[c].obj, NoObj}
        /\ x.grant = call[c].grant
    BY <1>1, <1>4, <1>5, RecordKeeps DEF Ways
  <2>2. CallStep(c, st, x)
    BY <1>1, <1>3, <1>6, <2>1 DEF CallStep, Write, StartReview
  <2> HIDE DEF x, st
  <2> QED
    BY <1>3, <2>1, <2>2, QuietCallStep
<1>7. CASE Fallback(c, st)
  BY <1>1, <1>7, FallbackSafe DEF StartReview
<1> QED
  BY <1>6, <1>7 DEF StartReview

LEMMA DecideSafe ==
  ASSUME Safe, NEW c \in Calls, Decide(c)
  PROVE  Owned' /\ Requests'
<1>1. ASSUME NEW verdict, StaticDeny(c, verdict) PROVE Owned' /\ Requests'
  BY <1>1, RefusalSafe DEF StaticDeny, InFlight, maps
<1>2. ASSUME NEW verdict, StaticAllow(c, verdict) PROVE Owned' /\ Requests'
  BY <1>2, PassSafe DEF StaticAllow, InFlight, maps, Ways
<1> QED
  BY <1>1, <1>2, UseApprovalSafe, CachedAllowSafe, StartReviewSafe DEF Decide

LEMMA ReviewReturnsSafe ==
  ASSUME Safe, NEW c \in Calls, ReviewReturns(c)
  PROVE  Owned' /\ Requests'
<1> PICK reply \in Replies : \/ ReviewBypass(c, reply)
                             \/ ReviewDeny(c, reply)
                             \/ ReviewAllow(c, reply)
                             \/ ReviewFails(c, reply)
  BY DEF ReviewReturns
<1>1. CASE ReviewDeny(c, reply)
  BY <1>1, RefusalSafe DEF ReviewDeny, InFlight, maps
<1>2. CASE ReviewAllow(c, reply)
  BY <1>2, PassSafe DEF ReviewAllow, InFlight, Ways
<1>3. CASE ReviewFails(c, reply)
  BY <1>3, FallbackSafe DEF ReviewFails, InFlight, maps
<1> QED
  BY <1>1, <1>2, <1>3, BypassSafe

LEMMA VerifySafe ==
  ASSUME Safe, NEW c \in Calls, Verify(c)
  PROVE  Owned' /\ Requests'
<1>1. CASE VerifyFails(c)
  BY <1>1, RefusalSafe DEF VerifyFails, InFlight, maps
<1> QED
  BY <1>1, SettleSafe DEF Verify

\* A hook that obtains the object of its session: its own, or a new one nobody
\* else holds.
LEMMA ObtainSafe ==
  ASSUME Safe, NEW c \in Calls, NEW o \in Objs, GetSession(SessionOf[c], o, Reachable),
         NEW st, heap' = [heap EXCEPT ![o] = st],
         st.owner = Obtained(SessionOf[c], o).owner,
         st.pending = Obtained(SessionOf[c], o).pending,
         st.approved = Obtained(SessionOf[c], o).approved,
         NEW x, call' = [call EXCEPT ![c] = x],
         call[c].pc # "blocked", call[c].pc = "idle" \/ x.cmd = call[c].cmd,
         x.pc # "idle", x.obj \in {o, call[c].obj, NoObj}, x.grant = call[c].grant,
         confirm' = confirm
  PROVE  Owned' /\ Requests'
<1> DEFINE s == SessionOf[c]
<1>1. /\ heap \in [Objs -> SessionState] /\ call \in [Calls -> CallState]
      /\ sessions \in [Sessions -> Objs \cup {NoObj}] /\ s \in Sessions
  BY InputAssumption DEF Safe, Typed, TypeOK, StoreTypeOK
<1>2. \/ /\ o = sessions[s] /\ st.owner = heap[o].owner
         /\ st.pending = heap[o].pending /\ st.approved = heap[o].approved
      \/ o \notin Reachable /\ st.owner = s /\ st.pending = {} /\ st.approved = {}
  <2>1. CASE s \in Live \ Stale
    BY <1>1, <2>1 DEF GetSession, Obtained, SessionState
  <2>2. CASE s \notin Live \ Stale
    BY <2>2 DEF GetSession, Obtained, Fresh
  <2> QED
    BY <2>1, <2>2
<1>3. st.owner = s
  BY <1>1, <1>2, StoreAssumption DEF Safe, Owned
<1>4. \A u \in Objs : u \in Reachable => heap'[u].owner = heap[u].owner
  BY <1>1, <1>2
<1>5. ObjectsShrink
  BY <1>1, <1>2 DEF ObjectsShrink
<1>6. CallsGoOn
  BY <1>1 DEF CallsGoOn
<1>7. AnswersStand /\ Consented' = Consented /\ Refused' = Refused
  BY DEF AnswersStand, Consented, Refused, Answers
<1>8. Owned'
  <2>1. \A t \in Sessions : sessions'[t] # NoObj => heap'[sessions'[t]].owner = t
    <3>1. ASSUME NEW t \in Sessions, sessions'[t] # NoObj, t # s
          PROVE  heap'[sessions'[t]].owner = t
      <4>1. sessions'[t] = sessions[t]
        BY <1>1, <3>1 DEF GetSession
      <4>2. sessions[t] \in Reachable /\ sessions[t] \in Objs
        BY <1>1, <3>1, <4>1 DEF Reachable
      <4> QED
        BY <1>4, <3>1, <4>1, <4>2 DEF Safe, Owned
    <3>2. sessions'[s] = o
      BY <1>1 DEF GetSession
    <3> QED
      BY <1>1, <1>3, <3>1, <3>2
  <2>2. \A d \in Calls : call[d].obj # NoObj => heap'[call[d].obj].owner = SessionOf[d]
    <3>1. \A d \in Calls : call[d].obj \in Reachable /\ call[d].obj \in Objs \cup {NoObj}
      BY <1>1 DEF Reachable, CallState
    <3> QED
      BY <1>4, <3>1 DEF Safe, Owned
  <2>3. \A f \in Confirms : confirm[f].obj # NoObj => heap'[confirm[f].obj].owner = SessionOf[f]
    <3>1. \A f \in Confirms : confirm[f].obj \in Reachable /\ confirm[f].obj \in Objs \cup {NoObj}
      BY DEF Reachable, Safe, Typed, TypeOK, ConfirmState
    <3> QED
      BY <1>4, <3>1 DEF Safe, Owned
  <2>4. \A d \in Calls : call'[d].obj # NoObj => heap'[call'[d].obj].owner = SessionOf[d]
    BY <1>1, <1>3, <2>2
  <2> QED
    BY <2>1, <2>3, <2>4 DEF Owned
<1> QED
  BY <1>5, <1>6, <1>7, <1>8, QuietRequests DEF Safe

LEMMA BeginSafe ==
  ASSUME Safe, NEW c \in Calls, NEW cmd \in Commands, Begin(c, cmd)
  PROVE  Owned' /\ Requests'
<1> DEFINE s == SessionOf[c]
<1>1. PICK o \in Objs :
        /\ GetSession(s, o, Reachable)
        /\ IF cmd = Blank
             THEN /\ heap' = [heap EXCEPT ![o] = RecordRejection(Obtained(s, o), cmd)]
                  /\ call' = [call EXCEPT ![c] = Blocked(Given(@, cmd))]
             ELSE /\ heap' = [heap EXCEPT ![o] = Obtained(s, o)]
                  /\ call' = [call EXCEPT ![c] = Started(Given(@, cmd), o)]
  BY DEF Begin
<1>2. Obtained(s, o) \in SessionState
  BY <1>1, GetSessionType, InputAssumption DEF Safe, Typed
<1>3. call[c] \in CallState /\ call[c].pc = "idle" /\ confirm' = confirm
  BY DEF Begin, Safe, Typed, TypeOK
<1> DEFINE given == Given(call[c], cmd)
<1>4. given \in CallState /\ given.grant = call[c].grant
  BY <1>3, CallRecordType DEF Given, CallState
<1>5. CASE cmd = Blank
  <2> DEFINE x  == Blocked(given)
             st == RecordRejection(Obtained(s, o), cmd)
  <2>1. heap' = [heap EXCEPT ![o] = st] /\ call' = [call EXCEPT ![c] = x]
    BY <1>1, <1>5
  <2>2. /\ st.owner = Obtained(s, o).owner /\ st.pending = Obtained(s, o).pending
        /\ st.approved = Obtained(s, o).approved
    BY <1>2, OperationsKeep
  <2>3. x.pc # "idle" /\ x.obj = NoObj /\ x.grant = call[c].grant
    <3>1. LocalsGone(given) \in CallState /\ Over(given) \in CallState
      BY <1>4, CallRecordType
    <3> HIDE DEF given
    <3> QED
      BY <1>4, <3>1 DEF Blocked, At, Over, LocalsGone, CallState
  <2> HIDE DEF x, st
  <2> QED
    BY <1>1, <1>3, <2>1, <2>2, <2>3, ObtainSafe
<1>6. CASE cmd # Blank
  <2> DEFINE x == Started(given, o)
             st == Obtained(SessionOf[c], o)
  <2>1. heap' = [heap EXCEPT ![o] = st] /\ call' = [call EXCEPT ![c] = x]
    BY <1>1, <1>6
  <2>2. x.pc # "idle" /\ x.obj = o /\ x.grant = call[c].grant
    <3> HIDE DEF given
    <3> QED
      BY <1>4 DEF Started, CallState
  <2>3. /\ st.owner = Obtained(SessionOf[c], o).owner
        /\ st.pending = Obtained(SessionOf[c], o).pending
        /\ st.approved = Obtained(SessionOf[c], o).approved
    OBVIOUS
  <2>4. GetSession(SessionOf[c], o, Reachable)
    BY <1>1
  <2> HIDE DEF x, st
  <2> QED
    BY <1>3, <2>1, <2>2, <2>3, <2>4, ObtainSafe
<1> QED
  BY <1>5, <1>6

LEMMA FinishSafe ==
  ASSUME Safe, NEW c \in Calls, NEW exit \in Exits, Finish(c, exit)
  PROVE  Owned' /\ Requests'
<1> DEFINE s == SessionOf[c]
           x == At(call[c], "done")
<1>1. PICK o \in Objs :
        /\ GetSession(s, o, Reachable)
        /\ heap' = [heap EXCEPT ![o] = Reported(Obtained(s, o), c, exit)]
  BY DEF Finish
<1>2. Obtained(s, o) \in SessionState
  BY <1>1, GetSessionType, InputAssumption DEF Safe, Typed
<1> DEFINE st == Reported(Obtained(s, o), c, exit)
<1>3. /\ st.owner = Obtained(s, o).owner /\ st.pending = Obtained(s, o).pending
      /\ st.approved = Obtained(s, o).approved
  BY <1>2, OperationsKeep DEF Reported
<1>4. call[c] \in CallState /\ call[c].pc = "allowed" /\ confirm' = confirm
      /\ call' = [call EXCEPT ![c] = x]
  BY DEF Finish, Safe, Typed, TypeOK
<1>5. x.pc # "idle" /\ x.cmd = call[c].cmd /\ x.obj = call[c].obj /\ x.grant = call[c].grant
  BY <1>4 DEF At, CallState
<1> HIDE DEF x, st
<1> QED
  BY <1>1, <1>3, <1>4, <1>5, ObtainSafe DEF st

-------------------------------------------------------------------------------
(* The steps of a confirmation *)

LEMMA AnswersOf ==
  ASSUME NEW pc, NEW i
  PROVE  i \in Answers(pc) <=>
           i \in Calls /\ \E f \in Confirms : confirm[f].pc = pc /\ \E q \in confirm[f].ask : q.id = i
BY DEF Answers

\* Objects of sessions may be dropped and lose requests; nobody gets another.
LEMMA HoldersKeep ==
  ASSUME Typed, Owned, call' = call,
         \A u \in Objs : heap'[u].owner = heap[u].owner,
         \A s \in Sessions : sessions'[s] \in {sessions[s], NoObj},
         \A f \in Confirms : confirm'[f].obj \in {confirm[f].obj, NoObj}
                               \/ (confirm'[f].obj \in Objs /\ heap[confirm'[f].obj].owner = SessionOf[f])
  PROVE  Owned'
<1>1. /\ \A c \in Calls : call[c].obj \in Objs \cup {NoObj}
      /\ \A f \in Confirms : confirm[f].obj \in Objs \cup {NoObj}
      /\ \A s \in Sessions : sessions[s] \in Objs \cup {NoObj}
  BY DEF Typed, TypeOK, StoreTypeOK, CallState, ConfirmState
<1>2. \A s \in Sessions : sessions'[s] # NoObj => heap'[sessions'[s]].owner = s
  BY <1>1 DEF Owned
<1>3. \A c \in Calls : call'[c].obj # NoObj => heap'[call'[c].obj].owner = SessionOf[c]
  BY <1>1 DEF Owned
<1>4. \A f \in Confirms : confirm'[f].obj # NoObj => heap'[confirm'[f].obj].owner = SessionOf[f]
  BY <1>1 DEF Owned
<1> QED
  BY <1>2, <1>3, <1>4 DEF Owned

LEMMA CallsStay ==
  ASSUME Typed, call' = call
  PROVE  CallsGoOn
BY DEF CallsGoOn

\* Before the user is asked: nothing, or the expired request goes.
LEMMA ConfirmClosesSafe ==
  ASSUME Safe, NEW f \in Confirms, NEW id, ConfirmRefused(f, id) \/ ConfirmExpired(f, id)
  PROVE  Owned' /\ Requests'
<1>1. /\ heap \in [Objs -> SessionState] /\ confirm \in [Confirms -> ConfirmState]
      /\ sessions \in [Sessions -> Objs \cup {NoObj}]
  BY DEF Safe, Typed, TypeOK, StoreTypeOK
<1>2. call' = call /\ confirm' = [confirm EXCEPT ![f].pc = "done"] /\ confirm[f].pc = "idle"
  BY DEF ConfirmRefused, ConfirmExpired
<1>3. \A g \in Confirms : /\ confirm'[g].ask = confirm[g].ask /\ confirm'[g].obj = confirm[g].obj
                          /\ \A pc \in {"approved", "denied"} : confirm'[g].pc = pc <=> confirm[g].pc = pc
  BY <1>1, <1>2 DEF ConfirmState
<1>4. Consented' = Consented /\ Refused' = Refused
  BY <1>3 DEF Consented, Refused, Answers
<1>5. \A u \in Objs : /\ heap'[u].owner = heap[u].owner
                      /\ heap'[u].pending \subseteq heap[u].pending
                      /\ heap'[u].approved = heap[u].approved
  <2>1. CASE ConfirmRefused(f, id)
    BY <2>1 DEF ConfirmRefused
  <2>2. CASE ConfirmExpired(f, id)
    <3> DEFINE o == Surviving(SessionOf[f])
    <3>1. o \in Objs
      BY <2>2, AskedType DEF ConfirmExpired, Safe
    <3>2. heap' = [heap EXCEPT ![o] = Withdrawn(heap[o])]
      BY <2>2 DEF ConfirmExpired
    <3>3. /\ Withdrawn(heap[o]).owner = heap[o].owner /\ Withdrawn(heap[o]).pending = {}
          /\ Withdrawn(heap[o]).approved = heap[o].approved
      BY <1>1, <3>1 DEF Withdrawn, SessionState
    <3> HIDE DEF o
    <3> QED
      BY <1>1, <3>1, <3>2, <3>3
  <2> QED
    BY <2>1, <2>2
<1>6. \A s \in Sessions : sessions'[s] \in {sessions[s], NoObj}
  BY <1>1 DEF ConfirmRefused, ConfirmExpired, DropSessions
<1>7. Owned'
  BY <1>2, <1>3, <1>5, <1>6, HoldersKeep DEF Safe
<1>8. ObjectsShrink /\ AnswersStand
  BY <1>3, <1>5 DEF ObjectsShrink, AnswersStand
<1> QED
  BY <1>2, <1>4, <1>7, <1>8, CallsStay, QuietRequests DEF Safe

\* The user is asked about a request that is pending in the session's object.
LEMMA ConfirmAskSafe ==
  ASSUME Safe, NEW f \in Confirms, NEW id, ConfirmAsk(f, id)
  PROVE  Owned' /\ Requests'
<1> DEFINE o == Surviving(SessionOf[f])
<1>1. /\ heap \in [Objs -> SessionState] /\ confirm \in [Confirms -> ConfirmState]
      /\ sessions \in [Sessions -> Objs \cup {NoObj}] /\ SessionOf[f] \in Sessions
  BY InputAssumption DEF Safe, Typed, TypeOK, StoreTypeOK
<1>2. PICK p \in Asked(f, id) : confirm' = [confirm EXCEPT ![f] = [pc |-> "asking", obj |-> o, ask |-> {p}]]
  BY DEF ConfirmAsk
<1>3. o \in Objs /\ p \in Request
  BY AskedType DEF Safe
<1>4. p \in heap[o].pending /\ heap[o].owner = SessionOf[f]
  BY <1>1, <1>3, StoreAssumption DEF Asked, Surviving, Safe, Owned
<1>5. call' = call /\ heap' = heap /\ confirm[f].pc = "idle"
  BY DEF ConfirmAsk
<1> HIDE DEF o
<1>6. /\ \A g \in Confirms : g # f => confirm'[g] = confirm[g]
      /\ confirm'[f].pc = "asking" /\ confirm'[f].obj = o /\ confirm'[f].ask = {p}
  BY <1>1, <1>2
<1>7. Consented' = Consented /\ Refused' = Refused
  BY <1>5, <1>6 DEF Consented, Refused, Answers
<1>8. \A s \in Sessions : sessions'[s] \in {sessions[s], NoObj}
  BY <1>1 DEF ConfirmAsk, DropSessions
<1>9. Owned'
  BY <1>3, <1>4, <1>5, <1>6, <1>8, HoldersKeep DEF Safe
<1>10. AllRaised'
  <2>1. Raised(p, SessionOf[f])
    BY <1>3, <1>4 DEF Safe, Requests, AllRaised
  <2>2. \A r, s : Raised(r, s)' <=> Raised(r, s)
    BY <1>5 DEF Raised
  <2>3. \A g \in Confirms : \A q \in confirm'[g].ask : Raised(q, SessionOf[g])
    BY <1>6, <2>1 DEF Safe, Requests, AllRaised
  <2> QED
    BY <1>5, <1>7, <2>2, <2>3 DEF Safe, Requests, AllRaised, Raised
<1>11. Single' /\ InOnePlace'
  BY <1>5, <1>6 DEF Safe, Requests, Single, InOnePlace
<1>12. GrantsSpent' /\ DenialsStand'
  BY <1>5, <1>7 DEF Safe, Requests, GrantsSpent, DenialsStand, Gone
<1> QED
  BY <1>9, <1>10, <1>11, <1>12 DEF Requests

\* What the answer is about: the request in the object is the one asked about.
LEMMA AskedIsPending ==
  ASSUME Safe, NEW f \in Confirms, confirm[f].pc = "asking", StillPending(f)
  PROVE  /\ confirm[f].obj \in Objs
         /\ \E q \in confirm[f].ask :
              /\ q \in Request /\ confirm[f].ask = {q}
              /\ \E p \in heap[confirm[f].obj].pending :
                   p.id = q.id /\ heap[confirm[f].obj].pending = {p}
<1>1. confirm[f].obj \in Objs /\ confirm[f].ask \subseteq Request
  BY DEF Safe, Typed, TypeOK, ConfirmState, Held
<1>2. PICK p \in heap[confirm[f].obj].pending, q \in confirm[f].ask : p.id = q.id
  BY DEF StillPending
<1>3. heap[confirm[f].obj].pending = {p} /\ confirm[f].ask = {q}
  BY <1>1, <1>2 DEF Safe, Requests, Single
<1> QED
  BY <1>1, <1>2, <1>3

LEMMA ConfirmEndsOwned ==
  ASSUME Safe, NEW f \in Confirms, NEW pc, NEW ask, Answered(f, pc, ask),
         call' = call, sessions' = sessions, \A u \in Objs : heap'[u].owner = heap[u].owner
  PROVE  Owned'
<1>1. confirm \in [Confirms -> ConfirmState] /\ sessions \in [Sessions -> Objs \cup {NoObj}]
  BY DEF Safe, Typed, TypeOK, StoreTypeOK
<1>2. \A g \in Confirms : confirm'[g].obj \in {confirm[g].obj, NoObj}
  BY <1>1 DEF Answered
<1> QED
  BY <1>2, HoldersKeep DEF Safe

\* An answered confirmation counts from now on; the others as before.
LEMMA AnswerCounts ==
  ASSUME Safe, NEW f \in Confirms, confirm[f].pc = "asking", NEW pc, NEW ask, Answered(f, pc, ask)
  PROVE  \A way \in {"approved", "denied"}, i \in Calls :
           i \in Answers(way)' <=> i \in Answers(way) \/ (way = pc /\ \E q \in ask : q.id = i)
<1>1. confirm \in [Confirms -> ConfirmState]
  BY DEF Safe, Typed, TypeOK
<1>2. /\ \A g \in Confirms : g # f => confirm'[g] = confirm[g]
      /\ confirm'[f].pc = pc /\ confirm'[f].ask = ask
  BY <1>1 DEF Answered
<1> QED
  BY <1>2 DEF Answers

LEMMA ConfirmSupersededSafe ==
  ASSUME Safe, NEW f \in Confirms, ConfirmSuperseded(f)
  PROVE  Owned' /\ Requests'
<1>1. call' = call /\ heap' = heap /\ sessions' = sessions
  BY DEF ConfirmSuperseded, maps
<1>2. Owned'
  BY <1>1, ConfirmEndsOwned DEF ConfirmSuperseded
<1>3. Consented' = Consented /\ Refused' = Refused
  <2>1. \A i \in Calls : /\ i \in Answers("approved")' <=> i \in Answers("approved")
                         /\ i \in Answers("denied")' <=> i \in Answers("denied")
    BY AnswerCounts DEF ConfirmSuperseded
  <2>2. /\ Answers("approved") \subseteq Calls /\ Answers("approved")' \subseteq Calls
        /\ Answers("denied") \subseteq Calls /\ Answers("denied")' \subseteq Calls
    BY DEF Answers
  <2> QED
    BY <2>1, <2>2 DEF Consented, Refused
<1>4. ObjectsShrink
  BY <1>1 DEF ObjectsShrink
<1>5. AnswersStand
  <2>1. confirm \in [Confirms -> ConfirmState]
    BY DEF Safe, Typed, TypeOK
  <2> QED
    BY <2>1 DEF AnswersStand, ConfirmSuperseded, Answered
<1> QED
  BY <1>1, <1>2, <1>3, <1>4, <1>5, CallsStay, QuietRequests DEF Safe

LEMMA ConfirmDeniedSafe ==
  ASSUME Safe, NEW f \in Confirms, ConfirmDenied(f)
  PROVE  Owned' /\ Requests'
<1> DEFINE o == confirm[f].obj
<1>1. PICK q \in confirm[f].ask, p \in heap[o].pending :
        /\ o \in Objs /\ q \in Request /\ confirm[f].ask = {q}
        /\ p.id = q.id /\ heap[o].pending = {p}
  BY AskedIsPending DEF ConfirmDenied
<1>2. heap \in [Objs -> SessionState] /\ confirm \in [Confirms -> ConfirmState]
  BY DEF Safe, Typed, TypeOK, StoreTypeOK
<1>3. call' = call /\ sessions' = sessions /\ heap' = [heap EXCEPT ![o] = Withdrawn(heap[o])]
      /\ confirm[f].pc = "asking" /\ Answered(f, "denied", confirm[f].ask)
  BY DEF ConfirmDenied, maps
<1>4. \A u \in Objs : /\ heap'[u].owner = heap[u].owner
                      /\ heap'[u].approved = heap[u].approved
                      /\ heap'[u].pending = IF u = o THEN {} ELSE heap[u].pending
  <2>1. /\ Withdrawn(heap[o]).owner = heap[o].owner /\ Withdrawn(heap[o]).pending = {}
        /\ Withdrawn(heap[o]).approved = heap[o].approved
    BY <1>1, <1>2 DEF Withdrawn, SessionState
  <2> QED
    BY <1>1, <1>2, <1>3, <2>1
<1>5. Owned'
  BY <1>3, <1>4, ConfirmEndsOwned
<1>6. \A i \in Calls : /\ i \in Consented' <=> i \in Consented
                       /\ i \in Refused' <=> i \in Refused \/ i = q.id
  BY <1>1, <1>3, AnswerCounts DEF Consented, Refused
<1>7. Consented \subseteq Calls /\ Refused' \subseteq Calls /\ q.id \in Calls
  BY <1>1 DEF Consented, Refused, Answers, Request
<1>8. Gone(q.id)' /\ \A c \in Calls : q.id \notin call[c].grant
  <2>1. \A u \in Objs : \A r \in heap'[u].pending : r.id # q.id
    BY <1>1, <1>4 DEF Safe, Requests, InOnePlace
  <2>2. \A u \in Objs : \A a \in heap'[u].approved : a.id # q.id
    BY <1>1, <1>4 DEF Safe, Requests, InOnePlace
  <2>3. \A c \in Calls : q.id \notin call[c].grant
    BY <1>1 DEF Safe, Requests, GrantsSpent, Gone
  <2> QED
    BY <2>1, <2>2, <2>3 DEF Gone
<1>9. ObjectsShrink
  BY <1>4 DEF ObjectsShrink
<1>10. AnswersStand
  BY <1>2, <1>3 DEF AnswersStand, Answered
<1>11. /\ Consented \subseteq Consented'
       /\ \A i \in Refused' : i \in Refused \/ (Gone(i)' /\ \A c \in Calls : i \notin call[c].grant)
  BY <1>6, <1>7, <1>8
<1> QED
  BY <1>3, <1>5, <1>9, <1>10, <1>11, CallsStay, QuietRequests DEF Safe

\* The request asked about becomes the approval: it is in no other place.
LEMMA ConfirmApprovedSafe ==
  ASSUME Safe, NEW f \in Confirms, ConfirmApproved(f)
  PROVE  Owned' /\ Requests'
<1> DEFINE o   == confirm[f].obj
           new == WithConsent(heap[o], confirm[f].ask)
<1>1. PICK q \in confirm[f].ask, p \in heap[o].pending :
        /\ o \in Objs /\ q \in Request /\ confirm[f].ask = {q}
        /\ p.id = q.id /\ heap[o].pending = {p}
  BY AskedIsPending DEF ConfirmApproved
<1>2. heap \in [Objs -> SessionState] /\ confirm \in [Confirms -> ConfirmState]
      /\ call \in [Calls -> CallState]
  BY DEF Safe, Typed, TypeOK, StoreTypeOK
<1>3. call' = call /\ sessions' = sessions /\ heap' = [heap EXCEPT ![o] = new]
      /\ confirm[f].pc = "asking" /\ Answered(f, "approved", confirm[f].ask)
  BY DEF ConfirmApproved, maps
<1>4. /\ new.owner = heap[o].owner /\ new.pending = {}
      /\ \A a \in new.approved : a = ApprovalOf(q)
      /\ ApprovalOf(q).id = q.id /\ ApprovalOf(q).cmd = q.cmd
  <2>1. new = [heap[o] EXCEPT !.approved = {ApprovalOf(q)}, !.pending = {}]
    BY <1>1 DEF WithConsent
  <2>2. heap[o] \in SessionState
    BY <1>1, <1>2
  <2>3. ApprovalOf(q).id = q.id /\ ApprovalOf(q).cmd = q.cmd
    BY DEF ApprovalOf
  <2> HIDE DEF new
  <2> QED
    BY <2>1, <2>2, <2>3 DEF SessionState
<1> HIDE DEF new
<1>5. \A u \in Objs : /\ heap'[u].owner = heap[u].owner
                      /\ u # o => heap'[u] = heap[u]
                      /\ heap'[o].pending = {}
                      /\ \A a \in heap'[o].approved : a.id = q.id /\ a.cmd = q.cmd
                      /\ \A a, b \in heap'[o].approved : a = b
  BY <1>1, <1>2, <1>3, <1>4
<1>6. Owned'
  BY <1>3, <1>5, ConfirmEndsOwned
<1>7. \A i \in Calls : /\ i \in Consented' <=> i \in Consented \/ i = q.id
                       /\ i \in Refused' <=> i \in Refused
  BY <1>1, <1>3, AnswerCounts DEF Consented, Refused
<1>8. Consented \subseteq Calls /\ Refused' \subseteq Calls /\ q.id \in Calls
  BY <1>1 DEF Consented, Refused, Answers, Request
<1>9. \A g \in Confirms : confirm'[g].ask = confirm[g].ask
  BY <1>2, <1>3 DEF Answered
<1>10. AllRaised'
  <2>1. \A r, s : Raised(r, s)' <=> Raised(r, s)
    BY <1>3 DEF Raised
  <2>2. Raised(q, heap[o].owner)
    <3>1. heap[o].owner = SessionOf[f]
      BY <1>1, StoreAssumption DEF Safe, Owned
    <3> QED
      BY <1>1, <3>1 DEF Safe, Requests, AllRaised
  <2>3. \A u \in Objs : \A r \in heap'[u].pending : Raised(r, heap'[u].owner)
    BY <1>1, <1>5 DEF Safe, Requests, AllRaised
  <2>4. ASSUME NEW u \in Objs, NEW a \in heap'[u].approved
        PROVE  Raised(a, heap'[u].owner) /\ a.id \in Consented'
    <3>1. CASE u = o
      BY <1>5, <1>7, <1>8, <2>2, <2>4, <3>1 DEF Raised
    <3>2. CASE u # o
      BY <1>5, <1>7, <1>8, <2>4, <3>2 DEF Safe, Requests, AllRaised
    <3> QED
      BY <3>1, <3>2
  <2>5. \A g \in Confirms : \A r \in confirm'[g].ask : Raised(r, SessionOf[g])
    BY <1>9 DEF Safe, Requests, AllRaised
  <2> QED
    BY <2>1, <2>3, <2>4, <2>5 DEF AllRaised, Raised
<1>11. Single'
  BY <1>1, <1>5, <1>9 DEF Safe, Requests, Single
<1>12. InOnePlace'
  <2>1. /\ \A u \in Objs : \A r \in heap[u].pending : u # o => r.id # q.id
        /\ \A u \in Objs : \A a \in heap[u].approved : a.id # q.id
    BY <1>1 DEF Safe, Requests, InOnePlace
  <2> QED
    BY <1>1, <1>5, <2>1 DEF Safe, Requests, InOnePlace
<1>13. \A i : Gone(i) => i # q.id
  BY <1>1 DEF Gone
<1>14. \A i : Gone(i) => Gone(i)'
  BY <1>1, <1>5, <1>13 DEF Gone
<1>15. GrantsSpent'
  <2>1. \A c \in Calls : call[c].grant \subseteq Calls
    BY <1>2 DEF CallState
  <2> QED
    BY <1>3, <1>7, <1>14, <2>1 DEF Safe, Requests, GrantsSpent
<1>16. DenialsStand'
  BY <1>3, <1>7, <1>8, <1>14 DEF Safe, Requests, DenialsStand
<1> QED
  BY <1>6, <1>10, <1>11, <1>12, <1>15, <1>16 DEF Requests

-------------------------------------------------------------------------------
(* The whole *)

LEMMA EventSafe ==
  ASSUME Safe, (\E s \in Sessions : SessionDeleted(s)) \/ Dispose \/ Tick
  PROVE  Owned' /\ Requests'
<1>1. /\ heap' = heap /\ call' = call /\ confirm' = confirm
      /\ \A s \in Sessions : sessions'[s] \in {sessions[s], NoObj}
  <2>1. ASSUME NEW t \in Sessions, SessionDeleted(t)
        PROVE  /\ heap' = heap /\ call' = call /\ confirm' = confirm
               /\ \A s \in Sessions : sessions'[s] \in {sessions[s], NoObj}
    BY <2>1 DEF SessionDeleted, DropSessions
  <2>2. CASE Dispose
    BY <2>2 DEF Dispose, Clear
  <2>3. CASE Tick
    BY <2>3 DEF Tick, maps
  <2> QED
    BY <2>1, <2>2, <2>3
<1>2. Owned'
  BY <1>1, HoldersKeep DEF Safe
<1>3. ObjectsShrink /\ AnswersStand /\ Consented' = Consented /\ Refused' = Refused
  BY <1>1 DEF ObjectsShrink, AnswersStand, Consented, Refused, Answers
<1> QED
  BY <1>1, <1>2, <1>3, CallsStay, QuietRequests DEF Safe

LEMMA InitSafe ==
  ASSUME Init
  PROVE  Safe
<1>1. Typed
  BY InitTyped
<1>2. \A o \in Objs : heap[o].pending = {} /\ heap[o].approved = {}
  BY DEF Init, StoreInit, Fresh
<1>3. \A c \in Calls : call[c].obj = NoObj /\ call[c].grant = {} /\ call[c].pc = "idle"
  BY DEF Init
<1>4. \A f \in Confirms : confirm[f].obj = NoObj /\ confirm[f].ask = {} /\ confirm[f].pc = "idle"
  BY DEF Init
<1>5. \A s \in Sessions : sessions[s] = NoObj
  BY DEF Init, StoreInit
<1>6. Owned
  BY <1>3, <1>4, <1>5 DEF Owned
<1>7. Consented = {} /\ Refused = {}
  BY <1>4 DEF Consented, Refused, Answers
<1>8. Requests
  BY <1>2, <1>3, <1>4, <1>7 DEF Requests, AllRaised, Single, InOnePlace, GrantsSpent, DenialsStand
<1> QED
  BY <1>1, <1>6, <1>8 DEF Safe

LEMMA NextSafe ==
  ASSUME Safe, [Next]_vars
  PROVE  Safe'
<1>1. Typed'
  BY NextTyped DEF Safe
<1>2. ASSUME NEW c \in Calls, Resume(c) PROVE Owned' /\ Requests'
  BY <1>2, DecideSafe, ReviewReturnsSafe, SettleSafe, VerifySafe DEF Resume
<1>3. ASSUME NEW f \in Confirms, NEW id,
             ConfirmRefused(f, id) \/ ConfirmExpired(f, id) \/ ConfirmAsk(f, id)
      PROVE  Owned' /\ Requests'
  BY <1>3, ConfirmClosesSafe, ConfirmAskSafe
<1>4. ASSUME NEW f \in Confirms, ConfirmApproved(f) \/ ConfirmDenied(f) \/ ConfirmSuperseded(f)
      PROVE  Owned' /\ Requests'
  BY <1>4, ConfirmApprovedSafe, ConfirmDeniedSafe, ConfirmSupersededSafe
<1>5. CASE Next
  <2>1. ASSUME NEW c \in Calls, \/ \E cmd \in Commands : Begin(c, cmd)
                               \/ Resume(c)
                               \/ \E exit \in Exits : Finish(c, exit)
        PROVE  Owned' /\ Requests'
    BY <1>2, <2>1, BeginSafe, FinishSafe
  <2>2. ASSUME NEW f \in Confirms, \/ \E id \in Calls : \/ ConfirmRefused(f, id)
                                                       \/ ConfirmExpired(f, id)
                                                       \/ ConfirmAsk(f, id)
                                  \/ ConfirmApproved(f)
                                  \/ ConfirmDenied(f)
                                  \/ ConfirmSuperseded(f)
        PROVE  Owned' /\ Requests'
    BY <1>3, <1>4, <2>2
  <2> QED
    BY <1>1, <1>5, <2>1, <2>2, EventSafe DEF Next, Safe
<1>6. CASE UNCHANGED vars
  <2>1. heap' = heap /\ call' = call /\ confirm' = confirm /\ sessions' = sessions
    BY <1>6 DEF vars, maps
  <2>2. Owned'
    BY <2>1 DEF Safe, Owned
  <2>3. ObjectsShrink /\ AnswersStand /\ Consented' = Consented /\ Refused' = Refused
    BY <2>1 DEF ObjectsShrink, AnswersStand, Consented, Refused, Answers
  <2>4. CallsGoOn
    BY <2>1, CallsStay DEF Safe
  <2>5. Requests'
    BY <2>3, <2>4, QuietRequests DEF Safe
  <2> QED
    BY <1>1, <2>2, <2>5 DEF Safe
<1> QED
  BY <1>5, <1>6

LEMMA AlwaysSafe ==
  Spec => []Safe
<1> QED
  BY InitSafe, NextSafe, PTL DEF Spec

\* However many calls are retried, blocked, reviewed or dropped together, a
\* command let through on an approval is the one the user was asked about, in
\* the same session, and the user said yes (index.ts:462-478, 726-753).
THEOREM ApprovalIsExact ==
  Spec => []ApprovalExact
<1>1. Safe => ApprovalExact
  BY DEF Safe, Requests, GrantsSpent, ApprovalExact
<1> QED
  BY <1>1, AlwaysSafe, PTL

\* However many retries race for one approval, and however many confirmations
\* of its request are open, it lets one call through (index.ts:465, 752).
THEOREM ApprovalIsSpentOnce ==
  Spec => []ApprovalSpentOnce
<1>1. Safe => ApprovalSpentOnce
  BY DEF Safe, Requests, GrantsSpent, ApprovalSpentOnce
<1> QED
  BY <1>1, AlwaysSafe, PTL

\* A request the user denied in one confirmation is never approved in another
\* and never lets a command through (index.ts:757-775).
THEOREM DenialIsFinal ==
  Spec => []DeniedNeverRuns
<1>1. Safe => DeniedNeverRuns
  <2>1. ASSUME Safe PROVE \A c \in Calls : call[c].grant \cap Refused = {}
    BY <2>1 DEF Safe, Requests, DenialsStand
  <2>2. ASSUME Safe PROVE \A o \in Objs : \A a \in heap[o].approved : a.id \notin Refused
    BY <2>2 DEF Safe, Requests, DenialsStand, Gone
  <2> QED
    BY <2>1, <2>2 DEF DeniedNeverRuns
<1> QED
  BY <1>1, AlwaysSafe, PTL

\* What the user approved is what is let through, once: for any sessions, calls and
\* confirmations (index.ts:463-478, 726-753).
THEOREM ApprovalIsBound == Spec => []ApprovalBinds
  BY ApprovalIsExact, ApprovalIsSpentOnce, PTL DEF ApprovalBinds

-------------------------------------------------------------------------------
(* Generations *)

\* In one object: whatever carries the generation of the rejection is about it,
\* and a generation is new when it is given out.
Distinct(st) ==
  /\ \A r \in st.rejected : r.gen > 0 /\ r.gen <= st.version
  /\ \A p \in st.pending : p.gen <= st.version
  /\ \A a \in st.approved : a.gen <= st.version
  /\ \A r, q \in st.rejected : r = q
  /\ \A r \in st.rejected : \A p \in st.pending : p.gen = r.gen => p.cmd = r.cmd
  /\ \A r \in st.rejected : \A a \in st.approved : a.gen = r.gen => a.cmd = r.cmd

\* From one state of an object to another: a rejection that is new has a generation
\* that is new.
Onward(st, t) ==
  /\ t.version >= st.version
  /\ \A r \in t.rejected : r \in st.rejected \/ r.gen > st.version

\* A snapshot is of the call's own object, during the review it was taken for.
SnapshotsHold ==
  \A c \in Calls :
    /\ call[c].rej # {} => call[c].pc \in {"review", "abort"}
    /\ \A x \in call[c].rej :
         x.gen <= Mine(c).version /\ \A r \in Mine(c).rejected : x.gen = r.gen => x = r

Generations == (\A o \in Objs : Distinct(heap[o])) /\ SnapshotsHold

LEMMA OnwardTwice ==
  ASSUME NEW st \in SessionState, NEW t \in SessionState, NEW u \in SessionState,
         Onward(st, t), Onward(t, u)
  PROVE  Onward(st, u)
BY DEF Onward, SessionState, Rejection

LEMMA FreshDistinct ==
  ASSUME NEW s
  PROVE  Distinct(Fresh(s))
BY DEF Distinct, Fresh

\* What takes away, and what only touches the object.
LEMMA LosesOnward ==
  ASSUME NEW st \in SessionState, NEW t \in SessionState, Distinct(st),
         t.version = st.version, t.rejected \subseteq st.rejected,
         t.pending \subseteq st.pending, t.approved \subseteq st.approved
  PROVE  Distinct(t) /\ Onward(st, t)
BY DEF Distinct, Onward, SessionState

\* What gives out a generation, and may record a rejection with it.
LEMMA GivesOnward ==
  ASSUME NEW st \in SessionState, NEW t \in SessionState, Distinct(st),
         t.version = st.version + 1, t.pending = st.pending, t.approved = st.approved,
         \/ t.rejected = st.rejected
         \/ \E cmd : t.rejected = {[cmd |-> cmd, gen |-> st.version + 1]}
  PROVE  Distinct(t) /\ Onward(st, t)
<1>1. /\ st.version \in Nat
      /\ \A r \in st.rejected : r.gen \in Nat
      /\ \A p \in st.pending : p.gen \in Nat
      /\ \A a \in st.approved : a.gen \in Nat
  BY DEF SessionState, Rejection, Request, Approval
<1>2. CASE t.rejected = st.rejected
  BY <1>1, <1>2 DEF Distinct, Onward
<1>3. ASSUME NEW cmd, t.rejected = {[cmd |-> cmd, gen |-> st.version + 1]}
      PROVE  Distinct(t) /\ Onward(st, t)
  <2>1. \A r \in t.rejected : r.gen = st.version + 1
    BY <1>3
  <2>2. \A r, q \in t.rejected : r = q
    BY <1>3
  <2>3. \A p \in t.pending : p.gen < st.version + 1
    BY <1>1 DEF Distinct
  <2>4. \A a \in t.approved : a.gen < st.version + 1
    BY <1>1 DEF Distinct
  <2> QED
    BY <1>1, <2>1, <2>2, <2>3, <2>4 DEF Distinct, Onward
<1> QED
  BY <1>2, <1>3

LEMMA RejectionOnward ==
  ASSUME TypeOK, NEW st \in SessionState, Distinct(st), NEW cmd \in Commands
  PROVE  Distinct(RecordRejection(st, cmd)) /\ Onward(st, RecordRejection(st, cmd))
<1> DEFINE t == RecordRejection(st, cmd)
<1>1. t \in SessionState
  BY RecordRejectionType
<1>2. CASE Strict
  <2>1. /\ t.version = st.version + 1 /\ t.pending = st.pending /\ t.approved = st.approved
        /\ t.rejected = {[cmd |-> cmd, gen |-> st.version + 1]}
    BY <1>2 DEF RecordRejection, NextGeneration, SessionState
  <2> HIDE DEF t
  <2> QED
    BY <1>1, <2>1, GivesOnward DEF t
<1>3. CASE ~Strict
  BY <1>3, LosesOnward DEF RecordRejection
<1> QED
  BY <1>2, <1>3

LEMMA FailureOnward ==
  ASSUME TypeOK, NEW st \in SessionState, Distinct(st)
  PROVE  Distinct(RecordFailure(st)) /\ Onward(st, RecordFailure(st))
<1> DEFINE t == RecordFailure(st)
<1>1. t \in SessionState
  BY RecordFailureType
<1>2. /\ t.version = st.version + 1 /\ t.pending = st.pending /\ t.approved = st.approved
      /\ t.rejected = st.rejected
  BY DEF RecordFailure, NextGeneration, SessionState
<1> HIDE DEF t
<1> QED
  BY <1>1, <1>2, GivesOnward DEF t

\* The request carries the generation of the rejection it is raised with.
LEMMA RaiseOnward ==
  ASSUME TypeOK, NEW st \in SessionState, Distinct(st), NEW c \in Calls, call[c].cmd \in Commands
  PROVE  Distinct(RaiseRequest(st, c)) /\ Onward(st, RaiseRequest(st, c))
<1> DEFINE b   == IF Strict THEN RecordRejection(st, call[c].cmd) ELSE NextGeneration(st)
           new == [id |-> c, gen |-> b.version, cmd |-> call[c].cmd, expiresAt |-> now + PendingTTL]
           t   == RaiseRequest(st, c)
<1>1. b \in SessionState /\ t \in SessionState
  BY RecordRejectionType, NextGenerationType, RaiseRequestType
<1>2. Distinct(b) /\ Onward(st, b)
  <2>1. CASE Strict
    BY <2>1, RejectionOnward
  <2>2. CASE ~Strict
    <3>1. /\ NextGeneration(st).version = st.version + 1
          /\ NextGeneration(st).pending = st.pending
          /\ NextGeneration(st).approved = st.approved
          /\ NextGeneration(st).rejected = st.rejected
      BY DEF NextGeneration, SessionState
    <3>2. NextGeneration(st) \in SessionState
      BY NextGenerationType
    <3> QED
      BY <2>2, <3>1, <3>2, GivesOnward
  <2> QED
    BY <2>1, <2>2
<1>3. \A r \in b.rejected : r.gen = b.version => r.cmd = call[c].cmd
  <2>1. CASE Strict
    BY <2>1 DEF RecordRejection, NextGeneration, SessionState
  <2>2. CASE ~Strict
    <3>1. b.version = st.version + 1 /\ b.rejected = st.rejected
      BY <2>2 DEF NextGeneration, SessionState
    <3>2. st.version \in Nat
      BY DEF SessionState
    <3> QED
      BY <3>1, <3>2 DEF Distinct, SessionState, Rejection
  <2> QED
    BY <2>1, <2>2
<1>4. t = [b EXCEPT !.pending = {new}]
  BY DEF RaiseRequest
<1> HIDE DEF b, t
<1>5. /\ t.version = b.version /\ t.rejected = b.rejected /\ t.approved = b.approved
      /\ t.pending = {new}
  BY <1>1, <1>4 DEF SessionState
<1>6. b.version \in Nat
  BY <1>1 DEF SessionState
<1>7. Distinct(t)
  BY <1>2, <1>3, <1>5, <1>6 DEF Distinct
<1>8. Onward(st, t)
  BY <1>2, <1>5 DEF Onward
<1> QED
  BY <1>7, <1>8 DEF t

\* The operations that take away.
LEMMA SmallerOnward ==
  ASSUME NEW st \in SessionState, Distinct(st), NEW c \in Calls,
         NEW t \in {st, Spend(st), Discard(st), Consume(st, c), Consume(Discard(st), c),
                    ClearAnswered(st, c), ClearSucceeded(st, c), Withdrawn(st)}
  PROVE  t \in SessionState /\ Distinct(t) /\ Onward(st, t)
<1>1. Discard(st) \in SessionState
  BY DiscardType
<1>2. t \in SessionState
  <2>1. Withdrawn(st) \in SessionState
    BY DEF Withdrawn, SessionState
  <2> QED
    BY <1>1, <2>1, SpendType, ConsumeType, ClearAnsweredType, ClearSucceededType
<1>3. /\ t.version = st.version /\ t.rejected \subseteq st.rejected
      /\ t.pending \subseteq st.pending /\ t.approved \subseteq st.approved
  <2>1. /\ Discard(st).version = st.version /\ Discard(st).rejected = st.rejected
        /\ Discard(st).pending = st.pending /\ Discard(st).approved = {}
    BY DEF Discard, SessionState
  <2>2. \A u \in SessionState :
          /\ Consume(u, c).version = u.version /\ Consume(u, c).rejected = u.rejected
          /\ Consume(u, c).pending = u.pending /\ Consume(u, c).approved = u.approved
    BY DEF Consume, SessionState
  <2>3. CASE t \in {st, Discard(st), Consume(st, c), Consume(Discard(st), c)}
    BY <1>1, <2>1, <2>2, <2>3
  <2>4. CASE t \in {Spend(st), ClearAnswered(st, c), ClearSucceeded(st, c), Withdrawn(st)}
    BY <2>4 DEF Spend, ClearAnswered, ClearSucceeded, Withdrawn, SessionState
  <2> QED
    BY <2>3, <2>4
<1> QED
  BY <1>2, <1>3, LosesOnward

\* Where the snapshot of call c comes from, in a step.
SnapshotFrom(c) ==
  \/ call'[c].rej = {}
  \/ call'[c] = call[c]
  \/ /\ call'[c].rej = call[c].rej /\ call'[c].obj = call[c].obj
     /\ call'[c].pc \in {"review", "abort"}
  \/ /\ call'[c].rej \subseteq heap'[call'[c].obj].rejected /\ call'[c].obj \in Objs
     /\ call'[c].pc = "review"

LEMMA GenerationsKept ==
  ASSUME Safe, Safe', Generations,
         \A o \in Objs : Distinct(heap'[o]) /\ (Onward(heap[o], heap'[o]) \/ o \notin Reachable),
         \A c \in Calls : SnapshotFrom(c)
  PROVE  Generations'
<1>1. /\ heap \in [Objs -> SessionState] /\ heap' \in [Objs -> SessionState]
      /\ call \in [Calls -> CallState] /\ call' \in [Calls -> CallState]
  BY DEF Safe, Typed, TypeOK, StoreTypeOK
<1>2. SnapshotsHold'
  <2> SUFFICES ASSUME NEW c \in Calls
               PROVE  /\ call'[c].rej # {} => call'[c].pc \in {"review", "abort"}
                      /\ \A x \in call'[c].rej :
                           /\ x.gen <= heap'[call'[c].obj].version
                           /\ \A r \in heap'[call'[c].obj].rejected : x.gen = r.gen => x = r
    BY DEF SnapshotsHold, Mine
  <2>1. CASE call'[c].rej = {}
    BY <2>1
  <2>2. CASE /\ call'[c].rej = call[c].rej /\ call'[c].obj = call[c].obj
             /\ call[c].rej # {} => call'[c].pc \in {"review", "abort"}
             /\ call[c].rej # {}
    <3> DEFINE o == call[c].obj
    <3>1. call[c].pc \in InFlight /\ o \in Objs
      BY <2>2 DEF Generations, SnapshotsHold, InFlight, Safe, Typed, Held
    <3>2. Onward(heap[o], heap'[o])
      BY <3>1 DEF Reachable
    <3>3. ASSUME NEW x \in call[c].rej
          PROVE  /\ x.gen <= heap'[o].version
                 /\ \A r \in heap'[o].rejected : x.gen = r.gen => x = r
      <4>1. /\ x.gen \in Nat /\ heap[o].version \in Nat /\ heap'[o].version \in Nat
            /\ \A r \in heap'[o].rejected : r.gen \in Nat
        BY <1>1, <3>1, <3>3 DEF CallState, SessionState, Rejection
      <4>2. /\ x.gen <= heap[o].version
            /\ \A r \in heap[o].rejected : x.gen = r.gen => x = r
        BY <3>3 DEF Generations, SnapshotsHold, Mine
      <4> QED
        BY <3>2, <4>1, <4>2 DEF Onward
    <3> QED
      BY <2>2, <3>3
  <2>3. CASE /\ call'[c].rej \subseteq heap'[call'[c].obj].rejected /\ call'[c].obj \in Objs
             /\ call'[c].pc = "review"
    BY <2>3 DEF Distinct
  <2> QED
    BY <2>1, <2>2, <2>3 DEF SnapshotFrom, Generations, SnapshotsHold
<1> QED
  BY <1>2 DEF Generations

\* One object is written.
LEMMA HeapOnward ==
  ASSUME Safe, Generations, NEW o \in Objs, NEW st, heap' = [heap EXCEPT ![o] = st],
         Distinct(st), Onward(heap[o], st) \/ o \notin Reachable
  PROVE  \A u \in Objs : Distinct(heap'[u]) /\ (Onward(heap[u], heap'[u]) \/ u \notin Reachable)
<1>1. heap \in [Objs -> SessionState]
  BY DEF Safe, Typed, TypeOK, StoreTypeOK
<1>2. \A u \in Objs : Distinct(heap[u]) /\ Onward(heap[u], heap[u])
  BY <1>1 DEF Generations, Onward, SessionState
<1> QED
  BY <1>1, <1>2

\* The snapshot goes with the other locals.
LEMMA LocalsGoneRej ==
  ASSUME NEW x \in CallState
  PROVE  /\ Over(x).rej = {} /\ Blocked(x).rej = {}
         /\ \A pc : At(Over(x), pc).rej = {}
         /\ \A way \in Ways : /\ Passing(x, way).rej = {}
                              /\ \A view : Seeing(Passing(x, way), view).rej = {}
         /\ \A ids : Granted(x, ids).rej = {}
<1>1. LocalsGone(x) \in CallState /\ LocalsGone(x).rej = {}
  BY CallRecordType DEF LocalsGone, CallState
<1>2. Over(x) \in CallState /\ Over(x).rej = {}
  BY <1>1, CallRecordType DEF Over, CallState
<1>3. \A pc : At(Over(x), pc).rej = {}
  BY <1>2 DEF At, CallState
<1>4. \A way \in Ways : Passing(x, way) \in CallState /\ Passing(x, way).rej = {}
  <2>1. \A way \in Ways : Passing(x, way) = [LocalsGone(x) EXCEPT !.pc = "verify", !.via = way]
    BY DEF Passing
  <2> QED
    BY <1>1, <2>1, CallMoveType DEF CallState
<1>5. \A way \in Ways : \A view : Seeing(Passing(x, way), view).rej = {}
  BY <1>4 DEF Seeing, CallState
<1>6. \A ids : Granted(x, ids).rej = {}
  BY <1>4 DEF Granted, CallState, Ways
<1> QED
  BY <1>2, <1>3, <1>4, <1>5, <1>6 DEF Blocked

\* A step of call c in flight that writes to its object.
LEMMA CallOnward ==
  ASSUME Safe, Safe', Generations, NEW c \in Calls, call[c].pc \in InFlight,
         NEW st, Write(c, st), Distinct(st), Onward(Mine(c), st),
         NEW x, call' = [call EXCEPT ![c] = x],
         \/ x.rej = {}
         \/ x.rej = call[c].rej /\ x.obj = call[c].obj /\ x.pc \in {"review", "abort"}
         \/ x.rej \subseteq st.rejected /\ x.obj = call[c].obj /\ x.pc = "review"
  PROVE  Generations'
<1>1. heap \in [Objs -> SessionState] /\ call \in [Calls -> CallState] /\ call[c].obj \in Objs
  BY CallTypes DEF Safe, Typed, TypeOK, StoreTypeOK
<1>2. \A u \in Objs : Distinct(heap'[u]) /\ (Onward(heap[u], heap'[u]) \/ u \notin Reachable)
  BY <1>1, HeapOnward DEF Write, Mine
<1>3. \A d \in Calls : SnapshotFrom(d)
  BY <1>1 DEF SnapshotFrom, Write
<1> QED
  BY <1>2, <1>3, GenerationsKept

LEMMA RefusalGenerations ==
  ASSUME Safe, Safe', Generations, NEW c \in Calls, call[c].pc \in InFlight,
         NEW st \in {Mine(c), Consume(Discard(Mine(c)), c)},
         \/ Write(c, RecordRejection(st, call[c].cmd))
         \/ Write(c, RaiseRequest(st, c)),
         Block(c)
  PROVE  Generations'
<1>1. /\ Mine(c) \in SessionState /\ call[c] \in CallState /\ call[c].cmd \in Commands
      /\ TypeOK /\ Distinct(Mine(c))
  BY CallTypes DEF Safe, Typed, Generations, Mine
<1>2. st \in SessionState /\ Distinct(st) /\ Onward(Mine(c), st)
  BY <1>1, SmallerOnward
<1>3. ASSUME NEW t \in {RecordRejection(st, call[c].cmd), RaiseRequest(st, c)}
      PROVE  Distinct(t) /\ Onward(Mine(c), t)
  <2>1. t \in SessionState /\ Distinct(t) /\ Onward(st, t)
    BY <1>1, <1>2, RejectionOnward, RaiseOnward, RecordRejectionType, RaiseRequestType
  <2> QED
    BY <1>1, <1>2, <2>1, OnwardTwice
<1>4. call' = [call EXCEPT ![c] = Blocked(call[c])] /\ Blocked(call[c]).rej = {}
  BY <1>1, LocalsGoneRej DEF Block
<1> QED
  BY <1>3, <1>4, CallOnward

LEMMA PassGenerations ==
  ASSUME Safe, Safe', Generations, NEW c \in Calls, call[c].pc \in InFlight,
         NEW st \in {Mine(c), Spend(Mine(c)), Discard(Mine(c)), Consume(Discard(Mine(c)), c),
                     ClearAnswered(Mine(c), c)},
         Write(c, st), NEW x, call' = [call EXCEPT ![c] = x], x.rej = {}
  PROVE  Generations'
<1>1. Mine(c) \in SessionState /\ Distinct(Mine(c))
  BY CallTypes DEF Generations, Mine
<1>2. Distinct(st) /\ Onward(Mine(c), st)
  BY <1>1, SmallerOnward
<1> QED
  BY <1>2, CallOnward

LEMMA FallbackGenerations ==
  ASSUME Safe, Safe', Generations, NEW c \in Calls, call[c].pc \in InFlight,
         NEW st \in {Mine(c), Consume(Discard(Mine(c)), c)}, Fallback(c, st)
  PROVE  Generations'
<1>1. CASE Write(c, st) /\ LetThrough(c, "open")
  <2>1. call' = [call EXCEPT ![c] = Passing(call[c], "open")] /\ Passing(call[c], "open").rej = {}
    BY <1>1, CallTypes, LocalsGoneRej DEF LetThrough, Ways
  <2> QED
    BY <1>1, <2>1, PassGenerations
<1>2. CASE Block(c) /\ (Write(c, RecordRejection(st, call[c].cmd)) \/ Write(c, RaiseRequest(st, c)))
  BY <1>2, RefusalGenerations
<1> QED
  BY <1>1, <1>2 DEF Fallback

LEMMA StartReviewGenerations ==
  ASSUME Safe, Safe', Generations, NEW c \in Calls, NEW verdict, NEW view \in Views,
         StartReview(c, verdict, view)
  PROVE  Generations'
<1> DEFINE st0 == Discard(Mine(c))
           st  == Consume(st0, c)
           x   == Reviewing(Seeing(call[c], view), RejectionAtStart(st0), FailureAtStart(st0),
                            CacheKey(c, view))
<1>1. /\ call[c].pc \in InFlight /\ Mine(c) \in SessionState /\ call[c] \in CallState
      /\ Distinct(Mine(c))
  BY CallTypes DEF StartReview, NeedsReview, InFlight, Generations, Mine
<1>2. CASE Write(c, st) /\ call' = [call EXCEPT ![c] = x]
  <2>1. Distinct(st) /\ Onward(Mine(c), st)
    BY <1>1, SmallerOnward
  <2>2. st0 \in SessionState
    BY <1>1, DiscardType
  <2>3. RejectionAtStart(st0) \subseteq st.rejected
    BY <2>2 DEF RejectionAtStart, Consume, SessionState
  <2>4. Seeing(call[c], view) \in CallState /\ Seeing(call[c], view).obj = call[c].obj
    BY <1>1, CallRecordType DEF Seeing, CallState
  <2> HIDE DEF st0, st
  <2>5. x.rej = RejectionAtStart(st0) /\ x.obj = call[c].obj /\ x.pc = "review"
    BY <2>4 DEF Reviewing, CallState
  <2> HIDE DEF x
  <2> QED
    BY <1>1, <1>2, <2>1, <2>3, <2>5, CallOnward
<1>3. CASE Fallback(c, st)
  BY <1>1, <1>3, FallbackGenerations
<1> QED
  BY <1>2, <1>3 DEF StartReview

LEMMA DecideGenerations ==
  ASSUME Safe, Safe', Generations, NEW c \in Calls, Decide(c)
  PROVE  Generations'
<1>1. ASSUME NEW verdict, StaticDeny(c, verdict) PROVE Generations'
  BY <1>1, RefusalGenerations DEF StaticDeny, InFlight
<1>2. ASSUME NEW verdict, UseApproval(c, verdict) PROVE Generations'
  <2>1. call[c].pc \in InFlight /\ call[c] \in CallState
    BY <1>2, CallTypes DEF UseApproval, InFlight
  <2>2. Granted(call[c], {a.id : a \in Mine(c).approved}).rej = {}
    BY <2>1, LocalsGoneRej
  <2> QED
    BY <1>2, <2>1, <2>2, PassGenerations DEF UseApproval
<1>3. ASSUME NEW verdict, StaticAllow(c, verdict) PROVE Generations'
  <2>1. call[c].pc \in InFlight /\ call[c] \in CallState
    BY <1>3, CallTypes DEF StaticAllow, InFlight
  <2>2. Passing(call[c], "static").rej = {}
    BY <2>1, LocalsGoneRej DEF Ways
  <2> QED
    BY <1>3, <2>1, <2>2, PassGenerations DEF StaticAllow, LetThrough
<1>4. ASSUME NEW verdict, NEW view \in Views, CachedAllow(c, verdict, view) PROVE Generations'
  <2>1. call[c].pc \in InFlight /\ call[c] \in CallState
    BY <1>4, CallTypes DEF CachedAllow, NeedsReview, InFlight
  <2>2. Seeing(Passing(call[c], "cache"), view).rej = {}
    BY <2>1, LocalsGoneRej DEF Ways
  <2> QED
    BY <1>4, <2>1, <2>2, PassGenerations DEF CachedAllow
<1> QED
  BY <1>1, <1>2, <1>3, <1>4, StartReviewGenerations DEF Decide

LEMMA ReviewReturnsGenerations ==
  ASSUME Safe, Safe', Generations, NEW c \in Calls, ReviewReturns(c)
  PROVE  Generations'
<1> PICK reply \in Replies : \/ ReviewBypass(c, reply)
                             \/ ReviewDeny(c, reply)
                             \/ ReviewAllow(c, reply)
                             \/ ReviewFails(c, reply)
  BY DEF ReviewReturns
<1>1. /\ call[c].pc \in InFlight /\ Mine(c) \in SessionState /\ call[c] \in CallState
      /\ call[c].cmd \in Commands /\ Distinct(Mine(c)) /\ TypeOK
  BY CallTypes DEF ReviewBypass, ReviewDeny, ReviewAllow, ReviewFails, InFlight, Generations,
                   Mine, Safe, Typed
<1>2. CASE ReviewBypass(c, reply)
  <2>1. /\ Distinct(RecordRejection(Mine(c), call[c].cmd))
        /\ Onward(Mine(c), RecordRejection(Mine(c), call[c].cmd))
    BY <1>1, RejectionOnward
  <2>2. At(call[c], "abort").rej = call[c].rej /\ At(call[c], "abort").obj = call[c].obj
        /\ At(call[c], "abort").pc = "abort"
    BY <1>1 DEF At, CallState
  <2> QED
    BY <1>1, <1>2, <2>1, <2>2, CallOnward DEF ReviewBypass
<1>3. CASE ReviewDeny(c, reply)
  BY <1>1, <1>3, RefusalGenerations DEF ReviewDeny
<1>4. CASE ReviewAllow(c, reply)
  <2>1. Passing(call[c], "review").rej = {}
    BY <1>1, LocalsGoneRej DEF Ways
  <2> QED
    BY <1>1, <1>4, <2>1, PassGenerations DEF ReviewAllow, LetThrough
<1>5. CASE ReviewFails(c, reply)
  BY <1>1, <1>5, FallbackGenerations DEF ReviewFails
<1> QED
  BY <1>2, <1>3, <1>4, <1>5

LEMMA SettleGenerations ==
  ASSUME Safe, Safe', Generations, NEW c \in Calls,
         AbortReturns(c) \/ ClassifierThrows(c) \/ Verify(c)
  PROVE  Generations'
<1>1. call[c].pc \in InFlight /\ call[c] \in CallState
      /\ heap = [heap EXCEPT ![call[c].obj] = Mine(c)]
  BY CallTypes DEF AbortReturns, ClassifierThrows, Verify, VerifyPasses, VerifyFails, InFlight
<1>2. CASE VerifyFails(c)
  BY <1>1, <1>2, RefusalGenerations DEF VerifyFails
<1>3. CASE AbortReturns(c) \/ ClassifierThrows(c) \/ VerifyPasses(c)
  <2>1. Write(c, Mine(c))
    BY <1>1, <1>3 DEF Write, AbortReturns, ClassifierThrows, VerifyPasses
  <2>2. \E x : call' = [call EXCEPT ![c] = x] /\ x.rej = {}
    BY <1>1, <1>3, LocalsGoneRej DEF AbortReturns, ClassifierThrows, VerifyPasses, Block
  <2> QED
    BY <1>1, <2>1, <2>2, PassGenerations
<1> QED
  BY <1>2, <1>3 DEF Verify

\* A hook that obtains the object of its session writes to one it knows, or to a
\* new one that no snapshot was taken of.
LEMMA ObtainedOnward ==
  ASSUME Safe, Generations, NEW c \in Calls, NEW o \in Objs,
         GetSession(SessionOf[c], o, Reachable)
  PROVE  LET st == Obtained(SessionOf[c], o)
         IN  /\ st \in SessionState /\ Distinct(st)
             /\ Onward(heap[o], st) \/ o \notin Reachable
<1> DEFINE s  == SessionOf[c]
           st == Obtained(s, o)
<1>1. heap[o] \in SessionState /\ now \in Nat /\ s \in Sessions /\ TypeOK
  BY InputAssumption DEF Safe, Typed, TypeOK, StoreTypeOK
<1>2. CASE s \in Live \ Stale
  <2>1. st = [heap[o] EXCEPT !.touchedAt = now]
    BY <1>2 DEF Obtained
  <2>2. st \in SessionState /\ st.version = heap[o].version /\ st.rejected = heap[o].rejected
        /\ st.pending = heap[o].pending /\ st.approved = heap[o].approved
    BY <1>1, <2>1 DEF SessionState
  <2> HIDE DEF st
  <2> QED
    BY <1>1, <2>2, LosesOnward DEF Generations, st
<1>3. CASE s \notin Live \ Stale
  <2>1. st = Fresh(s) /\ o \notin Reachable
    BY <1>3 DEF Obtained, GetSession
  <2> QED
    BY <1>1, <2>1, FreshType, FreshDistinct
<1> QED
  BY <1>2, <1>3

LEMMA BeginGenerations ==
  ASSUME Safe, Safe', Generations, NEW c \in Calls, NEW cmd \in Commands, Begin(c, cmd)
  PROVE  Generations'
<1> DEFINE s == SessionOf[c]
<1>1. PICK o \in Objs :
        /\ GetSession(s, o, Reachable)
        /\ \/ /\ heap' = [heap EXCEPT ![o] = RecordRejection(Obtained(s, o), cmd)]
              /\ call' = [call EXCEPT ![c] = Blocked(Given(call[c], cmd))]
           \/ /\ heap' = [heap EXCEPT ![o] = Obtained(s, o)]
              /\ call' = [call EXCEPT ![c] = Started(Given(call[c], cmd), o)]
  BY DEF Begin
<1>2. /\ call \in [Calls -> CallState] /\ heap \in [Objs -> SessionState]
      /\ call[c].pc = "idle" /\ call[c].rej = {} /\ TypeOK
  BY DEF Begin, Generations, SnapshotsHold, Safe, Typed, TypeOK, StoreTypeOK
<1>3. Given(call[c], cmd) \in CallState /\ Given(call[c], cmd).rej = {}
  <2>1. call[c] \in CallState
    BY <1>2
  <2>2. Given(call[c], cmd) \in CallState
    BY <2>1, CallRecordType
  <2>3. Given(call[c], cmd).rej = call[c].rej
    BY <2>1 DEF Given, CallState
  <2> QED
    BY <1>2, <2>2, <2>3
<1>4. Blocked(Given(call[c], cmd)).rej = {} /\ Started(Given(call[c], cmd), o).rej = {}
  BY <1>3, LocalsGoneRej DEF Started, CallState
<1>5. \A d \in Calls : SnapshotFrom(d)
  BY <1>1, <1>2, <1>4 DEF SnapshotFrom
<1> DEFINE st == Obtained(s, o)
<1>6. st \in SessionState /\ Distinct(st) /\ (Onward(heap[o], st) \/ o \notin Reachable)
  BY <1>1, ObtainedOnward
<1>7. /\ RecordRejection(st, cmd) \in SessionState
      /\ Distinct(RecordRejection(st, cmd)) /\ Onward(st, RecordRejection(st, cmd))
  BY <1>2, <1>6, RejectionOnward, RecordRejectionType
<1>8. Onward(heap[o], RecordRejection(st, cmd)) \/ o \notin Reachable
  BY <1>2, <1>6, <1>7, OnwardTwice
<1> HIDE DEF st
<1>9. \A u \in Objs : Distinct(heap'[u]) /\ (Onward(heap[u], heap'[u]) \/ u \notin Reachable)
  BY <1>1, <1>6, <1>7, <1>8, HeapOnward DEF st
<1> QED
  BY <1>5, <1>9, GenerationsKept

LEMMA FinishGenerations ==
  ASSUME Safe, Safe', Generations, NEW c \in Calls, NEW exit, Finish(c, exit)
  PROVE  Generations'
<1> DEFINE s == SessionOf[c]
<1>1. PICK o \in Objs : /\ GetSession(s, o, Reachable)
                        /\ heap' = [heap EXCEPT ![o] = Reported(Obtained(s, o), c, exit)]
  BY DEF Finish
<1>2. /\ call \in [Calls -> CallState] /\ heap \in [Objs -> SessionState]
      /\ call[c].pc = "allowed" /\ call[c].rej = {} /\ TypeOK
      /\ call' = [call EXCEPT ![c] = At(call[c], "done")]
  BY DEF Finish, Generations, SnapshotsHold, Safe, Typed, TypeOK, StoreTypeOK
<1>3. \A d \in Calls : SnapshotFrom(d)
  BY <1>2 DEF SnapshotFrom, At, CallState
<1> DEFINE st == Obtained(s, o)
           t  == Reported(st, c, exit)
<1>4. st \in SessionState /\ Distinct(st) /\ (Onward(heap[o], st) \/ o \notin Reachable)
  BY <1>1, ObtainedOnward
<1>5. t \in SessionState /\ Distinct(t) /\ Onward(st, t)
  <2> HIDE DEF st
  <2>1. t \in {st, ClearSucceeded(st, c), RecordFailure(st)}
    BY DEF Reported
  <2> QED
    BY <1>2, <1>4, <2>1, SmallerOnward, FailureOnward, RecordFailureType
<1>6. Onward(heap[o], t) \/ o \notin Reachable
  BY <1>2, <1>4, <1>5, OnwardTwice
<1> HIDE DEF st, t
<1>7. \A u \in Objs : Distinct(heap'[u]) /\ (Onward(heap[u], heap'[u]) \/ u \notin Reachable)
  BY <1>1, <1>5, <1>6, HeapOnward DEF st, t
<1> QED
  BY <1>3, <1>7, GenerationsKept

\* The user's answer turns a request into an approval for the same command.
LEMMA ConsentOnward ==
  ASSUME Safe, Generations, NEW f \in Confirms, ConfirmApproved(f)
  PROVE  LET o == confirm[f].obj
             t == WithConsent(heap[o], confirm[f].ask)
         IN  o \in Objs /\ Distinct(t) /\ Onward(heap[o], t)
<1> DEFINE o  == confirm[f].obj
           st == heap[o]
           t  == WithConsent(st, confirm[f].ask)
<1>1. PICK p \in st.pending, q \in confirm[f].ask : p.id = q.id /\ p.gen = q.gen
  BY DEF ConfirmApproved, StillPending
<1>2. o \in Objs /\ confirm[f].ask = {q} /\ q \in Request /\ confirm[f].pc = "asking"
  BY AskedIsPending DEF ConfirmApproved
<1>3. st \in SessionState /\ Distinct(st)
  BY <1>2 DEF Generations, Safe, Typed, TypeOK, StoreTypeOK
<1>4. p.cmd = q.cmd
  BY <1>1, <1>2 DEF Safe, Requests, AllRaised, Raised
<1>5. {ApprovalOf(r) : r \in confirm[f].ask} = {ApprovalOf(q)}
  BY <1>2
<1>6. t = [st EXCEPT !.approved = {ApprovalOf(q)}, !.pending = {}]
  BY <1>5 DEF WithConsent
<1>7. ApprovalOf(q).cmd = q.cmd /\ ApprovalOf(q).gen = IF Strict THEN q.gen ELSE 0
  BY DEF ApprovalOf
<1>8. p.gen \in Nat /\ st.version \in Nat /\ \A r \in st.rejected : r.gen \in Nat
  BY <1>3 DEF SessionState, Request, Rejection
<1> HIDE DEF st, t
<1>9. /\ t.version = st.version /\ t.rejected = st.rejected /\ t.pending = {}
      /\ t.approved = {ApprovalOf(q)}
  BY <1>3, <1>6 DEF SessionState
<1>10. Distinct(t)
  BY <1>1, <1>3, <1>4, <1>7, <1>8, <1>9 DEF Distinct
<1>11. Onward(st, t)
  BY <1>8, <1>9 DEF Onward
<1> QED
  BY <1>2, <1>10, <1>11 DEF st, t

LEMMA QuietCallsGenerations ==
  ASSUME Safe, Safe', Generations, call' = call,
         \/ heap' = heap
         \/ \E o \in Objs : \E st : /\ heap' = [heap EXCEPT ![o] = st]
                                    /\ Distinct(st) /\ Onward(heap[o], st)
  PROVE  Generations'
<1>1. \A d \in Calls : SnapshotFrom(d)
  BY DEF SnapshotFrom
<1>2. CASE heap' = heap
  <2>1. \A o \in Objs : Onward(heap[o], heap'[o]) /\ Distinct(heap'[o])
    BY <1>2 DEF Safe, Typed, TypeOK, StoreTypeOK, SessionState, Onward, Generations
  <2> QED
    BY <1>1, <2>1, GenerationsKept
<1>3. ASSUME NEW o \in Objs, NEW st, heap' = [heap EXCEPT ![o] = st],
             Distinct(st), Onward(heap[o], st)
      PROVE  Generations'
  <2>1. \A u \in Objs : Distinct(heap'[u]) /\ (Onward(heap[u], heap'[u]) \/ u \notin Reachable)
    BY <1>3, HeapOnward
  <2> QED
    BY <1>1, <2>1, GenerationsKept
<1> QED
  BY <1>2, <1>3

LEMMA ConfirmGenerations ==
  ASSUME Safe, Safe', Generations, NEW f \in Confirms,
         \/ \E id \in Calls : ConfirmRefused(f, id) \/ ConfirmExpired(f, id) \/ ConfirmAsk(f, id)
         \/ ConfirmApproved(f) \/ ConfirmDenied(f) \/ ConfirmSuperseded(f)
  PROVE  Generations'
<1>1. \A o \in Objs : Distinct(Withdrawn(heap[o])) /\ Onward(heap[o], Withdrawn(heap[o]))
  <2> SUFFICES ASSUME NEW o \in Objs
               PROVE  Distinct(Withdrawn(heap[o])) /\ Onward(heap[o], Withdrawn(heap[o]))
    OBVIOUS
  <2>1. heap[o] \in SessionState /\ Distinct(heap[o])
    BY DEF Generations, Safe, Typed, TypeOK, StoreTypeOK
  <2> DEFINE t == Withdrawn(heap[o])
  <2>2. t \in SessionState /\ t.version = heap[o].version /\ t.rejected = heap[o].rejected
        /\ t.pending = {} /\ t.approved = heap[o].approved
    BY <2>1 DEF Withdrawn, SessionState
  <2> HIDE DEF t
  <2> QED
    BY <2>1, <2>2, LosesOnward DEF t
<1>2. ASSUME NEW id \in Calls, ConfirmExpired(f, id) PROVE Generations'
  <2>1. Surviving(SessionOf[f]) \in Objs
    BY <1>2, InputAssumption DEF ConfirmExpired, Asked, Surviving, Safe, Typed, TypeOK, StoreTypeOK
  <2> QED
    BY <1>1, <1>2, <2>1, QuietCallsGenerations DEF ConfirmExpired
<1>3. ASSUME NEW id \in Calls, ConfirmRefused(f, id) \/ ConfirmAsk(f, id) PROVE Generations'
  BY <1>3, QuietCallsGenerations DEF ConfirmRefused, ConfirmAsk
<1>4. CASE ConfirmApproved(f)
  BY <1>4, ConsentOnward, QuietCallsGenerations DEF ConfirmApproved
<1>5. CASE ConfirmDenied(f)
  <2>1. confirm[f].obj \in Objs
    BY <1>5, AskedIsPending DEF ConfirmDenied
  <2> QED
    BY <1>1, <1>5, <2>1, QuietCallsGenerations DEF ConfirmDenied
<1>6. CASE ConfirmSuperseded(f)
  BY <1>6, QuietCallsGenerations DEF ConfirmSuperseded
<1> QED
  BY <1>2, <1>3, <1>4, <1>5, <1>6

LEMMA InitGenerations ==
  ASSUME Init
  PROVE  Generations
<1>1. \A o \in Objs : Distinct(heap[o])
  BY FreshDistinct DEF Init, StoreInit
<1>2. \A c \in Calls : call[c].rej = {}
  BY DEF Init
<1> QED
  BY <1>1, <1>2 DEF Generations, SnapshotsHold

LEMMA NextGenerations ==
  ASSUME Safe, Safe', Generations, [Next]_vars
  PROVE  Generations'
<1>1. ASSUME NEW c \in Calls, Resume(c) PROVE Generations'
  BY <1>1, DecideGenerations, ReviewReturnsGenerations, SettleGenerations DEF Resume
<1>2. ASSUME NEW s \in Sessions, SessionDeleted(s) PROVE Generations'
  BY <1>2, QuietCallsGenerations DEF SessionDeleted
<1>3. CASE Dispose \/ Tick
  BY <1>3, QuietCallsGenerations DEF Dispose, Tick
<1>4. CASE UNCHANGED vars
  BY <1>4, QuietCallsGenerations DEF vars
<1>5. CASE Next
  <2>1. ASSUME NEW c \in Calls, \/ \E cmd \in Commands : Begin(c, cmd)
                               \/ Resume(c)
                               \/ \E exit \in Exits : Finish(c, exit)
        PROVE  Generations'
    BY <1>1, <2>1, BeginGenerations, FinishGenerations
  <2>2. ASSUME NEW f \in Confirms, \/ \E id \in Calls : \/ ConfirmRefused(f, id)
                                                       \/ ConfirmExpired(f, id)
                                                       \/ ConfirmAsk(f, id)
                                  \/ ConfirmApproved(f)
                                  \/ ConfirmDenied(f)
                                  \/ ConfirmSuperseded(f)
        PROVE  Generations'
    BY <2>2, ConfirmGenerations
  <2> QED
    BY <1>2, <1>3, <1>5, <2>1, <2>2 DEF Next
<1> QED
  BY <1>4, <1>5

\* The generation checks never mistake one rejection for another, whatever calls
\* and confirmations share an object (index.ts:468, 588).
THEOREM GenerationsAreIdentities ==
  Spec => []GenerationsIdentify
<1>1. Generations => GenerationsIdentify
  BY DEF Generations, Distinct, SnapshotsHold, GenerationsIdentify
<1>2. Init => Generations
  BY InitGenerations
<1>3. Safe /\ Safe' /\ Generations /\ [Next]_vars => Generations'
  BY NextGenerations
<1> QED
  BY <1>1, <1>2, <1>3, AlwaysSafe, PTL DEF Spec

LEMMA AlwaysGenerations ==
  Spec => [](Safe /\ Generations)
<1>1. Init => Generations
  BY InitGenerations
<1>2. Safe /\ Safe' /\ Generations /\ [Next]_vars => Generations'
  BY NextGenerations
<1> QED
  BY <1>1, <1>2, AlwaysSafe, PTL DEF Spec

-------------------------------------------------------------------------------
(* What is forgotten *)

\* A call whose review may be in charge of a failure: it is under review, it came
\* through the review or the fail policy, or it is over.
Charging(x) ==
  \/ x.pc \in {"review", "abort", "blocked", "thrown", "done"}
  \/ x.pc \in {"verify", "allowed"} /\ x.via \in {"review", "open"}

Charged == \A o \in Objs : \A x \in heap[o].failed : \A d \in x.by : d \in Calls => Charging(call[d])

\* The steps of NothingForgotten.
RejectionStep ==
  \A o \in Objs : \A r \in heap[o].rejected :
    o \in Reachable /\ heap'[o].rejected = {} =>
      \/ \E c \in Calls : call[c].obj = o /\ r \in call[c].rej /\ Passes(c, "review")
      \/ \E c \in Calls : call[c].obj = o /\ r.cmd = call[c].cmd /\ Passes(c, "approval")

FailureStep ==
  \A o \in Objs : \A x \in heap[o].failed :
    o \in Reachable /\ heap'[o].failed = {} =>
      \E c \in Calls : /\ x.by = {c}
                       /\ call[c].pc = "allowed" /\ call'[c].pc = "done"
                       /\ call[c].via \in {"review", "open"}

Remembers == RejectionStep /\ FailureStep /\ Charged'

\* From st to t, neither the rejection nor the failure goes.
Retains(st, t) ==
  /\ t.rejected = {} => st.rejected = {}
  /\ t.failed = {} => st.failed = {}

\* The failures of t are those of st, new ones, and ones in c's charge.
Charges(st, t, c) == \A x \in t.failed : x \in st.failed \/ x.by \in {{}, {c}}

LEMMA RetainTwice ==
  ASSUME NEW st, NEW t, NEW u, NEW c, Retains(st, t), Retains(t, u), Charges(st, t, c), Charges(t, u, c)
  PROVE  Retains(st, u) /\ Charges(st, u, c)
BY DEF Retains, Charges

LEMMA OperationsRetain ==
  ASSUME NEW st \in SessionState, NEW c \in Calls, NEW cmd,
         NEW t \in {st, RecordRejection(st, cmd), NextGeneration(st), RaiseRequest(st, c),
                    Discard(st), Withdrawn(st), WithConsent(st, cmd), RecordFailure(st)}
  PROVE  Retains(st, t) /\ \A x \in t.failed : x \in st.failed \/ x.by = {}
<1>1. \A u \in SessionState : NextGeneration(u).rejected = u.rejected /\ NextGeneration(u).failed = u.failed
  BY DEF NextGeneration, SessionState
<1>2. \A any : /\ RecordRejection(st, any).failed = st.failed
               /\ RecordRejection(st, any).rejected # {} \/ RecordRejection(st, any) = st
  BY DEF RecordRejection, NextGeneration, SessionState
<1>3. RaiseRequest(st, c).failed = st.failed /\ (RaiseRequest(st, c).rejected = {} => st.rejected = {})
  <2> DEFINE b == IF Strict THEN RecordRejection(st, call[c].cmd) ELSE NextGeneration(st)
  <2>1. b.failed = st.failed /\ (b.rejected = {} => st.rejected = {})
    BY <1>1, <1>2
  <2>2. DOMAIN b = DOMAIN st
    BY DEF RecordRejection, NextGeneration
  <2>3. \E any : RaiseRequest(st, c) = [b EXCEPT !.pending = any]
    BY DEF RaiseRequest
  <2>4. {"failed", "rejected"} \subseteq DOMAIN st
    BY DEF SessionState
  <2> HIDE DEF b
  <2> QED
    BY <2>1, <2>2, <2>3, <2>4
<1>4. /\ Discard(st).failed = st.failed /\ Discard(st).rejected = st.rejected
      /\ Withdrawn(st).failed = st.failed /\ Withdrawn(st).rejected = st.rejected
      /\ WithConsent(st, cmd).failed = st.failed /\ WithConsent(st, cmd).rejected = st.rejected
  BY DEF Discard, Withdrawn, WithConsent, SessionState
<1>5. /\ RecordFailure(st).rejected = st.rejected
      /\ RecordFailure(st).failed # {} /\ \A x \in RecordFailure(st).failed : x.by = {}
  <2> DEFINE new == [gen |-> st.version + 1, by |-> {}]
  <2>1. new.by = {}
    OBVIOUS
  <2> HIDE DEF new
  <2>2. RecordFailure(st) = [NextGeneration(st) EXCEPT !.failed = {new}]
    BY DEF RecordFailure, new
  <2>3. /\ RecordFailure(st).failed = {new}
        /\ RecordFailure(st).rejected = NextGeneration(st).rejected
    BY <2>2 DEF NextGeneration, SessionState
  <2> QED
    BY <1>1, <2>1, <2>3
<1>6. CASE t \in {st, RecordRejection(st, cmd), NextGeneration(st), RaiseRequest(st, c)}
  BY <1>1, <1>2, <1>3, <1>6 DEF Retains
<1>7. CASE t \in {Discard(st), Withdrawn(st), WithConsent(st, cmd), RecordFailure(st)}
  BY <1>4, <1>5, <1>7 DEF Retains
<1> QED
  BY <1>6, <1>7

LEMMA ConsumeRetains ==
  ASSUME NEW st \in SessionState, NEW c \in Calls
  PROVE  Retains(st, Consume(st, c)) /\ Charges(st, Consume(st, c), c)
<1> DEFINE f(x) == IF x \in FailureAtStart(st) THEN [x EXCEPT !.by = {c}] ELSE x
<1>1. /\ Consume(st, c).rejected = st.rejected
      /\ Consume(st, c).failed = {f(x) : x \in st.failed}
  BY DEF Consume, SessionState
<1>2. \A x \in st.failed : f(x) = x \/ f(x).by = {c}
  BY DEF SessionState, Failure
<1> HIDE DEF f
<1> QED
  BY <1>1, <1>2 DEF Retains, Charges

\* One object is written; the calls that are in charge stay so.
LEMMA HeapRemembers ==
  ASSUME Safe, Charged, NEW o \in Objs, NEW st, heap' = [heap EXCEPT ![o] = st],
         Retains(heap[o], st) \/ o \notin Reachable,
         \A x \in st.failed : \/ o \in Reachable /\ x \in heap[o].failed
                              \/ \A d \in x.by : d \in Calls => Charging(call'[d]),
         \A d \in Calls : Charging(call[d]) => Charging(call'[d])
  PROVE  Remembers
<1>1. heap \in [Objs -> SessionState]
  BY DEF Safe, Typed, TypeOK, StoreTypeOK
<1>2. \A u \in Objs : u # o => heap'[u] = heap[u]
  BY <1>1
<1>3. heap'[o] = st
  BY <1>1
<1>4. RejectionStep
  BY <1>2, <1>3 DEF RejectionStep, Retains
<1>5. FailureStep
  BY <1>2, <1>3 DEF FailureStep, Retains
<1>6. Charged'
  BY <1>2, <1>3 DEF Charged
<1> QED
  BY <1>4, <1>5, <1>6 DEF Remembers

LEMMA CallRemembers ==
  ASSUME Safe, Charged, NEW c \in Calls, call[c].pc \in InFlight,
         NEW st, Write(c, st), Retains(Mine(c), st), Charges(Mine(c), st, c),
         NEW y, call' = [call EXCEPT ![c] = y],
         Charging(y) \/ (~Charging(call[c]) /\ st.failed \subseteq Mine(c).failed)
  PROVE  Remembers
<1>1. call[c].obj \in Objs /\ call[c].obj \in Reachable /\ call \in [Calls -> CallState]
  BY CallTypes DEF Reachable, Safe, Typed, TypeOK
<1>2. /\ \A d \in Calls : Charging(call[d]) => Charging(call'[d])
      /\ Charging(call'[c]) \/ st.failed \subseteq Mine(c).failed
  BY <1>1
<1>3. \A x \in st.failed : \/ x \in heap[call[c].obj].failed
                           \/ \A d \in x.by : d \in Calls => Charging(call'[d])
  BY <1>2 DEF Charges, Mine
<1> QED
  BY <1>1, <1>2, <1>3, HeapRemembers DEF Write, Mine

\* Where a call stands after a move, and how it was let through.
LEMMA MovesCharging ==
  ASSUME NEW x \in CallState
  PROVE  /\ Charging(Blocked(x)) /\ Charging(At(x, "abort")) /\ Charging(At(x, "done"))
         /\ Charging(At(Over(x), "thrown"))
         /\ Charging(Passing(x, "review")) /\ Charging(Passing(x, "open"))
         /\ x.pc = "verify" /\ Charging(x) => Charging(At(Over(x), "allowed"))
         /\ x.pc = "verify" => (Charging(At(Over(x), "allowed")) <=> Charging(x))
         /\ \A way \in Ways : Passing(x, way).pc = "verify" /\ Passing(x, way).via = way
<1>1. LocalsGone(x) \in CallState /\ LocalsGone(x).via = x.via
  BY CallRecordType DEF LocalsGone, CallState
<1>2. Over(x) \in CallState /\ Over(x).via = x.via
  BY <1>1, CallRecordType DEF Over, CallState
<1>3. \A pc : At(Over(x), pc).pc = pc /\ At(Over(x), pc).via = x.via
  BY <1>2 DEF At, CallState
<1>4. \A pc : At(x, pc).pc = pc
  BY DEF At, CallState
<1>5. \A way \in Ways : Passing(x, way).pc = "verify" /\ Passing(x, way).via = way
  <2>1. \A way \in Ways : Passing(x, way) = [LocalsGone(x) EXCEPT !.pc = "verify", !.via = way]
    BY DEF Passing
  <2> QED
    BY <1>1, <2>1 DEF CallState
<1>6. Charging(Blocked(x)) /\ Charging(At(Over(x), "thrown"))
      /\ (x.pc = "verify" => (Charging(At(Over(x), "allowed")) <=> Charging(x)))
  BY <1>3 DEF Charging, Blocked
<1>7. Charging(At(x, "abort")) /\ Charging(At(x, "done"))
  BY <1>4 DEF Charging
<1>8. Charging(Passing(x, "review")) /\ Charging(Passing(x, "open"))
  BY <1>5 DEF Charging, Ways
<1> QED
  BY <1>5, <1>6, <1>7, <1>8

LEMMA RefusalRemembers ==
  ASSUME Safe, Charged, NEW c \in Calls, call[c].pc \in InFlight,
         NEW st \in {Mine(c), Consume(Discard(Mine(c)), c)},
         \/ Write(c, RecordRejection(st, call[c].cmd))
         \/ Write(c, RaiseRequest(st, c)),
         Block(c)
  PROVE  Remembers
<1>1. Mine(c) \in SessionState /\ call[c] \in CallState /\ Discard(Mine(c)) \in SessionState
  BY CallTypes, DiscardType
<1>2. st \in SessionState /\ Retains(Mine(c), st) /\ Charges(Mine(c), st, c)
  <2>1. Retains(Mine(c), Mine(c)) /\ Charges(Mine(c), Mine(c), c)
    BY DEF Retains, Charges
  <2>2. Retains(Mine(c), Discard(Mine(c))) /\ Charges(Mine(c), Discard(Mine(c)), c)
    BY <1>1, OperationsRetain DEF Charges
  <2>3. /\ Retains(Discard(Mine(c)), Consume(Discard(Mine(c)), c))
        /\ Charges(Discard(Mine(c)), Consume(Discard(Mine(c)), c), c)
    BY <1>1, ConsumeRetains
  <2>4. Consume(Discard(Mine(c)), c) \in SessionState
    BY <1>1, ConsumeType
  <2> QED
    BY <1>1, <2>1, <2>2, <2>3, <2>4, RetainTwice
<1>3. ASSUME NEW t \in {RecordRejection(st, call[c].cmd), RaiseRequest(st, c)}
      PROVE  Retains(Mine(c), t) /\ Charges(Mine(c), t, c)
  <2>1. Retains(st, t) /\ Charges(st, t, c)
    BY <1>2, OperationsRetain DEF Charges
  <2> QED
    BY <1>2, <2>1, RetainTwice
<1>4. call' = [call EXCEPT ![c] = Blocked(call[c])] /\ Charging(Blocked(call[c]))
  BY <1>1, MovesCharging DEF Block
<1> QED
  BY <1>3, <1>4, CallRemembers

LEMMA FallbackRemembers ==
  ASSUME Safe, Charged, NEW c \in Calls, call[c].pc \in InFlight,
         NEW st \in {Mine(c), Consume(Discard(Mine(c)), c)}, Fallback(c, st)
  PROVE  Remembers
<1>1. CASE Write(c, st) /\ LetThrough(c, "open")
  <2>1. Mine(c) \in SessionState /\ call[c] \in CallState /\ Discard(Mine(c)) \in SessionState
    BY CallTypes, DiscardType
  <2>2. Retains(Mine(c), st) /\ Charges(Mine(c), st, c)
    <3>1. Retains(Mine(c), Mine(c)) /\ Charges(Mine(c), Mine(c), c)
      BY DEF Retains, Charges
    <3>2. Retains(Mine(c), Discard(Mine(c))) /\ Charges(Mine(c), Discard(Mine(c)), c)
      BY <2>1, OperationsRetain DEF Charges
    <3>3. /\ Retains(Discard(Mine(c)), Consume(Discard(Mine(c)), c))
          /\ Charges(Discard(Mine(c)), Consume(Discard(Mine(c)), c), c)
      BY <2>1, ConsumeRetains
    <3> QED
      BY <3>1, <3>2, <3>3, RetainTwice
  <2>3. call' = [call EXCEPT ![c] = Passing(call[c], "open")] /\ Charging(Passing(call[c], "open"))
    BY <1>1, <2>1, MovesCharging DEF LetThrough
  <2> QED
    BY <1>1, <2>2, <2>3, CallRemembers
<1>2. CASE Block(c) /\ (Write(c, RecordRejection(st, call[c].cmd)) \/ Write(c, RaiseRequest(st, c)))
  BY <1>2, RefusalRemembers
<1> QED
  BY <1>1, <1>2 DEF Fallback

LEMMA StartReviewRemembers ==
  ASSUME Safe, Charged, NEW c \in Calls, NEW verdict, NEW view \in Views,
         StartReview(c, verdict, view)
  PROVE  Remembers
<1> DEFINE st0 == Discard(Mine(c))
           st  == Consume(st0, c)
           x   == Reviewing(Seeing(call[c], view), RejectionAtStart(st0), FailureAtStart(st0),
                            CacheKey(c, view))
<1>1. /\ call[c].pc \in InFlight /\ Mine(c) \in SessionState /\ call[c] \in CallState
      /\ st0 \in SessionState
  BY CallTypes, DiscardType DEF StartReview, NeedsReview, InFlight
<1>2. CASE Write(c, st) /\ call' = [call EXCEPT ![c] = x]
  <2>1. Retains(Mine(c), st0) /\ Charges(Mine(c), st0, c)
    BY <1>1, OperationsRetain DEF Charges
  <2>2. Retains(st0, st) /\ Charges(st0, st, c)
    BY <1>1, ConsumeRetains
  <2>3. Retains(Mine(c), st) /\ Charges(Mine(c), st, c)
    BY <2>1, <2>2, RetainTwice
  <2>4. Seeing(call[c], view) \in CallState
    BY <1>1, CallRecordType
  <2> HIDE DEF st0, st
  <2>5. x.pc = "review"
    BY <2>4 DEF Reviewing, CallState
  <2> HIDE DEF x
  <2> QED
    BY <1>1, <1>2, <2>3, <2>5, CallRemembers DEF Charging
<1>3. CASE Fallback(c, st)
  BY <1>1, <1>3, FallbackRemembers
<1> QED
  BY <1>2, <1>3 DEF StartReview

\* The approval that is used is for the command of the rejection that goes.
LEMMA UseApprovalRemembers ==
  ASSUME Safe, Generations, Charged, NEW c \in Calls, NEW verdict, UseApproval(c, verdict)
  PROVE  Remembers
<1> DEFINE o  == call[c].obj
           st == Spend(Mine(c))
           x  == Granted(call[c], {a.id : a \in Mine(c).approved})
<1>1. /\ call[c].pc \in InFlight /\ Mine(c) \in SessionState /\ call[c] \in CallState
      /\ o \in Objs /\ call[c].pc = "classify"
      /\ heap \in [Objs -> SessionState] /\ call \in [Calls -> CallState]
  BY CallTypes DEF UseApproval, InFlight, Safe, Typed, TypeOK, StoreTypeOK
<1>2. st.failed = Mine(c).failed
      /\ st.rejected = {r \in Mine(c).rejected : \A a \in Mine(c).approved : a.gen # r.gen}
  BY <1>1 DEF Spend, SessionState
<1>3. heap' = [heap EXCEPT ![o] = st] /\ call' = [call EXCEPT ![c] = x]
  BY DEF UseApproval, Write
<1>4. x.pc = "verify" /\ x.via = "approval"
  <2>1. Passing(call[c], "approval") \in CallState
    BY <1>1, CallMoveType DEF Ways
  <2>2. Passing(call[c], "approval").pc = "verify" /\ Passing(call[c], "approval").via = "approval"
    BY <1>1, MovesCharging DEF Ways
  <2> DEFINE ids == {a.id : a \in Mine(c).approved}
  <2> HIDE DEF ids
  <2>3. Granted(call[c], ids).pc = "verify" /\ Granted(call[c], ids).via = "approval"
    BY <2>1, <2>2 DEF Granted, CallState
  <2> QED
    BY <2>3 DEF ids
<1> HIDE DEF x, st
<1>5. /\ \A u \in Objs : u # o => heap'[u] = heap[u]
      /\ heap'[o] = st /\ call'[c] = x /\ \A d \in Calls : d # c => call'[d] = call[d]
  BY <1>1, <1>3
<1>6. Passes(c, "approval")
  BY <1>1, <1>4, <1>5 DEF Passes
<1>7. RejectionStep
  <2>1. ASSUME NEW r \in Mine(c).rejected, st.rejected = {}
        PROVE  r.cmd = call[c].cmd
    <3>1. PICK a \in Mine(c).approved : a.gen = r.gen
      BY <1>2, <2>1
    <3>2. PICK b \in Mine(c).approved : b.cmd = call[c].cmd
      BY DEF UseApproval, Approves
    <3>3. a = b
      BY <1>1 DEF Safe, Requests, Single, Mine
    <3>4. a.cmd = r.cmd
      BY <1>1, <3>1 DEF Generations, Distinct, Mine
    <3> QED
      BY <3>2, <3>3, <3>4
  <2> QED
    BY <1>5, <1>6, <2>1 DEF RejectionStep, Mine
<1>8. FailureStep
  BY <1>2, <1>5 DEF FailureStep, Mine
<1>9. Charged'
  <2>1. \A d \in Calls : Charging(call[d]) => Charging(call'[d])
    BY <1>1, <1>5 DEF Charging
  <2>2. \A u \in Objs : heap'[u].failed = heap[u].failed
    BY <1>2, <1>5 DEF Mine
  <2> QED
    BY <2>1, <2>2 DEF Charged
<1> QED
  BY <1>7, <1>8, <1>9 DEF Remembers

LEMMA DecideRemembers ==
  ASSUME Safe, Generations, Charged, NEW c \in Calls, Decide(c)
  PROVE  Remembers
<1>1. ASSUME NEW verdict, StaticDeny(c, verdict) PROVE Remembers
  BY <1>1, RefusalRemembers DEF StaticDeny, InFlight
<1>2. ASSUME NEW x, Write(c, Discard(Mine(c))), call' = [call EXCEPT ![c] = x],
             call[c].pc = "classify"
      PROVE  Remembers
  <2>1. call[c].pc \in InFlight /\ Mine(c) \in SessionState /\ ~Charging(call[c])
    BY <1>2, CallTypes DEF InFlight, Charging
  <2>2. Discard(Mine(c)).failed = Mine(c).failed
    BY <2>1 DEF Discard, SessionState
  <2>3. Retains(Mine(c), Discard(Mine(c))) /\ Charges(Mine(c), Discard(Mine(c)), c)
    BY <2>1, OperationsRetain DEF Charges
  <2> QED
    BY <1>2, <2>1, <2>2, <2>3, CallRemembers
<1>3. ASSUME NEW verdict, StaticAllow(c, verdict) PROVE Remembers
  BY <1>2, <1>3 DEF StaticAllow, LetThrough
<1>4. ASSUME NEW verdict, NEW view \in Views, CachedAllow(c, verdict, view) PROVE Remembers
  BY <1>2, <1>4 DEF CachedAllow, NeedsReview
<1> QED
  BY <1>1, <1>3, <1>4, UseApprovalRemembers, StartReviewRemembers DEF Decide

\* The rejection that goes is the one the review was shown.
LEMMA ReviewAllowRemembers ==
  ASSUME Safe, Generations, Charged, NEW c \in Calls, NEW reply, ReviewAllow(c, reply)
  PROVE  Remembers
<1> DEFINE o  == call[c].obj
           st == ClearAnswered(Mine(c), c)
           x  == Passing(call[c], "review")
<1>1. /\ Mine(c) \in SessionState /\ call[c] \in CallState
      /\ o \in Objs /\ call[c].pc = "review"
      /\ heap \in [Objs -> SessionState] /\ call \in [Calls -> CallState]
  BY CallTypes DEF ReviewAllow, InFlight, Safe, Typed, TypeOK, StoreTypeOK
<1>2. st.failed = Mine(c).failed
      /\ st.rejected = {r \in Mine(c).rejected : \A seen \in call[c].rej : seen.gen # r.gen}
  BY <1>1 DEF ClearAnswered, SessionState
<1>3. heap' = [heap EXCEPT ![o] = st] /\ call' = [call EXCEPT ![c] = x]
  BY DEF ReviewAllow, Write, LetThrough
<1>4. x.pc = "verify" /\ x.via = "review"
  BY <1>1, MovesCharging DEF Ways
<1> HIDE DEF x, st
<1>5. /\ \A u \in Objs : u # o => heap'[u] = heap[u]
      /\ heap'[o] = st /\ call'[c] = x /\ \A d \in Calls : d # c => call'[d] = call[d]
  BY <1>1, <1>3
<1>6. Passes(c, "review")
  BY <1>1, <1>4, <1>5 DEF Passes
<1>7. RejectionStep
  <2>1. ASSUME NEW r \in Mine(c).rejected, st.rejected = {}
        PROVE  r \in call[c].rej
    <3>1. PICK seen \in call[c].rej : seen.gen = r.gen
      BY <1>2, <2>1
    <3> QED
      BY <3>1 DEF Generations, SnapshotsHold
  <2> QED
    BY <1>5, <1>6, <2>1 DEF RejectionStep, Mine
<1>8. FailureStep
  BY <1>2, <1>5 DEF FailureStep, Mine
<1>9. Charged'
  <2>1. \A d \in Calls : Charging(call[d]) => Charging(call'[d])
    BY <1>4, <1>5 DEF Charging
  <2>2. \A u \in Objs : heap'[u].failed = heap[u].failed
    BY <1>2, <1>5 DEF Mine
  <2> QED
    BY <2>1, <2>2 DEF Charged
<1> QED
  BY <1>7, <1>8, <1>9 DEF Remembers

LEMMA ReviewReturnsRemembers ==
  ASSUME Safe, Generations, Charged, NEW c \in Calls, ReviewReturns(c)
  PROVE  Remembers
<1> PICK reply \in Replies : \/ ReviewBypass(c, reply)
                             \/ ReviewDeny(c, reply)
                             \/ ReviewAllow(c, reply)
                             \/ ReviewFails(c, reply)
  BY DEF ReviewReturns
<1>1. /\ call[c].pc \in InFlight /\ Mine(c) \in SessionState /\ call[c] \in CallState
  BY CallTypes DEF ReviewBypass, ReviewDeny, ReviewAllow, ReviewFails, InFlight
<1>2. CASE ReviewBypass(c, reply)
  <2> DEFINE st == RecordRejection(Mine(c), call[c].cmd)
             x  == At(call[c], "abort")
  <2>1. Retains(Mine(c), st) /\ Charges(Mine(c), st, c)
    BY <1>1, OperationsRetain DEF Charges
  <2>2. Charging(x)
    BY <1>1, MovesCharging
  <2>3. Write(c, st) /\ call' = [call EXCEPT ![c] = x]
    BY <1>2 DEF ReviewBypass
  <2> HIDE DEF st, x
  <2> QED
    BY <1>1, <2>1, <2>2, <2>3, CallRemembers
<1>3. CASE ReviewDeny(c, reply)
  BY <1>1, <1>3, RefusalRemembers DEF ReviewDeny
<1>4. CASE ReviewAllow(c, reply)
  BY <1>4, ReviewAllowRemembers
<1>5. CASE ReviewFails(c, reply)
  BY <1>1, <1>5, FallbackRemembers DEF ReviewFails
<1> QED
  BY <1>2, <1>3, <1>4, <1>5

LEMMA SettleRemembers ==
  ASSUME Safe, Charged, NEW c \in Calls, AbortReturns(c) \/ ClassifierThrows(c) \/ Verify(c)
  PROVE  Remembers
<1>1. call[c].pc \in InFlight /\ call[c] \in CallState
      /\ heap = [heap EXCEPT ![call[c].obj] = Mine(c)]
  BY CallTypes DEF AbortReturns, ClassifierThrows, Verify, VerifyPasses, VerifyFails, InFlight
<1>2. CASE VerifyFails(c)
  BY <1>1, <1>2, RefusalRemembers DEF VerifyFails
<1>3. CASE AbortReturns(c) \/ ClassifierThrows(c) \/ VerifyPasses(c)
  <2>1. Write(c, Mine(c))
    BY <1>1, <1>3 DEF Write, AbortReturns, ClassifierThrows, VerifyPasses
  <2>2. \E x : /\ call' = [call EXCEPT ![c] = x]
               /\ Charging(x) \/ ~Charging(call[c])
    BY <1>1, <1>3, MovesCharging DEF AbortReturns, ClassifierThrows, VerifyPasses, Block
  <2>3. Retains(Mine(c), Mine(c)) /\ Charges(Mine(c), Mine(c), c)
    BY DEF Retains, Charges
  <2> QED
    BY <1>1, <2>1, <2>2, <2>3, CallRemembers
<1> QED
  BY <1>2, <1>3 DEF Verify

\* A hook that obtains the object of its session forgets nothing of it; a new
\* object has nothing to forget.
LEMMA ObtainedRetains ==
  ASSUME Safe, NEW c \in Calls, NEW o \in Objs, GetSession(SessionOf[c], o, Reachable)
  PROVE  LET st == Obtained(SessionOf[c], o)
         IN  /\ st \in SessionState
             /\ \/ o \in Reachable /\ st.failed = heap[o].failed /\ st.rejected = heap[o].rejected
                \/ o \notin Reachable /\ st.failed = {}
<1> DEFINE s  == SessionOf[c]
           st == Obtained(s, o)
<1>1. heap[o] \in SessionState /\ now \in Nat /\ s \in Sessions /\ TypeOK
  BY InputAssumption DEF Safe, Typed, TypeOK, StoreTypeOK
<1>2. CASE s \in Live \ Stale
  <2>1. st = [heap[o] EXCEPT !.touchedAt = now] /\ o \in Reachable
    BY <1>1, <1>2 DEF Obtained, GetSession, Reachable
  <2>2. st \in SessionState /\ st.failed = heap[o].failed /\ st.rejected = heap[o].rejected
    BY <1>1, <2>1 DEF SessionState
  <2> QED
    BY <2>1, <2>2
<1>3. CASE s \notin Live \ Stale
  <2>1. st = Fresh(s) /\ o \notin Reachable
    BY <1>3 DEF Obtained, GetSession
  <2>2. Fresh(s) \in SessionState /\ Fresh(s).failed = {}
    BY <1>1, FreshType DEF Fresh
  <2> QED
    BY <2>1, <2>2
<1> QED
  BY <1>2, <1>3

LEMMA BeginRemembers ==
  ASSUME Safe, Charged, NEW c \in Calls, NEW cmd \in Commands, Begin(c, cmd)
  PROVE  Remembers
<1> DEFINE s  == SessionOf[c]
<1>1. PICK o \in Objs :
        /\ GetSession(s, o, Reachable)
        /\ \/ heap' = [heap EXCEPT ![o] = RecordRejection(Obtained(s, o), cmd)]
           \/ heap' = [heap EXCEPT ![o] = Obtained(s, o)]
        /\ \E x : call' = [call EXCEPT ![c] = x]
  BY DEF Begin
<1>2. call \in [Calls -> CallState] /\ call[c].pc = "idle"
  BY DEF Begin, Safe, Typed, TypeOK
<1>3. \A d \in Calls : Charging(call[d]) => Charging(call'[d])
  BY <1>1, <1>2 DEF Charging
<1> DEFINE st == Obtained(s, o)
<1>4. /\ st \in SessionState
      /\ \/ o \in Reachable /\ st.failed = heap[o].failed /\ st.rejected = heap[o].rejected
         \/ o \notin Reachable /\ st.failed = {}
  BY <1>1, ObtainedRetains
<1>5. PICK t : t \in {st, RecordRejection(st, cmd)} /\ heap' = [heap EXCEPT ![o] = t]
  BY <1>1
<1> HIDE DEF st
<1>6. Retains(st, t) /\ \A x \in t.failed : x \in st.failed \/ x.by = {}
  BY <1>4, <1>5, OperationsRetain
<1>7. Retains(heap[o], t) \/ o \notin Reachable
  BY <1>4, <1>6 DEF Retains
<1>8. \A x \in t.failed : \/ o \in Reachable /\ x \in heap[o].failed
                         \/ \A d \in x.by : d \in Calls => Charging(call'[d])
  BY <1>4, <1>6
<1> QED
  BY <1>3, <1>5, <1>7, <1>8, HeapRemembers

\* A success clears a failure that is in its own charge alone.
LEMMA FinishRemembers ==
  ASSUME Safe, Charged, NEW c \in Calls, NEW exit, Finish(c, exit)
  PROVE  Remembers
<1> DEFINE s  == SessionOf[c]
<1>1. PICK o \in Objs : /\ GetSession(s, o, Reachable)
                        /\ heap' = [heap EXCEPT ![o] = Reported(Obtained(s, o), c, exit)]
  BY DEF Finish
<1>2. /\ call \in [Calls -> CallState] /\ heap \in [Objs -> SessionState]
      /\ call[c].pc = "allowed" /\ call' = [call EXCEPT ![c] = At(call[c], "done")]
  BY DEF Finish, Safe, Typed, TypeOK, StoreTypeOK
<1>3. At(call[c], "done").pc = "done"
  BY <1>2 DEF At, CallState
<1>4. call'[c].pc = "done" /\ \A d \in Calls : Charging(call[d]) => Charging(call'[d])
  BY <1>2, <1>3 DEF Charging
<1> DEFINE st == Obtained(s, o)
           t  == Reported(st, c, exit)
<1>5. /\ st \in SessionState
      /\ \/ o \in Reachable /\ st.failed = heap[o].failed /\ st.rejected = heap[o].rejected
         \/ o \notin Reachable /\ st.failed = {}
  BY <1>1, ObtainedRetains
<1>6. heap' = [heap EXCEPT ![o] = t] /\ t \in {st, RecordFailure(st), ClearSucceeded(st, c)}
  BY <1>1 DEF Reported
<1> HIDE DEF st, t
<1>7. CASE t \in {st, RecordFailure(st)}
  <2>1. Retains(st, t) /\ \A x \in t.failed : x \in st.failed \/ x.by = {}
    BY <1>5, <1>7, OperationsRetain
  <2>2. Retains(heap[o], t) \/ o \notin Reachable
    BY <1>5, <2>1 DEF Retains
  <2>3. \A x \in t.failed : \/ o \in Reachable /\ x \in heap[o].failed
                           \/ \A d \in x.by : d \in Calls => Charging(call'[d])
    BY <1>5, <2>1
  <2> QED
    BY <1>4, <1>6, <2>2, <2>3, HeapRemembers
<1>8. CASE t = ClearSucceeded(st, c)
  <2>1. t.rejected = st.rejected /\ t.failed \subseteq st.failed
        /\ \A x \in st.failed : x \in t.failed \/ x.by = {c}
    BY <1>5, <1>8 DEF ClearSucceeded, SessionState
  <2>2. heap'[o] = t /\ \A u \in Objs : u # o => heap'[u] = heap[u]
    BY <1>2, <1>6
  <2>3. RejectionStep
    BY <1>5, <2>1, <2>2 DEF RejectionStep
  <2>4. FailureStep
    <3> SUFFICES ASSUME NEW x \in heap[o].failed, o \in Reachable, t.failed = {}
                 PROVE  x.by = {c} /\ call[c].via \in {"review", "open"}
      BY <1>2, <1>4, <2>2 DEF FailureStep
    <3>1. x.by = {c}
      BY <1>5, <2>1
    <3>2. Charging(call[c])
      BY <3>1 DEF Charged
    <3> QED
      BY <1>2, <3>1, <3>2 DEF Charging
  <2>5. Charged'
    BY <1>4, <1>5, <2>1, <2>2 DEF Charged
  <2> QED
    BY <2>3, <2>4, <2>5 DEF Remembers
<1> QED
  BY <1>6, <1>7, <1>8

\* What the confirmations and the events do to the objects.
LEMMA QuietCallsRemember ==
  ASSUME Safe, Charged, call' = call,
         \/ heap' = heap
         \/ \E o \in Objs : \E t : /\ heap' = [heap EXCEPT ![o] = t]
                                   /\ \/ t = Withdrawn(heap[o])
                                      \/ \E asked : t = WithConsent(heap[o], asked)
  PROVE  Remembers
<1>1. heap \in [Objs -> SessionState]
  BY DEF Safe, Typed, TypeOK, StoreTypeOK
<1>2. ASSUME NEW o \in Objs
      PROVE  /\ Withdrawn(heap[o]).rejected = heap[o].rejected
             /\ Withdrawn(heap[o]).failed = heap[o].failed
             /\ \A asked : /\ WithConsent(heap[o], asked).rejected = heap[o].rejected
                           /\ WithConsent(heap[o], asked).failed = heap[o].failed
  <2>1. heap[o] \in SessionState
    BY <1>1
  <2>2. \A asked : \E any : WithConsent(heap[o], asked) = [heap[o] EXCEPT !.approved = any, !.pending = {}]
    BY DEF WithConsent
  <2>3. Withdrawn(heap[o]).rejected = heap[o].rejected /\ Withdrawn(heap[o]).failed = heap[o].failed
    BY <2>1 DEF Withdrawn, SessionState
  <2>4. ASSUME NEW asked
        PROVE  /\ WithConsent(heap[o], asked).rejected = heap[o].rejected
               /\ WithConsent(heap[o], asked).failed = heap[o].failed
    <3>1. PICK any : WithConsent(heap[o], asked) = [heap[o] EXCEPT !.approved = any, !.pending = {}]
      BY <2>2
    <3> QED
      BY <2>1, <3>1 DEF SessionState
  <2> QED
    BY <2>3, <2>4
<1>3. \A u \in Objs : heap'[u].rejected = heap[u].rejected /\ heap'[u].failed = heap[u].failed
  BY <1>1, <1>2
<1> QED
  BY <1>3 DEF Remembers, RejectionStep, FailureStep, Charged

LEMMA ConfirmRemembers ==
  ASSUME Safe, Charged, NEW f \in Confirms,
         \/ \E id \in Calls : ConfirmRefused(f, id) \/ ConfirmExpired(f, id) \/ ConfirmAsk(f, id)
         \/ ConfirmApproved(f) \/ ConfirmDenied(f) \/ ConfirmSuperseded(f)
  PROVE  Remembers
<1>1. ASSUME NEW id \in Calls, ConfirmExpired(f, id) PROVE Remembers
  <2>1. Surviving(SessionOf[f]) \in Objs
    BY <1>1, InputAssumption DEF ConfirmExpired, Asked, Surviving, Safe, Typed, TypeOK, StoreTypeOK
  <2> QED
    BY <1>1, <2>1, QuietCallsRemember DEF ConfirmExpired
<1>2. ASSUME NEW id \in Calls, ConfirmRefused(f, id) \/ ConfirmAsk(f, id) PROVE Remembers
  BY <1>2, QuietCallsRemember DEF ConfirmRefused, ConfirmAsk
<1>3. CASE ConfirmApproved(f) \/ ConfirmDenied(f)
  <2>1. confirm[f].obj \in Objs
    BY <1>3, AskedIsPending DEF ConfirmApproved, ConfirmDenied
  <2> QED
    BY <1>3, <2>1, QuietCallsRemember DEF ConfirmApproved, ConfirmDenied
<1>4. CASE ConfirmSuperseded(f)
  BY <1>4, QuietCallsRemember DEF ConfirmSuperseded
<1> QED
  BY <1>1, <1>2, <1>3, <1>4

LEMMA NextRemembers ==
  ASSUME Safe, Generations, Charged, [Next]_vars
  PROVE  Remembers
<1>1. ASSUME NEW c \in Calls, Resume(c) PROVE Remembers
  BY <1>1, DecideRemembers, ReviewReturnsRemembers, SettleRemembers DEF Resume
<1>2. ASSUME NEW s \in Sessions, SessionDeleted(s) PROVE Remembers
  BY <1>2, QuietCallsRemember DEF SessionDeleted
<1>3. CASE Dispose \/ Tick
  BY <1>3, QuietCallsRemember DEF Dispose, Tick
<1>4. CASE UNCHANGED vars
  BY <1>4, QuietCallsRemember DEF vars
<1>5. CASE Next
  <2>1. ASSUME NEW c \in Calls, \/ \E cmd \in Commands : Begin(c, cmd)
                               \/ Resume(c)
                               \/ \E exit \in Exits : Finish(c, exit)
        PROVE  Remembers
    BY <1>1, <2>1, BeginRemembers, FinishRemembers
  <2>2. ASSUME NEW f \in Confirms, \/ \E id \in Calls : \/ ConfirmRefused(f, id)
                                                       \/ ConfirmExpired(f, id)
                                                       \/ ConfirmAsk(f, id)
                                  \/ ConfirmApproved(f)
                                  \/ ConfirmDenied(f)
                                  \/ ConfirmSuperseded(f)
        PROVE  Remembers
    BY <2>2, ConfirmRemembers
  <2> QED
    BY <1>2, <1>3, <1>5, <2>1, <2>2 DEF Next
<1> QED
  BY <1>4, <1>5

LEMMA AlwaysCharged ==
  Spec => [](Safe /\ Generations /\ Charged)
<1>1. Init => Charged
  BY DEF Init, StoreInit, Fresh, Charged
<1>2. Safe /\ Generations /\ Charged /\ [Next]_vars => Charged'
  BY NextRemembers DEF Remembers
<1> QED
  BY <1>1, <1>2, AlwaysGenerations, PTL DEF Spec

\* What a session was refused is forgotten only when it is answered, for any
\* number of calls in flight at once (index.ts:467-472, 586-591).
THEOREM RejectionsAreAnswered == Spec => RejectionAnswered
<1>1. ASSUME Safe, Generations, Charged, [Next]_vars
      PROVE  [\A o \in Objs : \A r \in heap[o].rejected :
                o \in Reachable /\ heap'[o].rejected = {} =>
                  \/ \E c \in Calls : call[c].obj = o /\ r \in call[c].rej /\ Passes(c, "review")
                  \/ \E c \in Calls : call[c].obj = o /\ r.cmd = call[c].cmd
                                    /\ Passes(c, "approval")]_vars
  BY <1>1, NextRemembers DEF Remembers, RejectionStep
<1> QED
  BY <1>1, AlwaysCharged, PTL DEF Spec, RejectionAnswered

\* And what it failed with, only on the success of the command whose review took
\* charge of that failure (index.ts:647-653).
THEOREM FailuresAreAnswered == Spec => FailureAnswered
<1>1. ASSUME Safe, Generations, Charged, [Next]_vars
      PROVE  [\A o \in Objs : \A x \in heap[o].failed :
                o \in Reachable /\ heap'[o].failed = {} =>
                  \E c \in Calls : /\ x.by = {c}
                                   /\ call[c].pc = "allowed" /\ call'[c].pc = "done"
                                   /\ call[c].via \in {"review", "open"}]_vars
  BY <1>1, NextRemembers DEF Remembers, FailureStep
<1> QED
  BY <1>1, AlwaysCharged, PTL DEF Spec, FailureAnswered

\* Nothing is forgotten unanswered (index.ts:467-472, 586-591, 647-653).
THEOREM NothingIsForgotten == Spec => NothingForgotten
  BY RejectionsAreAnswered, FailuresAreAnswered DEF NothingForgotten

-------------------------------------------------------------------------------
(* How a command is let through, and how it is refused *)

\* Where a call stands after each of its moves.
LEMMA MovesFields ==
  ASSUME NEW x \in CallState
  PROVE  /\ \A pc : At(x, pc).pc = pc /\ At(x, pc).cmd = x.cmd
         /\ \A pc : At(Over(x), pc).pc = pc
         /\ Blocked(x).pc = "blocked" /\ Blocked(x).cmd = x.cmd
         /\ \A o : Started(x, o).pc = "classify"
         /\ \A rej, fail, key : Reviewing(x, rej, fail, key).pc = "review"
         /\ \A way \in Ways : Passing(x, way).pc = "verify" /\ Passing(x, way).via = way
         /\ \A ids : Granted(x, ids).pc = "verify" /\ Granted(x, ids).via = "approval"
         /\ \A way \in Ways : \A view :
              LET y == Seeing(Passing(x, way), view)
              IN  y.pc = "verify" /\ y.via = way /\ y.view = {view}
<1>1. \A pc : At(x, pc).pc = pc /\ At(x, pc).cmd = x.cmd
  BY DEF At, CallState
<1>2. LocalsGone(x) \in CallState /\ LocalsGone(x).cmd = x.cmd
  BY CallRecordType DEF LocalsGone, CallState
<1>3. Over(x) \in CallState /\ Over(x).cmd = x.cmd
  BY <1>2, CallRecordType DEF Over, CallState
<1>4. \A pc : At(Over(x), pc).pc = pc /\ At(Over(x), pc).cmd = x.cmd
  BY <1>3 DEF At, CallState
<1>5. \A o : Started(x, o).pc = "classify"
  BY DEF Started, CallState
<1>6. \A rej, fail, key : Reviewing(x, rej, fail, key).pc = "review"
  BY DEF Reviewing, CallState
<1>7. \A way \in Ways : /\ Passing(x, way).pc = "verify" /\ Passing(x, way).via = way
                       /\ Passing(x, way) \in CallState
  BY MovesCharging, CallMoveType
<1>8. \A ids : Granted(x, ids).pc = "verify" /\ Granted(x, ids).via = "approval"
  <2>1. /\ Passing(x, "approval") \in CallState
        /\ Passing(x, "approval").pc = "verify" /\ Passing(x, "approval").via = "approval"
    BY <1>7 DEF Ways
  <2> QED
    BY <2>1 DEF Granted, CallState
<1>9. \A way \in Ways : \A view :
        LET y == Seeing(Passing(x, way), view)
        IN  y.pc = "verify" /\ y.via = way /\ y.view = {view}
  BY <1>7 DEF Seeing, CallState
<1> QED
  BY <1>1, <1>4, <1>5, <1>6, <1>7, <1>8, <1>9 DEF Blocked

\* One call at most moves in a step.
LEMMA OnlyOneMoves ==
  ASSUME Safe, NEW c \in Calls, NEW d \in Calls, c # d, NEW x, call' = [call EXCEPT ![d] = x]
  PROVE  call'[c] = call[c]
BY DEF Safe, Typed, TypeOK

\* The static verdict and the cache let a call through in one place each.
LetThroughBy(c, way) ==
  \/ way = "static" /\ \E verdict : StaticAllow(c, verdict)
  \/ way = "cache" /\ \E verdict : \E view \in Views : CachedAllow(c, verdict, view)
  \/ way \in {"approval", "review", "open"}

LEMMA PassesInFlight ==
  ASSUME Safe, NEW c \in Calls, NEW way, Passes(c, way), Resume(c)
  PROVE  LetThroughBy(c, way)
<1>1. call \in [Calls -> CallState] /\ call[c] \in CallState
  BY DEF Safe, Typed, TypeOK
<1>2. ASSUME NEW x, call' = [call EXCEPT ![c] = x]
      PROVE  x.pc = "verify" /\ x.via = way
  BY <1>1, <1>2 DEF Passes
<1>3. ~Block(c)
  BY <1>1, <1>2, MovesFields DEF Block
<1>4. LetThrough(c, "static") => way = "static"
  <2>1. Passing(call[c], "static").via = "static"
    BY <1>1, MovesFields DEF Ways
  <2> QED
    BY <1>2, <2>1 DEF LetThrough
<1>5. LetThrough(c, "open") \/ LetThrough(c, "review") => way = "open" \/ way = "review"
  <2>1. Passing(call[c], "open").via = "open" /\ Passing(call[c], "review").via = "review"
    BY <1>1, MovesFields DEF Ways
  <2> QED
    BY <1>2, <2>1 DEF LetThrough
<1>6. ASSUME NEW st, Fallback(c, st) PROVE way = "open" \/ way = "review"
  BY <1>3, <1>5, <1>6 DEF Fallback
<1>7. CASE Decide(c)
  <2>1. ASSUME NEW verdict, UseApproval(c, verdict) PROVE way = "approval"
    BY <1>1, <1>2, <2>1, MovesFields DEF UseApproval
  <2>2. ASSUME NEW verdict, StaticAllow(c, verdict) PROVE way = "static"
    BY <1>4, <2>2 DEF StaticAllow
  <2>3. ASSUME NEW verdict, NEW view \in Views, CachedAllow(c, verdict, view) PROVE way = "cache"
    <3>1. Seeing(Passing(call[c], "cache"), view).via = "cache"
      BY <1>1, MovesFields DEF Ways
    <3> QED
      BY <1>2, <2>3, <3>1 DEF CachedAllow
  <2>4. ASSUME NEW verdict, NEW view \in Views, StartReview(c, verdict, view)
        PROVE  way = "open" \/ way = "review"
    <3>1. Seeing(call[c], view) \in CallState
      BY <1>1, CallRecordType
    <3>2. \A rej, fail, key :
            ~(call' = [call EXCEPT ![c] = Reviewing(Seeing(call[c], view), rej, fail, key)])
      BY <1>2, <3>1, MovesFields
    <3> QED
      BY <1>6, <2>4, <3>2 DEF StartReview
  <2> QED
    BY <1>3, <1>7, <2>1, <2>2, <2>3, <2>4 DEF Decide, LetThroughBy, StaticDeny
<1>8. CASE ReviewReturns(c)
  <2>1. ASSUME NEW reply, ReviewBypass(c, reply) PROVE FALSE
    <3>1. At(call[c], "abort").pc = "abort"
      BY <1>1, MovesFields
    <3> QED
      BY <1>2, <2>1, <3>1 DEF ReviewBypass
  <2> QED
    BY <1>3, <1>5, <1>6, <1>8, <2>1
       DEF ReviewReturns, ReviewDeny, ReviewAllow, ReviewFails, LetThroughBy
<1>9. CASE AbortReturns(c) \/ ClassifierThrows(c) \/ Verify(c)
  <2>1. ~(VerifyPasses(c) \/ ClassifierThrows(c))
    BY <1>1, <1>2, MovesFields DEF VerifyPasses, ClassifierThrows
  <2> QED
    BY <1>3, <1>9, <2>1 DEF AbortReturns, Verify, VerifyFails
<1> QED
  BY <1>7, <1>8, <1>9 DEF Resume

LEMMA PassesBy ==
  ASSUME Safe, [Next]_vars, NEW c \in Calls, NEW way, Passes(c, way)
  PROVE  LetThroughBy(c, way)
<1>1. call \in [Calls -> CallState] /\ call' # call
  BY DEF Safe, Typed, TypeOK, Passes
<1>2. ASSUME NEW d \in Calls, NEW cmd \in Commands, Begin(d, cmd) PROVE FALSE
  <2>1. Given(call[d], cmd) \in CallState
    BY <1>1, CallRecordType
  <2>2. PICK x : call' = [call EXCEPT ![d] = x] /\ x.pc \in {"blocked", "classify"}
    BY <1>2, <2>1, MovesFields DEF Begin
  <2> QED
    BY <1>1, <2>2 DEF Passes
<1>3. ASSUME NEW d \in Calls, NEW exit, Finish(d, exit) PROVE FALSE
  <2>1. call' = [call EXCEPT ![d] = At(call[d], "done")] /\ At(call[d], "done").pc = "done"
    BY <1>1, <1>3, MovesFields DEF Finish
  <2> QED
    BY <1>1, <2>1 DEF Passes
<1>4. ASSUME NEW d \in Calls, d # c, Resume(d) PROVE FALSE
  <2>1. \E x : call' = [call EXCEPT ![d] = x]
    BY <1>4 DEF Resume, Decide, StaticDeny, UseApproval, StaticAllow, CachedAllow, StartReview,
                Fallback, Block, LetThrough, ReviewReturns, ReviewBypass, ReviewDeny, ReviewAllow,
                ReviewFails, AbortReturns, ClassifierThrows, Verify, VerifyPasses, VerifyFails
  <2> QED
    BY <1>4, <2>1, OnlyOneMoves DEF Passes
<1>5. ASSUME NEW f \in Confirms, \/ \E id \in Calls : \/ ConfirmRefused(f, id)
                                                     \/ ConfirmExpired(f, id)
                                                     \/ ConfirmAsk(f, id)
                                \/ ConfirmApproved(f)
                                \/ ConfirmDenied(f)
                                \/ ConfirmSuperseded(f)
      PROVE  FALSE
  BY <1>1, <1>5 DEF ConfirmRefused, ConfirmExpired, ConfirmAsk, ConfirmApproved, ConfirmDenied,
                    ConfirmSuperseded
<1>6. ~(\E s \in Sessions : SessionDeleted(s)) /\ ~Dispose /\ ~Tick /\ ~UNCHANGED vars
  BY <1>1 DEF SessionDeleted, Dispose, Tick, vars
<1>7. Next
  BY <1>6
<1> QED
  BY <1>2, <1>3, <1>4, <1>5, <1>6, <1>7, PassesInFlight DEF Next

\* HARD: what is outstanding forces a review, whatever the cache holds
\* (index.ts:480-494).
THEOREM ReviewIsForced == Spec => ForcedReview
<1>1. ASSUME Safe, [Next]_vars
      PROVE  [Strict => \A c \in Calls :
                Passes(c, "static") \/ Passes(c, "cache") =>
                  /\ Mine(c).rejected = {}
                  /\ \A x \in Mine(c).failed : x.by # {}]_vars
  <2> SUFFICES ASSUME Strict, NEW c \in Calls, Passes(c, "static") \/ Passes(c, "cache")
               PROVE  Mine(c).rejected = {} /\ \A x \in Mine(c).failed : x.by # {}
    OBVIOUS
  <2>1. ASSUME NEW verdict, NEW view, CachedAllow(c, verdict, view) PROVE FALSE
    BY <2>1 DEF CachedAllow, Hit, CacheKey
  <2>2. PICK verdict : StaticAllow(c, verdict)
    BY <1>1, <2>1, PassesBy DEF LetThroughBy
  <2>3. RejectionAtStart(Mine(c)) = {} /\ FailureAtStart(Mine(c)) = {}
    BY <2>2 DEF StaticAllow, Forced
  <2> QED
    BY <2>3 DEF RejectionAtStart, FailureAtStart
<1> QED
  BY <1>1, AlwaysSafe, PTL DEF Spec, ForcedReview

\* The refusal of c is the newest rejection of an object of its session.
RefusalStands(c) ==
  \E o \in Objs :
    /\ heap'[o].owner = SessionOf[c]
    /\ heap'[o].rejected = {[cmd |-> call'[c].cmd, gen |-> heap'[o].version]}
    /\ heap'[o].version > (IF o \in Reachable THEN heap[o].version ELSE 0)

LEMMA RecordedFields ==
  ASSUME Strict, NEW st \in SessionState, NEW c \in Calls,
         NEW t \in {RecordRejection(st, call[c].cmd), RaiseRequest(st, c)}
  PROVE  /\ t.owner = st.owner /\ t.version = st.version + 1
         /\ t.rejected = {[cmd |-> call[c].cmd, gen |-> t.version]}
<1> DEFINE b   == RecordRejection(st, call[c].cmd)
           new == [cmd |-> call[c].cmd, gen |-> st.version + 1]
<1>1. b = [NextGeneration(st) EXCEPT !.rejected = {new}]
  BY DEF RecordRejection
<1>2. \E any : RaiseRequest(st, c) = [b EXCEPT !.pending = any]
  BY DEF RaiseRequest
<1> HIDE DEF new
<1>3. /\ DOMAIN b = DOMAIN st /\ {"owner", "version", "rejected", "pending"} \subseteq DOMAIN st
      /\ b.owner = st.owner /\ b.version = st.version + 1 /\ b.rejected = {new}
  BY <1>1 DEF NextGeneration, SessionState
<1> HIDE DEF b
<1>4. t.owner = b.owner /\ t.version = b.version /\ t.rejected = b.rejected
  BY <1>2, <1>3 DEF b
<1> QED
  BY <1>3, <1>4 DEF new

LEMMA WrittenRefusalStands ==
  ASSUME Safe, Strict, NEW c \in Calls, call[c].pc \in InFlight,
         NEW st \in {Mine(c), Consume(Discard(Mine(c)), c)},
         \/ Write(c, RecordRejection(st, call[c].cmd))
         \/ Write(c, RaiseRequest(st, c)),
         call'[c].cmd = call[c].cmd
  PROVE  RefusalStands(c)
<1> DEFINE o == call[c].obj
<1>1. /\ Mine(c) \in SessionState /\ o \in Objs /\ o \in Reachable
      /\ heap \in [Objs -> SessionState] /\ Mine(c).owner = SessionOf[c]
  <2>1. /\ Mine(c) \in SessionState /\ o \in Objs /\ o \in Reachable
        /\ heap \in [Objs -> SessionState]
    BY CallTypes DEF Reachable, Safe, Typed, TypeOK, StoreTypeOK
  <2>2. Mine(c).owner = SessionOf[c]
    BY <2>1, StoreAssumption DEF Safe, Owned, Mine
  <2> QED
    BY <2>1, <2>2
<1>2. /\ Discard(Mine(c)) \in SessionState
      /\ Discard(Mine(c)).owner = Mine(c).owner /\ Discard(Mine(c)).version = Mine(c).version
  BY <1>1, DiscardType DEF Discard, SessionState
<1>3. st \in SessionState /\ st.owner = Mine(c).owner /\ st.version = Mine(c).version
  <2>1. LET t == Consume(Discard(Mine(c)), c)
        IN  /\ t \in SessionState
            /\ t.owner = Discard(Mine(c)).owner /\ t.version = Discard(Mine(c)).version
    BY <1>2, ConsumeType DEF Consume, SessionState
  <2> QED
    BY <1>1, <1>2, <2>1
<1>4. PICK t \in {RecordRejection(st, call[c].cmd), RaiseRequest(st, c)} : heap' = [heap EXCEPT ![o] = t]
  BY DEF Write
<1>5. /\ t.owner = st.owner /\ t.version = st.version + 1
      /\ t.rejected = {[cmd |-> call[c].cmd, gen |-> t.version]}
  BY <1>3, RecordedFields
<1>6. heap'[o] = t /\ st.version \in Nat /\ Mine(c) = heap[o]
  BY <1>1, <1>3, <1>4 DEF Mine, SessionState
<1> QED
  BY <1>1, <1>3, <1>5, <1>6 DEF RefusalStands

LEMMA ResumeRecords ==
  ASSUME Safe, Strict, NEW c \in Calls, Resume(c),
         call[c].pc \notin {"blocked", "abort"}, call'[c].pc \in {"blocked", "abort"}
  PROVE  RefusalStands(c)
<1>1. call \in [Calls -> CallState] /\ call[c] \in CallState
  BY DEF Safe, Typed, TypeOK
<1>2. ASSUME NEW x, call' = [call EXCEPT ![c] = x]
      PROVE  x.pc \in {"blocked", "abort"} /\ call'[c].cmd = x.cmd
  BY <1>1, <1>2
<1>3. ASSUME call[c].pc \in InFlight, Block(c),
             NEW st \in {Mine(c), Consume(Discard(Mine(c)), c)},
             Write(c, RecordRejection(st, call[c].cmd)) \/ Write(c, RaiseRequest(st, c))
      PROVE  RefusalStands(c)
  <2>1. call'[c].cmd = call[c].cmd
    BY <1>1, <1>2, <1>3, MovesFields DEF Block
  <2> QED
    BY <1>3, <2>1, WrittenRefusalStands
<1>4. \A way \in Ways : ~LetThrough(c, way)
  <2>1. \A way \in Ways : Passing(call[c], way).pc = "verify"
    BY <1>1, MovesFields
  <2> QED
    BY <1>2, <2>1 DEF LetThrough
<1>5. ASSUME call[c].pc \in InFlight, NEW st \in {Mine(c), Consume(Discard(Mine(c)), c)},
             Fallback(c, st)
      PROVE  RefusalStands(c)
  BY <1>3, <1>4, <1>5 DEF Fallback, Ways
<1>6. CASE Decide(c)
  <2>1. ASSUME NEW verdict, StaticDeny(c, verdict) PROVE RefusalStands(c)
    BY <1>3, <2>1 DEF StaticDeny, InFlight
  <2>2. ASSUME NEW verdict, UseApproval(c, verdict) PROVE FALSE
    <3>1. \A ids : Granted(call[c], ids).pc = "verify"
      BY <1>1, MovesFields
    <3> QED
      BY <1>2, <2>2, <3>1 DEF UseApproval
  <2>3. ASSUME NEW verdict, StaticAllow(c, verdict) PROVE FALSE
    BY <1>4, <2>3 DEF StaticAllow, Ways
  <2>4. ASSUME NEW verdict, NEW view \in Views, CachedAllow(c, verdict, view) PROVE FALSE
    <3>1. Seeing(Passing(call[c], "cache"), view).pc = "verify"
      BY <1>1, MovesFields DEF Ways
    <3> QED
      BY <1>2, <2>4, <3>1 DEF CachedAllow
  <2>5. ASSUME NEW verdict, NEW view \in Views, StartReview(c, verdict, view)
        PROVE  RefusalStands(c)
    <3>1. Seeing(call[c], view) \in CallState
      BY <1>1, CallRecordType
    <3>2. \A rej, fail, key :
            ~(call' = [call EXCEPT ![c] = Reviewing(Seeing(call[c], view), rej, fail, key)])
      BY <1>2, <3>1, MovesFields
    <3>3. Fallback(c, Consume(Discard(Mine(c)), c)) /\ call[c].pc \in InFlight
      BY <2>5, <3>2 DEF StartReview, NeedsReview, InFlight
    <3> QED
      BY <1>5, <3>3
  <2> QED
    BY <1>6, <2>1, <2>2, <2>3, <2>4, <2>5 DEF Decide
<1>7. CASE ReviewReturns(c)
  <2> PICK reply \in Replies : \/ ReviewBypass(c, reply)
                               \/ ReviewDeny(c, reply)
                               \/ ReviewAllow(c, reply)
                               \/ ReviewFails(c, reply)
    BY <1>7 DEF ReviewReturns
  <2>1. CASE ReviewBypass(c, reply)
    <3>1. At(call[c], "abort").cmd = call[c].cmd
      BY <1>1, MovesFields
    <3>2. call'[c].cmd = call[c].cmd
      BY <1>2, <2>1, <3>1 DEF ReviewBypass
    <3> QED
      BY <2>1, <3>2, WrittenRefusalStands DEF ReviewBypass, InFlight
  <2>2. CASE ReviewDeny(c, reply)
    BY <1>3, <2>2 DEF ReviewDeny, InFlight
  <2>3. ~ReviewAllow(c, reply)
    BY <1>4 DEF ReviewAllow, Ways
  <2>4. CASE ReviewFails(c, reply)
    BY <1>5, <2>4 DEF ReviewFails, InFlight
  <2> QED
    BY <2>1, <2>2, <2>3, <2>4
<1>8. CASE AbortReturns(c) \/ ClassifierThrows(c) \/ Verify(c)
  <2>1. At(Over(call[c]), "thrown").pc = "thrown" /\ At(Over(call[c]), "allowed").pc = "allowed"
    BY <1>1, MovesFields
  <2>2. ~(VerifyPasses(c) \/ ClassifierThrows(c))
    BY <1>2, <2>1 DEF VerifyPasses, ClassifierThrows
  <2> QED
    BY <1>3, <1>8, <2>2 DEF AbortReturns, Verify, VerifyFails, InFlight
<1> QED
  BY <1>6, <1>7, <1>8 DEF Resume

LEMMA BeginRecords ==
  ASSUME Safe, Strict, NEW c \in Calls, NEW cmd \in Commands, Begin(c, cmd),
         call'[c].pc \in {"blocked", "abort"}
  PROVE  RefusalStands(c)
<1> DEFINE s == SessionOf[c]
<1>1. /\ call \in [Calls -> CallState] /\ call[c] \in CallState
      /\ heap \in [Objs -> SessionState] /\ s \in Sessions /\ now \in Nat /\ TypeOK
  BY InputAssumption DEF Safe, Typed, TypeOK, StoreTypeOK
<1>2. PICK o \in Objs :
        /\ GetSession(s, o, Reachable)
        /\ IF cmd = Blank
             THEN /\ heap' = [heap EXCEPT ![o] = RecordRejection(Obtained(s, o), cmd)]
                  /\ call' = [call EXCEPT ![c] = Blocked(Given(call[c], cmd))]
             ELSE call' = [call EXCEPT ![c] = Started(Given(call[c], cmd), o)]
  BY DEF Begin
<1>3. Given(call[c], cmd) \in CallState /\ Given(call[c], cmd).cmd = cmd
  BY <1>1, CallRecordType DEF Given, CallState
<1>4. Started(Given(call[c], cmd), o).pc = "classify" /\ Blocked(Given(call[c], cmd)).cmd = cmd
  BY <1>3, MovesFields
<1>5. cmd = Blank
  BY <1>1, <1>2, <1>4
<1> DEFINE st == Obtained(s, o)
           t  == RecordRejection(st, cmd)
<1>6. st \in SessionState /\ st.owner = s
      /\ (o \in Reachable => st.version = heap[o].version)
  <2>1. CASE s \in Live \ Stale
    <3>1. o = sessions[s] /\ sessions[s] # NoObj
      BY <1>2, <2>1 DEF GetSession, Live
    <3>2. heap[o].owner = s
      BY <1>1, <3>1 DEF Safe, Owned
    <3>3. st = [heap[o] EXCEPT !.touchedAt = now] /\ heap[o] \in SessionState
      BY <1>1, <2>1 DEF Obtained
    <3> QED
      BY <1>1, <3>2, <3>3 DEF SessionState
  <2>2. CASE s \notin Live \ Stale
    <3>1. st = Fresh(s) /\ o \notin Reachable
      BY <1>2, <2>2 DEF Obtained, GetSession
    <3>2. Fresh(s) \in SessionState /\ Fresh(s).owner = s
      BY <1>1, FreshType DEF Fresh
    <3> QED
      BY <3>1, <3>2
  <2> QED
    BY <2>1, <2>2
<1> DEFINE new == [cmd |-> cmd, gen |-> st.version + 1]
<1> HIDE DEF st, new
<1>7. t = [NextGeneration(st) EXCEPT !.rejected = {new}]
  BY DEF RecordRejection, new
<1>8. t.owner = s /\ t.version = st.version + 1 /\ t.rejected = {new} /\ st.version \in Nat
  BY <1>6, <1>7 DEF NextGeneration, SessionState
<1> HIDE DEF t
<1>9. heap'[o] = t /\ call'[c].cmd = cmd
  BY <1>1, <1>2, <1>4, <1>5 DEF t, st
<1> QED
  BY <1>6, <1>8, <1>9 DEF RefusalStands, new

LEMMA NextRecords ==
  ASSUME Safe, Strict, [Next]_vars, NEW c \in Calls,
         call[c].pc \notin {"blocked", "abort"}, call'[c].pc \in {"blocked", "abort"}
  PROVE  RefusalStands(c)
<1>1. call \in [Calls -> CallState] /\ call' # call
  BY DEF Safe, Typed, TypeOK
<1>2. ASSUME NEW d \in Calls, NEW exit, Finish(d, exit) PROVE FALSE
  <2>1. call' = [call EXCEPT ![d] = At(call[d], "done")] /\ At(call[d], "done").pc = "done"
    BY <1>1, <1>2, MovesFields DEF Finish
  <2> QED
    BY <1>1, <2>1
<1>3. ASSUME NEW d \in Calls, d # c, Resume(d) \/ \E cmd \in Commands : Begin(d, cmd) PROVE FALSE
  <2>1. \E x : call' = [call EXCEPT ![d] = x]
    BY <1>3 DEF Begin, Resume, Decide, StaticDeny, UseApproval, StaticAllow, CachedAllow, StartReview,
                Fallback, Block, LetThrough, ReviewReturns, ReviewBypass, ReviewDeny, ReviewAllow,
                ReviewFails, AbortReturns, ClassifierThrows, Verify, VerifyPasses, VerifyFails
  <2> QED
    BY <1>3, <2>1, OnlyOneMoves
<1>4. ASSUME NEW f \in Confirms, \/ \E id \in Calls : \/ ConfirmRefused(f, id)
                                                     \/ ConfirmExpired(f, id)
                                                     \/ ConfirmAsk(f, id)
                                \/ ConfirmApproved(f)
                                \/ ConfirmDenied(f)
                                \/ ConfirmSuperseded(f)
      PROVE  FALSE
  BY <1>1, <1>4 DEF ConfirmRefused, ConfirmExpired, ConfirmAsk, ConfirmApproved, ConfirmDenied,
                    ConfirmSuperseded
<1>5. ~(\E s \in Sessions : SessionDeleted(s)) /\ ~Dispose /\ ~Tick /\ ~UNCHANGED vars
  BY <1>1 DEF SessionDeleted, Dispose, Tick, vars
<1>6. Next
  BY <1>5
<1> QED
  BY <1>2, <1>3, <1>4, <1>5, <1>6, ResumeRecords, BeginRecords DEF Next

\* HARD: no refusal is lost on the way to the throw, whichever check refused the
\* command (index.ts:323-331, 566, 572, 606, 617).
THEOREM RefusalsAreRecorded == Spec => BlockRecorded
<1>1. ASSUME Safe, [Next]_vars
      PROVE  [Strict => \A c \in Calls :
                call[c].pc \notin {"blocked", "abort"} /\ call'[c].pc \in {"blocked", "abort"} =>
                  \E o \in Objs :
                    /\ heap'[o].owner = SessionOf[c]
                    /\ heap'[o].rejected = {[cmd |-> call'[c].cmd, gen |-> heap'[o].version]}
                    /\ heap'[o].version > (IF o \in Reachable THEN heap[o].version ELSE 0)]_vars
  BY <1>1, NextRecords DEF RefusalStands
<1> QED
  BY <1>1, AlwaysSafe, PTL DEF Spec, BlockRecorded

-------------------------------------------------------------------------------
(* What the cache stands for *)

\* Entry k was made by an ALLOW, for its own session, form and view.
Grounded(k) ==
  /\ k.view \notin Uninspected
  /\ \E r \in reviewed : /\ r.sid = k.sid /\ NormalForm[r.cmd] = k.form /\ r.view = k.view
                        /\ cache[k] = r.at + CacheTTL

\* The key of a call under review is the call's own.
OwnKey(x, c) ==
  x.pc = "review" =>
    \A k \in x.key : /\ ~Strict /\ k.view \notin Uninspected /\ x.view = {k.view}
                     /\ k.sid = SessionOf[c] /\ k.form = NormalForm[x.cmd]

CacheGrounded == \A k \in Cached : Grounded(k)
KeysAreOwn    == \A c \in Calls : OwnKey(call[c], c)
Grounds       == CacheGrounded /\ KeysAreOwn

\* Entries go, or stay as they are; what was reviewed stays reviewed.
CacheShrinks == \A k \in Keys : cache'[k] \in {cache[k], Absent}

LEMMA ShrinkGrounded ==
  ASSUME CacheGrounded, CacheShrinks, reviewed \subseteq reviewed'
  PROVE  CacheGrounded'
BY DEF CacheGrounded, CacheShrinks, Grounded, Cached

LEMMA MapsShrink ==
  ASSUME Safe,
         \/ UNCHANGED maps
         \/ \E gone : DropSessions(gone)
         \/ \E s \in Sessions, o \in Objs : GetSession(s, o, Reachable)
         \/ \E key : DropExpired(key)
         \/ Clear
  PROVE  CacheShrinks
<1>1. CASE UNCHANGED maps
  BY <1>1 DEF maps, CacheShrinks
<1>2. ASSUME NEW gone, Forget(gone) PROVE CacheShrinks
  BY <1>2 DEF Forget, CacheShrinks
<1>3. ASSUME NEW key, DropExpired(key) PROVE CacheShrinks
  BY <1>3 DEF DropExpired, CacheShrinks
<1>4. CASE Clear
  BY <1>4 DEF Clear, CacheShrinks
<1> QED
  BY <1>1, <1>2, <1>3, <1>4 DEF DropSessions, GetSession

LEMMA CallsOwnKeys ==
  ASSUME Safe, KeysAreOwn, NEW c \in Calls, NEW x, call' = [call EXCEPT ![c] = x], OwnKey(x, c)
  PROVE  KeysAreOwn'
<1>1. \A d \in Calls : call'[d] = IF d = c THEN x ELSE call[d]
  BY DEF Safe, Typed, TypeOK
<1> QED
  BY <1>1 DEF KeysAreOwn, OwnKey

LEMMA ResumeGrounds ==
  ASSUME Safe, Grounds, NEW c \in Calls, Resume(c)
  PROVE  Grounds'
<1>1. call \in [Calls -> CallState] /\ call[c] \in CallState
  BY DEF Safe, Typed, TypeOK
<1>2. ASSUME NEW x, call' = [call EXCEPT ![c] = x], x.pc # "review" \/ OwnKey(x, c),
             CacheShrinks, reviewed' = reviewed
      PROVE  Grounds'
  BY <1>2, ShrinkGrounded, CallsOwnKeys DEF Grounds, OwnKey
<1>3. ASSUME Block(c), CacheShrinks, reviewed' = reviewed PROVE Grounds'
  BY <1>1, <1>2, <1>3, MovesFields DEF Block
<1>4. ASSUME NEW way \in Ways, LetThrough(c, way), CacheShrinks, reviewed' = reviewed PROVE Grounds'
  <2>1. Passing(call[c], way).pc = "verify"
    BY <1>1, MovesFields
  <2> QED
    BY <1>2, <1>4, <2>1 DEF LetThrough
<1>5. ASSUME NEW st, Fallback(c, st), CacheShrinks, reviewed' = reviewed PROVE Grounds'
  BY <1>3, <1>4, <1>5 DEF Fallback, Ways
<1>6. UNCHANGED maps => CacheShrinks
  BY MapsShrink
<1>7. CASE Decide(c)
  <2>1. ASSUME NEW verdict, StaticDeny(c, verdict) PROVE Grounds'
    BY <1>3, <1>6, <2>1 DEF StaticDeny
  <2>2. ASSUME NEW verdict, UseApproval(c, verdict) PROVE Grounds'
    <3>1. \A ids : Granted(call[c], ids).pc = "verify"
      BY <1>1, MovesFields
    <3> QED
      BY <1>2, <1>6, <2>2, <3>1 DEF UseApproval
  <2>3. ASSUME NEW verdict, StaticAllow(c, verdict) PROVE Grounds'
    BY <1>4, <1>6, <2>3 DEF StaticAllow, Ways
  <2>4. ASSUME NEW verdict, NEW view \in Views, CachedAllow(c, verdict, view) PROVE Grounds'
    <3>1. Seeing(Passing(call[c], "cache"), view).pc = "verify"
      BY <1>1, MovesFields DEF Ways
    <3> QED
      BY <1>2, <1>6, <2>4, <3>1 DEF CachedAllow
  <2>5. ASSUME NEW verdict, NEW view \in Views, StartReview(c, verdict, view) PROVE Grounds'
    <3>1. CacheShrinks /\ reviewed' = reviewed
      BY <2>5, MapsShrink DEF StartReview
    <3>2. CASE Fallback(c, Consume(Discard(Mine(c)), c))
      BY <1>5, <3>1, <3>2
    <3>3. ASSUME NEW rej, NEW fail,
                 call' = [call EXCEPT ![c] = Reviewing(Seeing(call[c], view), rej, fail, CacheKey(c, view))]
          PROVE  Grounds'
      <4> DEFINE key == CacheKey(c, view)
                 y   == Seeing(call[c], view)
                 x   == Reviewing(y, rej, fail, key)
      <4>1. y \in CallState /\ y.view = {view} /\ y.cmd = call[c].cmd
        BY <1>1, CallRecordType DEF Seeing, CallState
      <4>2. \A k \in key : /\ ~Strict /\ view \notin Uninspected /\ k.view = view
                           /\ k.sid = SessionOf[c] /\ k.form = NormalForm[call[c].cmd]
        BY DEF CacheKey
      <4> HIDE DEF key, y
      <4>3. x.key = key /\ x.view = y.view /\ x.cmd = y.cmd
        BY <4>1 DEF Reviewing, CallState
      <4>4. call' = [call EXCEPT ![c] = x]
        BY <3>3 DEF key, y
      <4> HIDE DEF x
      <4>5. OwnKey(x, c)
        BY <4>1, <4>2, <4>3 DEF OwnKey
      <4> QED
        BY <1>2, <3>1, <4>4, <4>5
    <3> QED
      BY <2>5, <3>2, <3>3 DEF StartReview
  <2> QED
    BY <1>7, <2>1, <2>2, <2>3, <2>4, <2>5 DEF Decide
<1>8. CASE ReviewReturns(c)
  <2> PICK reply \in Replies : \/ ReviewBypass(c, reply)
                               \/ ReviewDeny(c, reply)
                               \/ ReviewAllow(c, reply)
                               \/ ReviewFails(c, reply)
    BY <1>8 DEF ReviewReturns
  <2>1. CASE ReviewBypass(c, reply)
    <3>1. At(call[c], "abort").pc = "abort"
      BY <1>1, MovesFields
    <3> QED
      BY <1>2, <1>6, <2>1, <3>1 DEF ReviewBypass
  <2>2. CASE ReviewDeny(c, reply)
    BY <1>3, <1>6, <2>2 DEF ReviewDeny
  <2>3. CASE ReviewAllow(c, reply)
    <3>1. KeysAreOwn'
      <4>1. Passing(call[c], "review").pc = "verify"
        BY <1>1, MovesFields DEF Ways
      <4> QED
        BY <2>3, <4>1, CallsOwnKeys DEF ReviewAllow, LetThrough, OwnKey, Grounds
    <3>2. reviewed \subseteq reviewed'
      BY <2>3 DEF ReviewAllow
    <3>3. CASE call[c].key = {}
      BY <2>3, <3>1, <3>2, <3>3, ShrinkGrounded DEF ReviewAllow, CacheShrinks, Grounds
    <3>4. ASSUME NEW k \in call[c].key, CacheAllow(k) PROVE Grounds'
      <4>1. /\ ~Strict /\ k.view \notin Uninspected /\ call[c].view = {k.view}
            /\ k.sid = SessionOf[c] /\ k.form = NormalForm[call[c].cmd]
        BY <2>3, <3>4 DEF ReviewAllow, Grounds, KeysAreOwn, OwnKey
      <4>2. [sid |-> SessionOf[c], cmd |-> call[c].cmd, view |-> k.view, at |-> now] \in reviewed'
        BY <2>3, <4>1 DEF ReviewAllow
      <4>3. \A j \in Keys : IF j = k THEN cache'[j] = now + CacheTTL
                             ELSE cache'[j] \in {cache[j], Absent}
        BY <3>4 DEF CacheAllow
      <4>4. ASSUME NEW j \in Cached' PROVE Grounded(j)'
        <5>1. CASE j = k
          BY <4>1, <4>2, <4>3, <5>1 DEF Grounded, Cached
        <5>2. CASE j # k
          <6>1. j \in Cached /\ cache'[j] = cache[j]
            BY <4>3, <4>4, <5>2 DEF Cached
          <6> QED
            BY <3>2, <6>1 DEF Grounds, CacheGrounded, Grounded
        <5> QED
          BY <5>1, <5>2
      <4> QED
        BY <3>1, <4>4 DEF Grounds, CacheGrounded
    <3> QED
      BY <2>3, <3>3, <3>4 DEF ReviewAllow
  <2>4. CASE ReviewFails(c, reply)
    BY <1>5, <1>6, <2>4 DEF ReviewFails
  <2> QED
    BY <2>1, <2>2, <2>3, <2>4
<1>9. CASE AbortReturns(c) \/ ClassifierThrows(c) \/ Verify(c)
  <2>1. At(Over(call[c]), "thrown").pc = "thrown" /\ At(Over(call[c]), "allowed").pc = "allowed"
    BY <1>1, MovesFields
  <2>2. CASE AbortReturns(c) \/ VerifyFails(c)
    BY <1>3, <1>6, <2>2 DEF AbortReturns, VerifyFails
  <2>3. CASE ClassifierThrows(c) \/ VerifyPasses(c)
    BY <1>2, <1>6, <2>1, <2>3 DEF ClassifierThrows, VerifyPasses
  <2> QED
    BY <1>9, <2>2, <2>3 DEF Verify
<1> QED
  BY <1>7, <1>8, <1>9 DEF Resume

LEMMA NextGrounds ==
  ASSUME Safe, Grounds, [Next]_vars
  PROVE  Grounds'
<1>1. call \in [Calls -> CallState]
  BY DEF Safe, Typed, TypeOK
<1>2. ASSUME NEW c \in Calls, NEW x, call' = [call EXCEPT ![c] = x], x.pc # "review",
             NEW s \in Sessions, NEW o \in Objs, GetSession(s, o, Reachable), reviewed' = reviewed
      PROVE  Grounds'
  BY <1>2, MapsShrink, ShrinkGrounded, CallsOwnKeys DEF Grounds, OwnKey
<1>3. ASSUME NEW c \in Calls, NEW cmd \in Commands, Begin(c, cmd) PROVE Grounds'
  <2>1. Given(call[c], cmd) \in CallState
    BY <1>1, CallRecordType
  <2>2. PICK x : call' = [call EXCEPT ![c] = x] /\ x.pc \in {"blocked", "classify"}
    BY <1>3, <2>1, MovesFields DEF Begin
  <2>3. \E o \in Objs : GetSession(SessionOf[c], o, Reachable)
    BY <1>3 DEF Begin
  <2> QED
    BY <1>2, <1>3, <2>2, <2>3, InputAssumption DEF Begin
<1>4. ASSUME NEW c \in Calls, NEW exit, Finish(c, exit) PROVE Grounds'
  <2>1. call' = [call EXCEPT ![c] = At(call[c], "done")] /\ At(call[c], "done").pc = "done"
    BY <1>1, <1>4, MovesFields DEF Finish
  <2>2. \E o \in Objs : GetSession(SessionOf[c], o, Reachable)
    BY <1>4 DEF Finish
  <2> QED
    BY <1>2, <1>4, <2>1, <2>2, InputAssumption DEF Finish
<1>5. ASSUME call' = call, reviewed' = reviewed, CacheShrinks PROVE Grounds'
  BY <1>5, ShrinkGrounded DEF Grounds, KeysAreOwn, OwnKey
<1>6. ASSUME NEW f \in Confirms, \/ \E id \in Calls : \/ ConfirmRefused(f, id)
                                                     \/ ConfirmExpired(f, id)
                                                     \/ ConfirmAsk(f, id)
                                \/ ConfirmApproved(f)
                                \/ ConfirmDenied(f)
                                \/ ConfirmSuperseded(f)
      PROVE  Grounds'
  BY <1>5, <1>6, MapsShrink DEF ConfirmRefused, ConfirmExpired, ConfirmAsk, ConfirmApproved,
                               ConfirmDenied, ConfirmSuperseded
<1>7. ASSUME (\E s \in Sessions : SessionDeleted(s)) \/ Dispose \/ Tick \/ UNCHANGED vars
      PROVE  Grounds'
  BY <1>5, <1>7, MapsShrink DEF SessionDeleted, Dispose, Tick, vars, maps
<1> QED
  BY <1>3, <1>4, <1>6, <1>7, ResumeGrounds DEF Next

\* Whatever is let through from the cache, the reviewer allowed for the same session,
\* the same form of the command and the same view of its files, less than the
\* lifetime of an entry ago (index.ts:179-243).
THEOREM CacheIsHonest == Spec => CacheHonest
<1>1. ASSUME Safe, Grounds, [Next]_vars
      PROVE  [\A c \in Calls : Passes(c, "cache") =>
                \E r \in reviewed :
                  /\ r.sid = SessionOf[c]
                  /\ NormalForm[r.cmd] = NormalForm[call[c].cmd]
                  /\ call'[c].view = {r.view} /\ r.view \notin Uninspected
                  /\ now < r.at + CacheTTL]_vars
  <2> SUFFICES ASSUME NEW c \in Calls, Passes(c, "cache")
               PROVE  \E r \in reviewed :
                        /\ r.sid = SessionOf[c]
                        /\ NormalForm[r.cmd] = NormalForm[call[c].cmd]
                        /\ call'[c].view = {r.view} /\ r.view \notin Uninspected
                        /\ now < r.at + CacheTTL
    OBVIOUS
  <2>0. PICK verdict : \E view \in Views : CachedAllow(c, verdict, view)
    BY <1>1, PassesBy DEF LetThroughBy
  <2>1. PICK view \in Views : CachedAllow(c, verdict, view)
    BY <2>0
  <2>2. PICK k \in CacheKey(c, view) : cache[k] # Absent /\ cache[k] > now
    BY <2>1 DEF CachedAllow, Hit
  <2>3. /\ k.view = view /\ k.sid = SessionOf[c] /\ k.form = NormalForm[call[c].cmd]
        /\ k \in [sid : Sessions, form : Commands, view : Views]
    <3>1. call[c].cmd \in Commands
      BY <1>1, <2>1, CallTypes DEF CachedAllow, NeedsReview, InFlight
    <3> QED
      BY <2>2, <3>1, InputAssumption DEF CacheKey
  <2>4. Grounded(k)
    BY <1>1, <2>2, <2>3 DEF Grounds, CacheGrounded, Cached, Keys
  <2>5. call'[c].view = {view}
    <3>1. call[c] \in CallState /\ call \in [Calls -> CallState]
      BY <1>1 DEF Safe, Typed, TypeOK
    <3>2. Seeing(Passing(call[c], "cache"), view).view = {view}
      BY <3>1, MovesFields DEF Ways
    <3> QED
      BY <2>1, <3>1, <3>2 DEF CachedAllow
  <2>6. PICK r \in reviewed : /\ r.sid = k.sid /\ NormalForm[r.cmd] = k.form /\ r.view = k.view
                             /\ cache[k] = r.at + CacheTTL
    BY <2>4 DEF Grounded
  <2>7. now < r.at + CacheTTL /\ r.view \notin Uninspected
    BY <2>2, <2>4, <2>6 DEF Grounded
  <2> WITNESS r \in reviewed
  <2> QED
    BY <2>3, <2>5, <2>6, <2>7
<1>2. Init => Grounds
  BY DEF Init, StoreInit, Grounds, CacheGrounded, KeysAreOwn, OwnKey, Cached
<1>3. Safe /\ Grounds /\ [Next]_vars => Grounds'
  BY NextGrounds
<1> QED
  BY <1>1, <1>2, <1>3, AlwaysSafe, PTL DEF Spec, CacheHonest

-------------------------------------------------------------------------------
(* The hooks implement the ledger *)

\* A call holds no approval before the hook has looked for one.
Ungranted == \A c \in Calls : call[c].pc \in {"idle", "classify"} => call[c].grant = {}

\* Nothing happens to request i, except that it may be dropped.
Stands(i) ==
  /\ RanBy(i)' = RanBy(i)
  /\ HasPending(i)' => HasPending(i)
  /\ HasApproval(i)' => HasApproval(i)
  /\ call'[i].pc = "blocked" <=> call[i].pc = "blocked"

StaysOrDrops(i) ==
  \/ StageOf(i)' = StageOf(i)
  \/ StageOf(i) \in {"asked", "granted"} /\ StageOf(i)' = "void"

LedgerStep == L!LedgerNext /\ Ungranted'

\* A state object gets no new approval, and no request but that of call c, refused.
AddsOnly(old, st, c, x) ==
  /\ \A a \in st.approved : a \in old.approved
  /\ \A p \in st.pending : p \in old.pending \/ (p.id = c /\ x.pc = "blocked")

\* What is asked or approved was blocked before, and only one of the two; what let a
\* call through is neither.
LEMMA OnePlace ==
  ASSUME Safe, NEW i \in Calls
  PROVE  /\ HasPending(i) \/ HasApproval(i) \/ RanBy(i) # {} => call[i].pc = "blocked"
         /\ ~(HasPending(i) /\ HasApproval(i))
         /\ RanBy(i) # {} => ~HasPending(i) /\ ~HasApproval(i)
<1>1. HasPending(i) \/ HasApproval(i) => call[i].pc = "blocked"
  BY DEF HasPending, HasApproval, Safe, Requests, AllRaised, Raised
<1>2. ~(HasPending(i) /\ HasApproval(i))
  BY DEF HasPending, HasApproval, Safe, Requests, InOnePlace
<1>3. RanBy(i) # {} => call[i].pc = "blocked" /\ Gone(i)
  BY DEF RanBy, Safe, Requests, GrantsSpent
<1> QED
  BY <1>1, <1>2, <1>3 DEF Gone, HasPending, HasApproval

LEMMA StandsStage ==
  ASSUME Safe, NEW i \in Calls, Stands(i)
  PROVE  StaysOrDrops(i)
BY OnePlace DEF Stands, StaysOrDrops, StageOf

\* The ledger's step, from where each request stands before and after.
LEMMA LedgerMoves ==
  ASSUME NEW i \in Calls, NEW to,
         StageOf(i)' = to, \A j \in Calls : j # i => StaysOrDrops(j)
  PROVE  L!OnlyTo(i, to)
BY DEF L!OnlyTo, L!Dropped, StaysOrDrops

LEMMA LedgerDrops ==
  ASSUME \A j \in Calls : StaysOrDrops(j), \A j \in Calls : RanBy(j)' = RanBy(j)
  PROVE  L!Drop
BY DEF L!Drop, L!Dropped, StaysOrDrops

LEMMA CommandsStay ==
  ASSUME Safe, Safe', \A c \in Calls : call[c].pc # "idle" => call'[c].cmd = call[c].cmd
  PROVE  L!CommandsStand
<1>1. \A c \in Calls : call'[c].cmd \in Commands \cup {Blank}
  BY DEF Safe, Typed, TypeOK, CallState
<1>2. ASSUME NEW c \in Calls, StageOf(c) # "none" \/ \E i \in Calls : c \in RanBy(i)
      PROVE  call'[c].cmd = call[c].cmd
  <2>1. CASE StageOf(c) # "none"
    <3>1. call[c].pc = "blocked"
      BY <2>1, OnePlace DEF StageOf
    <3> QED
      BY <3>1
  <2>2. CASE \E i \in Calls : c \in RanBy(i)
    <3>1. call[c].pc # "idle"
      BY <2>2 DEF RanBy, Safe, Requests, GrantsSpent
    <3> QED
      BY <3>1
  <2> QED
    BY <1>2, <2>1, <2>2
<1> QED
  BY <1>1, <1>2 DEF L!CommandsStand

\* Call c goes on, is refused, or is refused with a request.
LEMMA CallGoesOn ==
  ASSUME Safe, Safe', Ungranted, NEW c \in Calls, call[c].pc # "blocked",
         NEW o \in Objs, NEW st, heap' = [heap EXCEPT ![o] = st],
         NEW x, call' = [call EXCEPT ![c] = x], x.grant = call[c].grant,
         call[c].pc = "idle" \/ (x.cmd = call[c].cmd /\ x.pc \notin {"idle", "classify"}),
         AddsOnly(heap[o], st, c, x)
  PROVE  LedgerStep
<1>1. heap \in [Objs -> SessionState] /\ call \in [Calls -> CallState]
  BY DEF Safe, Typed, TypeOK, StoreTypeOK
<1>2. \A d \in Calls : call'[d] = IF d = c THEN x ELSE call[d]
  BY <1>1
<1>3. \A u \in Objs : heap'[u] = IF u = o THEN st ELSE heap[u]
  BY <1>1
<1>4. Ungranted'
  BY <1>2 DEF Ungranted
<1>5. L!CommandsStand
  BY <1>2, CommandsStay
<1>6. \A j \in Calls : RanBy(j)' = RanBy(j)
  BY <1>2 DEF RanBy
<1>7. \A j \in Calls : HasApproval(j)' => HasApproval(j)
  BY <1>3 DEF HasApproval, AddsOnly
<1>8. \A j \in Calls : j # c \/ x.pc # "blocked" => (HasPending(j)' => HasPending(j))
  BY <1>3 DEF HasPending, AddsOnly
<1>9. \A j \in Calls : j # c \/ x.pc # "blocked" => StaysOrDrops(j)
  BY <1>2, <1>6, <1>7, <1>8, StandsStage DEF Stands
<1>10. CASE x.pc # "blocked"
  BY <1>4, <1>5, <1>6, <1>9, <1>10, LedgerDrops DEF LedgerStep, L!LedgerNext
<1>11. CASE x.pc = "blocked"
  <2>1. StageOf(c) = "none" /\ RanBy(c) = {} /\ ~HasApproval(c)
    BY OnePlace DEF StageOf
  <2>2. StageOf(c)' \in {"asked", "void"}
    BY <1>2, <1>6, <1>7, <1>11, <2>1 DEF StageOf
  <2>3. L!OnlyTo(c, StageOf(c)')
    BY <1>9, LedgerMoves
  <2>4. L!OnlyTo(c, "asked") \/ L!OnlyTo(c, "void")
    BY <2>2, <2>3
  <2>5. L!Refuse(c)
    BY <1>6, <2>1, <2>4 DEF L!Refuse
  <2> QED
    BY <1>4, <1>5, <2>5 DEF LedgerStep, L!LedgerNext
<1> QED
  BY <1>10, <1>11

\* The calls stay where they are, and the objects lose requests at most.
LEMMA CallsStayLedger ==
  ASSUME Safe, Safe', Ungranted, call' = call,
         \A o \in Objs : /\ heap'[o].pending \subseteq heap[o].pending
                         /\ heap'[o].approved \subseteq heap[o].approved
  PROVE  LedgerStep
<1>1. L!CommandsStand
  BY CommandsStay
<1>2. \A j \in Calls : RanBy(j)' = RanBy(j)
  BY DEF RanBy
<1>3. \A j \in Calls : (HasApproval(j)' => HasApproval(j)) /\ (HasPending(j)' => HasPending(j))
  BY DEF HasApproval, HasPending
<1>4. \A j \in Calls : StaysOrDrops(j)
  BY <1>2, <1>3, StandsStage DEF Stands
<1>5. Ungranted'
  BY DEF Ungranted
<1> QED
  BY <1>1, <1>2, <1>4, <1>5, LedgerDrops DEF LedgerStep, L!LedgerNext

LEMMA PassingGrant ==
  ASSUME NEW x \in CallState, NEW way
  PROVE  Passing(x, way).grant = x.grant
<1>1. LocalsGone(x) \in CallState /\ LocalsGone(x).grant = x.grant
  BY CallRecordType DEF LocalsGone, CallState
<1> QED
  BY <1>1 DEF Passing, CallState

\* What a move leaves of a call's record.
LEMMA MovesKeep ==
  ASSUME NEW x \in CallState
  PROVE  /\ \A pc : At(x, pc).cmd = x.cmd /\ At(x, pc).grant = x.grant
         /\ \A pc : At(Over(x), pc).cmd = x.cmd /\ At(Over(x), pc).grant = x.grant
         /\ Blocked(x).cmd = x.cmd /\ Blocked(x).grant = x.grant
         /\ \A o : Started(x, o).grant = x.grant
         /\ \A way \in Ways : Passing(x, way).cmd = x.cmd /\ Passing(x, way).grant = x.grant
         /\ \A view : /\ \A rej, fail, key :
                          LET y == Reviewing(Seeing(x, view), rej, fail, key)
                          IN  y.cmd = x.cmd /\ y.grant = x.grant /\ y.pc = "review"
                      /\ LET y == Seeing(Passing(x, "cache"), view)
                         IN  y.cmd = x.cmd /\ y.grant = x.grant
         /\ \A ids : Granted(x, ids).cmd = x.cmd /\ Granted(x, ids).grant = ids
<1>1. LocalsGone(x) \in CallState /\ LocalsGone(x).cmd = x.cmd /\ LocalsGone(x).grant = x.grant
  BY CallRecordType DEF LocalsGone, CallState
<1>2. Over(x) \in CallState /\ Over(x).cmd = x.cmd /\ Over(x).grant = x.grant
  BY <1>1, CallRecordType DEF Over, CallState
<1>3. \A pc : At(x, pc).cmd = x.cmd /\ At(x, pc).grant = x.grant
  BY DEF At, CallState
<1>4. \A pc : At(Over(x), pc).cmd = x.cmd /\ At(Over(x), pc).grant = x.grant
  BY <1>2 DEF At, CallState
<1>5. \A o : Started(x, o).grant = x.grant
  BY DEF Started, CallState
<1>6. \A way \in Ways : /\ Passing(x, way).cmd = x.cmd /\ Passing(x, way).grant = x.grant
                       /\ Passing(x, way) \in CallState
  BY PassingGrant, PassingKeeps, CallMoveType
<1>7. ASSUME NEW view
      PROVE  /\ \A rej, fail, key :
                  LET y == Reviewing(Seeing(x, view), rej, fail, key)
                  IN  y.cmd = x.cmd /\ y.grant = x.grant /\ y.pc = "review"
             /\ LET y == Seeing(Passing(x, "cache"), view)
                IN  y.cmd = x.cmd /\ y.grant = x.grant
  <2> DEFINE z == Seeing(x, view)
  <2>1. DOMAIN z = DOMAIN x /\ z.cmd = x.cmd /\ z.grant = x.grant
        /\ {"pc", "rej", "fail", "key", "cmd", "grant"} \subseteq DOMAIN x
    BY DEF Seeing, CallState
  <2> HIDE DEF z
  <2>2. \A rej, fail, key :
          LET y == Reviewing(z, rej, fail, key)
          IN  y.cmd = x.cmd /\ y.grant = x.grant /\ y.pc = "review"
    BY <2>1 DEF Reviewing
  <2>3. LET y == Seeing(Passing(x, "cache"), view)
        IN  y.cmd = x.cmd /\ y.grant = x.grant
    <3>1. /\ Passing(x, "cache") \in CallState
          /\ Passing(x, "cache").cmd = x.cmd /\ Passing(x, "cache").grant = x.grant
      BY <1>6 DEF Ways
    <3> DEFINE w == Passing(x, "cache")
    <3>2. Seeing(w, view) = [w EXCEPT !.view = {view}]
      BY DEF Seeing
    <3> HIDE DEF w
    <3> QED
      BY <3>1, <3>2 DEF w, CallState
  <2> QED
    BY <2>2, <2>3 DEF z
<1>8. \A ids : Granted(x, ids).cmd = x.cmd /\ Granted(x, ids).grant = ids
  <2>1. Passing(x, "approval") \in CallState /\ Passing(x, "approval").cmd = x.cmd
    BY <1>6 DEF Ways
  <2> QED
    BY <2>1 DEF Granted, CallState
<1> QED
  BY <1>3, <1>4, <1>5, <1>6, <1>7, <1>8 DEF Blocked

LEMMA RefusedLedger ==
  ASSUME Safe, Safe', Ungranted, NEW c \in Calls, call[c].pc \in InFlight,
         NEW t, Write(c, t), t.approved \subseteq Mine(c).approved,
         \A p \in t.pending : p \in Mine(c).pending \/ p.id = c,
         NEW x, call' = [call EXCEPT ![c] = x],
         x.cmd = call[c].cmd, x.grant = call[c].grant, x.pc = "blocked"
  PROVE  LedgerStep
<1>1. call[c].obj \in Objs
  BY CallTypes
<1>2. AddsOnly(heap[call[c].obj], t, c, x)
  BY DEF AddsOnly, Mine
<1> QED
  BY <1>1, <1>2, CallGoesOn DEF Write, InFlight

LEMMA RefusalLedger ==
  ASSUME Safe, Safe', Ungranted, NEW c \in Calls, call[c].pc \in InFlight,
         NEW st \in {Mine(c), Consume(Discard(Mine(c)), c)},
         \/ Write(c, RecordRejection(st, call[c].cmd))
         \/ Write(c, RaiseRequest(st, c)),
         Block(c)
  PROVE  LedgerStep
<1> DEFINE x == Blocked(call[c])
<1>1. /\ Mine(c) \in SessionState /\ call[c] \in CallState
      /\ Discard(Mine(c)) \in SessionState
  BY CallTypes, DiscardType
<1>2. st \in SessionState /\ st.pending = Mine(c).pending /\ st.approved \subseteq Mine(c).approved
  BY <1>1, ConsumeType, OperationsKeep
<1>3. PICK t \in {RecordRejection(st, call[c].cmd), RaiseRequest(st, c)} : Write(c, t)
  OBVIOUS
<1>4. /\ t.approved = st.approved
      /\ \A p \in t.pending : p \in st.pending \/ p.id = c
  BY <1>2, OperationsKeep, RaiseRequestKeeps
<1>5. x.pc = "blocked" /\ x.cmd = call[c].cmd /\ x.grant = call[c].grant
  BY <1>1, MovesFields, MovesKeep
<1>6. call' = [call EXCEPT ![c] = x]
  BY DEF Block
<1>7. t.approved \subseteq Mine(c).approved /\ \A p \in t.pending : p \in Mine(c).pending \/ p.id = c
  BY <1>2, <1>4
<1> HIDE DEF x
<1> QED
  BY <1>3, <1>5, <1>6, <1>7, RefusedLedger

LEMMA PassLedger ==
  ASSUME Safe, Safe', Ungranted, NEW c \in Calls, call[c].pc \in InFlight,
         NEW st \in {Mine(c), Discard(Mine(c)), Consume(Discard(Mine(c)), c),
                     ClearAnswered(Mine(c), c), RecordRejection(Mine(c), call[c].cmd)},
         Write(c, st), NEW x, call' = [call EXCEPT ![c] = x],
         x.cmd = call[c].cmd, x.grant = call[c].grant, x.pc \notin {"idle", "classify"}
  PROVE  LedgerStep
<1>1. /\ Mine(c) \in SessionState /\ call[c].obj \in Objs
      /\ Discard(Mine(c)) \in SessionState
  BY CallTypes, DiscardType
<1>2. st.pending = Mine(c).pending /\ st.approved \subseteq Mine(c).approved
  BY <1>1, OperationsKeep
<1>3. AddsOnly(heap[call[c].obj], st, c, x)
  BY <1>2 DEF AddsOnly, Mine
<1> QED
  BY <1>1, <1>3, CallGoesOn DEF Write, InFlight

LEMMA FallbackLedger ==
  ASSUME Safe, Safe', Ungranted, NEW c \in Calls, call[c].pc \in InFlight,
         NEW st \in {Mine(c), Consume(Discard(Mine(c)), c)}, Fallback(c, st)
  PROVE  LedgerStep
<1>1. CASE Write(c, st) /\ LetThrough(c, "open")
  <2> DEFINE x == Passing(call[c], "open")
  <2>1. x.pc = "verify" /\ x.cmd = call[c].cmd /\ x.grant = call[c].grant
    BY CallTypes, MovesFields, MovesKeep DEF Ways
  <2>2. call' = [call EXCEPT ![c] = x]
    BY <1>1 DEF LetThrough
  <2> HIDE DEF x
  <2> QED
    BY <1>1, <2>1, <2>2, PassLedger
<1>2. CASE Block(c) /\ (Write(c, RecordRejection(st, call[c].cmd)) \/ Write(c, RaiseRequest(st, c)))
  BY <1>2, RefusalLedger
<1> QED
  BY <1>1, <1>2 DEF Fallback

\* The approval lets c through: the ledger's Run.
LEMMA UseApprovalLedger ==
  ASSUME Safe, Safe', Ungranted, NEW c \in Calls, NEW verdict, UseApproval(c, verdict)
  PROVE  LedgerStep
<1> DEFINE o   == call[c].obj
           st  == Spend(Mine(c))
           ids == {a.id : a \in Mine(c).approved}
           x   == Granted(call[c], ids)
<1>1. /\ call[c].pc = "classify" /\ call[c].pc \in InFlight
      /\ heap \in [Objs -> SessionState] /\ call \in [Calls -> CallState]
  BY DEF UseApproval, InFlight, Safe, Typed, TypeOK, StoreTypeOK
<1>2. Mine(c) \in SessionState /\ call[c] \in CallState /\ o \in Objs
  BY <1>1, CallTypes
<1>3. PICK a \in Mine(c).approved : a.cmd = call[c].cmd
  BY DEF UseApproval, Approves
<1>4. Mine(c).approved = {a} /\ a.id \in Calls
  <2>1. \A b \in Mine(c).approved : b = a
    BY <1>2, <1>3 DEF Safe, Requests, Single, Mine
  <2>2. a.id \in Calls
    BY <1>2, <1>3 DEF SessionState, Approval
  <2> QED
    BY <1>3, <2>1, <2>2
<1>5. ids = {a.id}
  BY <1>4
<1>6. st.approved = {} /\ st.pending = Mine(c).pending
  BY <1>2, OperationsKeep
<1>7. x.pc = "verify" /\ x.cmd = call[c].cmd /\ x.grant = ids
  <2> HIDE DEF ids
  <2> QED
    BY <1>2, MovesFields, MovesKeep
<1>8. heap' = [heap EXCEPT ![o] = st] /\ call' = [call EXCEPT ![c] = x]
  BY DEF UseApproval, Write
<1> HIDE DEF st, x, ids
<1>9. /\ \A d \in Calls : call'[d] = IF d = c THEN x ELSE call[d]
      /\ \A u \in Objs : heap'[u] = IF u = o THEN st ELSE heap[u]
  BY <1>1, <1>2, <1>8
<1> DEFINE i == a.id
<1>10. /\ HasApproval(i) /\ RanBy(i) = {} /\ StageOf(i) = "granted"
  <2>1. HasApproval(i)
    BY <1>2, <1>3 DEF HasApproval, Mine
  <2> QED
    BY <1>4, <2>1, OnePlace DEF StageOf
<1>11. call[i].cmd = call[c].cmd /\ SessionOf[i] = SessionOf[c]
  <2>1. Raised(a, heap[o].owner)
    BY <1>2, <1>3 DEF Safe, Requests, AllRaised, Mine
  <2>2. heap[o].owner = SessionOf[c]
    BY <1>2, StoreAssumption DEF Safe, Owned
  <2> QED
    BY <1>3, <2>1, <2>2 DEF Raised
<1>12. \A j \in Calls : RanBy(j)' = IF j = i THEN {c} ELSE RanBy(j)
  <2>1. call[c].grant = {}
    BY <1>1 DEF Ungranted
  <2>2. \A j \in Calls : j # i => RanBy(j)' = RanBy(j)
    BY <1>5, <1>7, <1>9, <2>1 DEF RanBy
  <2>3. RanBy(i)' = {c}
    BY <1>5, <1>7, <1>9, <1>10 DEF RanBy
  <2> QED
    BY <2>2, <2>3
<1>13. StageOf(i)' = "spent"
  BY <1>4, <1>12 DEF StageOf
<1>14. \A j \in Calls : j # i => StaysOrDrops(j)
  <2>1. \A j \in Calls : (HasApproval(j)' => HasApproval(j)) /\ (HasPending(j)' => HasPending(j))
    BY <1>6, <1>9 DEF HasApproval, HasPending, Mine
  <2>2. \A j \in Calls : call'[j].pc = "blocked" <=> call[j].pc = "blocked"
    BY <1>1, <1>7, <1>9
  <2> QED
    BY <1>12, <2>1, <2>2, StandsStage DEF Stands
<1>15. L!Run(i, c)
  <2>1. L!OnlyTo(i, "spent")
    BY <1>4, <1>13, <1>14, LedgerMoves
  <2> HIDE DEF i
  <2>2. i \in Calls
    BY <1>4 DEF i
  <2> QED
    BY <1>10, <1>11, <1>12, <2>1, <2>2 DEF L!Run
<1>16. L!CommandsStand
  BY <1>7, <1>9, CommandsStay
<1>17. Ungranted'
  BY <1>7, <1>9 DEF Ungranted
<1> QED
  BY <1>4, <1>15, <1>16, <1>17 DEF LedgerStep, L!LedgerNext

LEMMA StartReviewLedger ==
  ASSUME Safe, Safe', Ungranted, NEW c \in Calls, NEW verdict, NEW view,
         StartReview(c, verdict, view)
  PROVE  LedgerStep
<1> DEFINE st0 == Discard(Mine(c))
           st  == Consume(st0, c)
           x   == Reviewing(Seeing(call[c], view), RejectionAtStart(st0), FailureAtStart(st0),
                            CacheKey(c, view))
<1>1. call[c].pc \in InFlight /\ call[c] \in CallState
  BY CallTypes DEF StartReview, NeedsReview, InFlight
<1>2. CASE Write(c, st) /\ call' = [call EXCEPT ![c] = x]
  <2>1. x.cmd = call[c].cmd /\ x.grant = call[c].grant /\ x.pc = "review"
    <3> HIDE DEF st0
    <3> QED
      BY <1>1, MovesKeep
  <2> HIDE DEF x
  <2> QED
    BY <1>1, <1>2, <2>1, PassLedger
<1>3. CASE Fallback(c, st)
  BY <1>1, <1>3, FallbackLedger
<1> QED
  BY <1>2, <1>3 DEF StartReview

LEMMA DecideLedger ==
  ASSUME Safe, Safe', Ungranted, NEW c \in Calls, Decide(c)
  PROVE  LedgerStep
<1>1. ASSUME NEW verdict, StaticDeny(c, verdict) PROVE LedgerStep
  BY <1>1, RefusalLedger DEF StaticDeny, InFlight
<1>2. ASSUME NEW x, Write(c, Discard(Mine(c))), call' = [call EXCEPT ![c] = x],
             call[c].pc = "classify", x.cmd = call[c].cmd, x.grant = call[c].grant,
             x.pc = "verify"
      PROVE  LedgerStep
  BY <1>2, PassLedger DEF InFlight
<1>3. ASSUME NEW verdict, StaticAllow(c, verdict) PROVE LedgerStep
  <2> DEFINE x == Passing(call[c], "static")
  <2>1. /\ Write(c, Discard(Mine(c))) /\ call' = [call EXCEPT ![c] = x]
        /\ call[c].pc = "classify" /\ call[c] \in CallState
    BY <1>3, CallTypes DEF StaticAllow, LetThrough, InFlight
  <2>2. x.pc = "verify" /\ x.cmd = call[c].cmd /\ x.grant = call[c].grant
    BY <2>1, MovesFields, MovesKeep DEF Ways
  <2> HIDE DEF x
  <2> QED
    BY <1>2, <2>1, <2>2
<1>4. ASSUME NEW verdict, NEW view \in Views, CachedAllow(c, verdict, view) PROVE LedgerStep
  <2> DEFINE x == Seeing(Passing(call[c], "cache"), view)
  <2>1. /\ Write(c, Discard(Mine(c))) /\ call' = [call EXCEPT ![c] = x]
        /\ call[c].pc = "classify" /\ call[c] \in CallState
    BY <1>4, CallTypes DEF CachedAllow, NeedsReview, InFlight
  <2>2. x.pc = "verify"
    BY <2>1, MovesFields DEF Ways
  <2>3. x.cmd = call[c].cmd /\ x.grant = call[c].grant
    BY <2>1, MovesKeep
  <2> HIDE DEF x
  <2> QED
    BY <1>2, <2>1, <2>2, <2>3
<1> QED
  BY <1>1, <1>3, <1>4, UseApprovalLedger, StartReviewLedger DEF Decide

LEMMA ReviewReturnsLedger ==
  ASSUME Safe, Safe', Ungranted, NEW c \in Calls, ReviewReturns(c)
  PROVE  LedgerStep
<1> PICK reply \in Replies : \/ ReviewBypass(c, reply)
                             \/ ReviewDeny(c, reply)
                             \/ ReviewAllow(c, reply)
                             \/ ReviewFails(c, reply)
  BY DEF ReviewReturns
<1>1. call[c].pc \in InFlight /\ call[c] \in CallState
  BY CallTypes DEF ReviewBypass, ReviewDeny, ReviewAllow, ReviewFails, InFlight
<1>2. CASE ReviewBypass(c, reply)
  <2> DEFINE x == At(call[c], "abort")
  <2>1. x.pc = "abort" /\ x.cmd = call[c].cmd /\ x.grant = call[c].grant
    BY <1>1, MovesFields, MovesKeep
  <2>2. Write(c, RecordRejection(Mine(c), call[c].cmd)) /\ call' = [call EXCEPT ![c] = x]
    BY <1>2 DEF ReviewBypass
  <2> HIDE DEF x
  <2> QED
    BY <1>1, <2>1, <2>2, PassLedger
<1>3. CASE ReviewDeny(c, reply)
  BY <1>1, <1>3, RefusalLedger DEF ReviewDeny
<1>4. CASE ReviewAllow(c, reply)
  <2> DEFINE x == Passing(call[c], "review")
  <2>1. x.pc = "verify" /\ x.cmd = call[c].cmd /\ x.grant = call[c].grant
    BY <1>1, MovesFields, MovesKeep DEF Ways
  <2>2. Write(c, ClearAnswered(Mine(c), c)) /\ call' = [call EXCEPT ![c] = x]
    BY <1>4 DEF ReviewAllow, LetThrough
  <2> HIDE DEF x
  <2> QED
    BY <1>1, <2>1, <2>2, PassLedger
<1>5. CASE ReviewFails(c, reply)
  BY <1>1, <1>5, FallbackLedger DEF ReviewFails
<1> QED
  BY <1>2, <1>3, <1>4, <1>5

LEMMA SettleLedger ==
  ASSUME Safe, Safe', Ungranted, NEW c \in Calls,
         AbortReturns(c) \/ ClassifierThrows(c) \/ Verify(c)
  PROVE  LedgerStep
<1>1. call[c].pc \in InFlight /\ call[c] \in CallState
      /\ heap = [heap EXCEPT ![call[c].obj] = Mine(c)]
  BY CallTypes DEF AbortReturns, ClassifierThrows, Verify, VerifyPasses, VerifyFails, InFlight
<1>2. CASE VerifyFails(c)
  BY <1>1, <1>2, RefusalLedger DEF VerifyFails
<1>3. ASSUME NEW x, heap' = heap, call' = [call EXCEPT ![c] = x],
             x.cmd = call[c].cmd, x.grant = call[c].grant,
             x.pc \in {"blocked", "thrown", "allowed"}
      PROVE  LedgerStep
  <2>1. Write(c, Mine(c))
    BY <1>1, <1>3 DEF Write
  <2> QED
    BY <1>1, <1>3, <2>1, PassLedger
<1>4. CASE AbortReturns(c)
  <2> DEFINE x == Blocked(call[c])
  <2>1. x.pc = "blocked" /\ x.cmd = call[c].cmd /\ x.grant = call[c].grant
    BY <1>1, MovesFields, MovesKeep
  <2>2. heap' = heap /\ call' = [call EXCEPT ![c] = x]
    BY <1>4 DEF AbortReturns, Block
  <2> HIDE DEF x
  <2> QED
    BY <1>3, <2>1, <2>2
<1>5. ASSUME NEW pc \in {"thrown", "allowed"}, heap' = heap,
             call' = [call EXCEPT ![c] = At(Over(@), pc)]
      PROVE  LedgerStep
  <2> DEFINE x == At(Over(call[c]), pc)
  <2>1. x.pc = pc /\ x.cmd = call[c].cmd /\ x.grant = call[c].grant
    BY <1>1, MovesFields, MovesKeep
  <2>2. call' = [call EXCEPT ![c] = x]
    BY <1>5
  <2> HIDE DEF x
  <2> QED
    BY <1>3, <1>5, <2>1, <2>2
<1>6. CASE ClassifierThrows(c) \/ VerifyPasses(c)
  BY <1>5, <1>6 DEF ClassifierThrows, VerifyPasses
<1> QED
  BY <1>2, <1>4, <1>6 DEF Verify

\* A hook that obtains the object of its session: it has the requests it had, or
\* is new and has none.
LEMMA ObtainedAdds ==
  ASSUME Safe, NEW c \in Calls, NEW o \in Objs, GetSession(SessionOf[c], o, Reachable),
         NEW st, NEW x,
         st.pending = Obtained(SessionOf[c], o).pending,
         st.approved = Obtained(SessionOf[c], o).approved
  PROVE  AddsOnly(heap[o], st, c, x)
<1> DEFINE s == SessionOf[c]
<1>1. heap[o] \in SessionState
  BY DEF Safe, Typed, TypeOK, StoreTypeOK
<1>2. \/ st.pending = heap[o].pending /\ st.approved = heap[o].approved
      \/ st.pending = {} /\ st.approved = {}
  <2>1. CASE s \in Live \ Stale
    BY <1>1, <2>1 DEF GetSession, Obtained, SessionState
  <2>2. CASE s \notin Live \ Stale
    BY <2>2 DEF GetSession, Obtained, Fresh
  <2> QED
    BY <2>1, <2>2
<1> QED
  BY <1>2 DEF AddsOnly

LEMMA BeginLedger ==
  ASSUME Safe, Safe', Ungranted, NEW c \in Calls, NEW cmd \in Commands, Begin(c, cmd)
  PROVE  LedgerStep
<1> DEFINE s == SessionOf[c]
<1>1. PICK o \in Objs :
        /\ GetSession(s, o, Reachable)
        /\ IF cmd = Blank
             THEN /\ heap' = [heap EXCEPT ![o] = RecordRejection(Obtained(s, o), cmd)]
                  /\ call' = [call EXCEPT ![c] = Blocked(Given(@, cmd))]
             ELSE /\ heap' = [heap EXCEPT ![o] = Obtained(s, o)]
                  /\ call' = [call EXCEPT ![c] = Started(Given(@, cmd), o)]
  BY DEF Begin
<1>2. Obtained(s, o) \in SessionState
  BY <1>1, GetSessionType, InputAssumption DEF Safe, Typed
<1>3. call[c] \in CallState /\ call[c].pc = "idle"
  BY DEF Begin, Safe, Typed, TypeOK
<1> DEFINE given == Given(call[c], cmd)
<1>4. given \in CallState /\ given.grant = call[c].grant
  BY <1>3, CallRecordType DEF Given, CallState
<1>5. CASE cmd = Blank
  <2> DEFINE x  == Blocked(given)
             st == RecordRejection(Obtained(s, o), cmd)
  <2>1. heap' = [heap EXCEPT ![o] = st] /\ call' = [call EXCEPT ![c] = x]
    BY <1>1, <1>5
  <2>2. st.pending = Obtained(s, o).pending /\ st.approved = Obtained(s, o).approved
    BY <1>2, OperationsKeep
  <2>3. x.grant = call[c].grant
    <3> HIDE DEF given
    <3> QED
      BY <1>4, MovesKeep
  <2> HIDE DEF x, st
  <2>4. AddsOnly(heap[o], st, c, x)
    BY <1>1, <2>2, ObtainedAdds
  <2> QED
    BY <1>3, <2>1, <2>3, <2>4, CallGoesOn
<1>6. CASE cmd # Blank
  <2> DEFINE x  == Started(given, o)
             st == Obtained(s, o)
  <2>1. heap' = [heap EXCEPT ![o] = st] /\ call' = [call EXCEPT ![c] = x]
    BY <1>1, <1>6
  <2>2. x.grant = call[c].grant
    <3> HIDE DEF given
    <3> QED
      BY <1>4, MovesKeep
  <2>3. st.pending = Obtained(s, o).pending /\ st.approved = Obtained(s, o).approved
    OBVIOUS
  <2> HIDE DEF x, st
  <2>4. AddsOnly(heap[o], st, c, x)
    BY <1>1, <2>3, ObtainedAdds
  <2> QED
    BY <1>3, <2>1, <2>2, <2>4, CallGoesOn
<1> QED
  BY <1>5, <1>6

LEMMA FinishLedger ==
  ASSUME Safe, Safe', Ungranted, NEW c \in Calls, NEW exit \in Exits, Finish(c, exit)
  PROVE  LedgerStep
<1> DEFINE s == SessionOf[c]
           x == At(call[c], "done")
<1>1. PICK o \in Objs :
        /\ GetSession(s, o, Reachable)
        /\ heap' = [heap EXCEPT ![o] = Reported(Obtained(s, o), c, exit)]
  BY DEF Finish
<1>2. Obtained(s, o) \in SessionState
  BY <1>1, GetSessionType, InputAssumption DEF Safe, Typed
<1> DEFINE st == Reported(Obtained(s, o), c, exit)
<1>3. st.pending = Obtained(s, o).pending /\ st.approved = Obtained(s, o).approved
  BY <1>2, OperationsKeep DEF Reported
<1>4. /\ call[c] \in CallState /\ call[c].pc = "allowed"
      /\ call' = [call EXCEPT ![c] = x] /\ heap' = [heap EXCEPT ![o] = st]
  BY <1>1 DEF Finish, Safe, Typed, TypeOK
<1>5. x.pc = "done" /\ x.cmd = call[c].cmd /\ x.grant = call[c].grant
  BY <1>4, MovesFields, MovesKeep
<1> HIDE DEF x, st
<1>6. AddsOnly(heap[o], st, c, x)
  BY <1>1, <1>3, ObtainedAdds
<1> QED
  BY <1>4, <1>5, <1>6, CallGoesOn

\* The user's yes: the ledger's Grant.
LEMMA ConfirmApprovedLedger ==
  ASSUME Safe, Safe', Ungranted, NEW f \in Confirms, ConfirmApproved(f)
  PROVE  LedgerStep
<1> DEFINE o   == confirm[f].obj
           new == WithConsent(heap[o], confirm[f].ask)
<1>1. PICK q \in confirm[f].ask, p \in heap[o].pending :
        /\ o \in Objs /\ q \in Request /\ confirm[f].ask = {q}
        /\ p.id = q.id /\ heap[o].pending = {p}
  BY AskedIsPending DEF ConfirmApproved
<1>2. heap \in [Objs -> SessionState]
  BY DEF Safe, Typed, TypeOK, StoreTypeOK
<1>3. call' = call /\ heap' = [heap EXCEPT ![o] = new]
  BY DEF ConfirmApproved
<1>4. /\ new.pending = {} /\ new.approved = {ApprovalOf(q)}
      /\ ApprovalOf(q).id = q.id
  <2>1. new = [heap[o] EXCEPT !.approved = {ApprovalOf(q)}, !.pending = {}]
    BY <1>1 DEF WithConsent
  <2>2. heap[o] \in SessionState
    BY <1>1, <1>2
  <2>3. ApprovalOf(q).id = q.id
    BY DEF ApprovalOf
  <2> HIDE DEF new
  <2> QED
    BY <2>1, <2>2, <2>3 DEF SessionState
<1> HIDE DEF new
<1>5. \A u \in Objs : heap'[u] = IF u = o THEN new ELSE heap[u]
  BY <1>1, <1>2, <1>3
<1> DEFINE i == q.id
<1>6. i \in Calls
  BY <1>1 DEF Request
<1>7. \A j \in Calls : RanBy(j)' = RanBy(j)
  BY <1>3 DEF RanBy
<1>8. HasPending(i) /\ StageOf(i) = "asked" /\ RanBy(i) = {}
  <2>1. HasPending(i)
    BY <1>1 DEF HasPending
  <2> QED
    BY <1>6, <2>1, OnePlace DEF StageOf
<1>9. StageOf(i)' = "granted"
  <2>1. HasApproval(i)'
    BY <1>1, <1>4, <1>5 DEF HasApproval
  <2> QED
    BY <1>6, <1>7, <1>8, <2>1 DEF StageOf
<1>10. \A j \in Calls : j # i => StaysOrDrops(j)
  <2>1. \A j \in Calls : j # i => (HasApproval(j)' => HasApproval(j))
    BY <1>4, <1>5 DEF HasApproval
  <2>2. \A j \in Calls : HasPending(j)' => HasPending(j)
    BY <1>4, <1>5 DEF HasPending
  <2> QED
    BY <1>3, <1>7, <2>1, <2>2, StandsStage DEF Stands
<1>11. L!OnlyTo(i, "granted")
  BY <1>6, <1>9, <1>10, LedgerMoves
<1> HIDE DEF i
<1>12. L!Grant(i)
  BY <1>6, <1>7, <1>8, <1>11 DEF L!Grant
<1>13. L!CommandsStand
  BY <1>3, CommandsStay
<1>14. Ungranted'
  BY <1>3 DEF Ungranted
<1> QED
  BY <1>6, <1>12, <1>13, <1>14 DEF LedgerStep, L!LedgerNext

LEMMA ConfirmLedger ==
  ASSUME Safe, Safe', Ungranted, NEW f \in Confirms,
         \/ \E id \in Calls : ConfirmRefused(f, id) \/ ConfirmExpired(f, id) \/ ConfirmAsk(f, id)
         \/ ConfirmApproved(f) \/ ConfirmDenied(f) \/ ConfirmSuperseded(f)
  PROVE  LedgerStep
<1>1. heap \in [Objs -> SessionState]
  BY DEF Safe, Typed, TypeOK, StoreTypeOK
<1>2. ASSUME NEW o \in Objs, heap' = [heap EXCEPT ![o] = Withdrawn(@)], call' = call
      PROVE  LedgerStep
  <2>1. Withdrawn(heap[o]).pending = {} /\ Withdrawn(heap[o]).approved = heap[o].approved
    BY <1>1 DEF Withdrawn, SessionState
  <2>2. \A u \in Objs : /\ heap'[u].pending \subseteq heap[u].pending
                        /\ heap'[u].approved \subseteq heap[u].approved
    BY <1>1, <1>2, <2>1
  <2> QED
    BY <1>2, <2>2, CallsStayLedger
<1>3. ASSUME NEW id \in Calls, ConfirmExpired(f, id) PROVE LedgerStep
  <2>1. Surviving(SessionOf[f]) \in Objs
    BY <1>3, InputAssumption DEF ConfirmExpired, Asked, Surviving, Safe, Typed, TypeOK, StoreTypeOK
  <2> QED
    BY <1>2, <1>3, <2>1 DEF ConfirmExpired
<1>4. CASE ConfirmDenied(f)
  <2>1. confirm[f].obj \in Objs
    BY <1>4, AskedIsPending DEF ConfirmDenied
  <2> QED
    BY <1>2, <1>4, <2>1 DEF ConfirmDenied
<1>5. ASSUME heap' = heap, call' = call PROVE LedgerStep
  BY <1>5, CallsStayLedger
<1>6. ASSUME NEW id \in Calls, ConfirmRefused(f, id) \/ ConfirmAsk(f, id) PROVE LedgerStep
  BY <1>5, <1>6 DEF ConfirmRefused, ConfirmAsk
<1>7. CASE ConfirmSuperseded(f)
  BY <1>5, <1>7 DEF ConfirmSuperseded
<1> QED
  BY <1>3, <1>4, <1>6, <1>7, ConfirmApprovedLedger

LEMMA NextLedger ==
  ASSUME Safe, Safe', Ungranted, [Next]_vars
  PROVE  LedgerStep
<1>1. ASSUME NEW c \in Calls, Resume(c) PROVE LedgerStep
  BY <1>1, DecideLedger, ReviewReturnsLedger, SettleLedger DEF Resume
<1>2. ASSUME heap' = heap, call' = call PROVE LedgerStep
  BY <1>2, CallsStayLedger
<1>3. ASSUME NEW s \in Sessions, SessionDeleted(s) PROVE LedgerStep
  BY <1>2, <1>3 DEF SessionDeleted
<1>4. CASE Dispose \/ Tick
  BY <1>2, <1>4 DEF Dispose, Tick
<1>5. CASE UNCHANGED vars
  BY <1>2, <1>5 DEF vars
<1>6. CASE Next
  <2>1. ASSUME NEW c \in Calls, \/ \E cmd \in Commands : Begin(c, cmd)
                               \/ Resume(c)
                               \/ \E exit \in Exits : Finish(c, exit)
        PROVE  LedgerStep
    BY <1>1, <2>1, BeginLedger, FinishLedger
  <2>2. ASSUME NEW f \in Confirms, \/ \E id \in Calls : \/ ConfirmRefused(f, id)
                                                       \/ ConfirmExpired(f, id)
                                                       \/ ConfirmAsk(f, id)
                                  \/ ConfirmApproved(f)
                                  \/ ConfirmDenied(f)
                                  \/ ConfirmSuperseded(f)
        PROVE  LedgerStep
    BY <2>2, ConfirmLedger
  <2> QED
    BY <1>3, <1>4, <1>6, <2>1, <2>2 DEF Next
<1> QED
  BY <1>5, <1>6

LEMMA InitLedger ==
  ASSUME Init
  PROVE  Safe /\ Ungranted /\ L!LedgerInit
<1>1. Safe /\ Ungranted
  BY InitSafe DEF Init, Ungranted
<1>2. \A i \in Calls : ~HasPending(i) /\ ~HasApproval(i)
  BY DEF HasPending, HasApproval, Init, StoreInit, Fresh
<1>3. \A i \in Calls : RanBy(i) = {} /\ call[i].pc = "idle" /\ call[i].cmd = Blank
  BY DEF RanBy, Init
<1>4. \A i \in Calls : StageOf(i) = "none"
  BY <1>2, <1>3 DEF StageOf
<1> QED
  BY <1>1, <1>3, <1>4 DEF L!LedgerInit

\* What the hooks do to requests is what ApprovalLedger allows, for any number of
\* calls and confirmations in flight: a request is raised by a refusal, granted
\* by the user, used once by the same command of the same session, and never
\* comes back (index.ts:463-478, 609-633, 694-776).
THEOREM HooksKeepTheLedger == Spec => ImplementsLedger
<1>1. Init => L!LedgerInit /\ Ungranted
  BY InitLedger
<1>2. Safe /\ Safe' /\ Ungranted /\ [Next]_vars => [L!LedgerNext]_L!ledger /\ Ungranted'
  BY NextLedger DEF LedgerStep
<1> QED
  BY <1>1, <1>2, AlwaysSafe, PTL DEF Spec, ImplementsLedger, L!Ledger
=============================================================================

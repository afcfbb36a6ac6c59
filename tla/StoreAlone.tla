------------------------------- MODULE StoreAlone ------------------------------
(***************************************************************************)
(* The two maps of SessionStore under any caller: what the hooks may do to *)
(* them, in any order and for any session, without the hooks' own control. *)
(* It reaches fuller maps and longer lives than SessionGate can.           *)
(***************************************************************************)
EXTENDS SessionStore

CONSTANTS
  MaxTime, MaxVersion    \* bounds on the clock and on the work on an object, for TLC

VARIABLES
  since,    \* history: the sessions obtained since a session was last obtained
  left      \* history: a session's object as its hooks left it, if it has begun

storeVars == <<heap, maps, now, since, left>>

InMap == {sessions[s] : s \in Live}

\* getSessionState, at the start of a hook
Use(s) ==
  /\ UNCHANGED now
  /\ since' = [t \in Sessions |-> IF t = s THEN {} ELSE since[t] \cup {s}]
  /\ \E o \in Objs :
       /\ GetSession(s, o, InMap)
       /\ heap' = [heap EXCEPT ![o] = Obtained(s, o)]
       /\ left' = [left EXCEPT ![s] = {Obtained(s, o)}]

Advanced(o) == [heap[o] EXCEPT !.version = @ + 1, !.touchedAt = now]

\* nextGeneration, in a hook that got the object earlier: the object is touched but
\* the session keeps its place in the map.
Work(s) ==
  /\ s \in Live /\ heap[sessions[s]].version < MaxVersion
  /\ heap' = [heap EXCEPT ![sessions[s]] = Advanced(sessions[s])]
  /\ left' = [left EXCEPT ![s] = {Advanced(sessions[s])}]
  /\ UNCHANGED <<maps, now, since>>

Remember(k) == UNCHANGED <<heap, sessions, recency, now, since, left>> /\ CacheAllow(k)

Lookup(k) == DropExpired({k}) /\ UNCHANGED <<heap, sessions, recency, now, since, left>>

\* pruneSessionStates at the start of a confirmation
Prune == DropSessions(Stale) /\ UNCHANGED <<heap, now, since, left>>

Delete(s) ==
  /\ DropSessions({s}) /\ left' = [left EXCEPT ![s] = {}]
  /\ UNCHANGED <<heap, now, since>>

Dispose == Clear /\ left' = [s \in Sessions |-> {}] /\ UNCHANGED <<heap, now, since>>

Tick == now < MaxTime /\ now' = now + 1 /\ UNCHANGED <<heap, maps, since, left>>

StoreNext ==
  \/ \E s \in Sessions : Use(s) \/ Work(s) \/ Delete(s)
  \/ \E k \in Keys : Remember(k) \/ Lookup(k)
  \/ Prune \/ Dispose \/ Tick

AloneInit ==
  /\ StoreInit
  /\ since = [s \in Sessions |-> {}] /\ left = [s \in Sessions |-> {}]

StoreSpec == AloneInit /\ [][StoreNext]_storeVars

-------------------------------------------------------------------------------
\* A session that is dropped to make room was obtained before every session that
\* stays: a session in use is not lost to idle ones (index.ts:289-299).
EvictsIdlest ==
  [][\A u \in Live' : Use(u) =>
       LET lost == {s \in Live \ Stale : sessions'[s] = NoObj}
       IN  /\ lost # {} => Cardinality(Live \ Stale) >= MaxSessions
           /\ \A s \in lost : \A t \in Live \ Stale : t \notin lost => t \in since[s]]_storeVars

\* What a hook of session s finds is what the hooks of s left, whatever hooks of
\* others did to the map; or it finds a fresh object.  The latter when s was deleted or
\* sat idle for SessionTTL since anything touched its object, and else only when
\* MaxSessions other sessions were obtained since s was (index.ts:269-311).
WorkIsKept ==
  [][\A s \in Live' : Use(s) =>
       LET found == heap'[sessions'[s]]
           alive == {st \in left[s] : now < st.touchedAt + SessionTTL}
           kept  == {[st EXCEPT !.touchedAt = now] : st \in alive}
       IN  /\ found \in kept \cup {Fresh(s)}
           /\ alive # {} /\ Cardinality(since[s]) < MaxSessions => found \in kept]_storeVars

\* Adding an entry costs at most one entry that is still good, only when the
\* good ones fill the cache, and then the one added before all the others
\* (index.ts:233-243).
CacheEvictsOldest ==
  [][\A k \in Cached' : Remember(k) =>
       LET good == {j \in Cached : cache[j] > now}
           lost == {j \in good : cache'[j] = Absent}
       IN  /\ lost # {} => Cardinality(good) >= MaxCache
           /\ \A j \in lost : \A i \in good \ {j, k} : cache'[i] = cache[i] /\ <<j, i>> \in cacheOrder]_storeVars

\* Both maps keep within their limits, and what makes room is always what was used or
\* added the longest time ago (index.ts:233-243, 278-302).
RoomIsMade == []MapsBounded /\ EvictsIdlest /\ CacheEvictsOldest
===============================================================================

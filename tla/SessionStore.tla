------------------------------ MODULE SessionStore -----------------------------
(***************************************************************************)
(* The two maps of the plugin (src/src/index.ts): sessions, from session   *)
(* ids to SessionState objects, and dynamicAllowCache, from cache keys to  *)
(* expiry times.  Both are bounded, both expire, and dropping a session    *)
(* drops its cache entries.                                                *)
(*                                                                         *)
(* A hook that is waiting keeps a reference to its SessionState object     *)
(* after the map has dropped it, and a new object may be made for the same *)
(* session meanwhile.  So the objects live in a heap of their own and the  *)
(* map refers to them.                                                     *)
(*                                                                         *)
(* An optional field of the program is a set of at most one element here.  *)
(***************************************************************************)
EXTENDS InsertionOrder

CONSTANTS
  Sessions,        \* session ids
  Calls,           \* callIDs of the bash tool; a request is named after the call it blocked
  Commands,        \* a script with its canonical cwd, which is what commandFingerprint hashes
  Views,           \* what the classifier saw of a command's files (fingerprints, directories, rules)
  Objs,            \* addresses of SessionState objects
  NoObj,
  SessionTTL, CacheTTL,
  MaxSessions, MaxCache

ASSUME StoreAssumption ==
  /\ NoObj \notin Objs
  /\ Sessions # {}
  /\ SessionTTL \in Nat \ {0}
  /\ CacheTTL \in Nat \ {0}
  /\ MaxSessions \in Nat \ {0}
  /\ MaxCache \in Nat \ {0}

VARIABLES
  heap,         \* the SessionState objects, in the map or not
  sessions,     \* the sessions map
  recency,      \* its insertion order
  cache,        \* dynamicAllowCache: the time an entry expires, or Absent
  cacheOrder,   \* its insertion order
  now           \* Date.now()

maps == <<sessions, recency, cache, cacheOrder>>

Rejection == [cmd : Commands, gen : Nat]
Failure   == [gen : Nat, by : SUBSET Calls]
Request   == [id : Calls, gen : Nat, cmd : Commands, expiresAt : Nat]
Approval  == [id : Calls, gen : Nat, cmd : Commands]

\* owner is history: the session the object was made for.
SessionState ==
  [owner : Sessions, version : Nat, touchedAt : Nat,
   rejected : SUBSET Rejection, failed : SUBSET Failure,
   pending : SUBSET Request, approved : SUBSET Approval]

Keys   == [sid : Sessions, form : Commands, view : Views]
Absent == 0

StoreTypeOK ==
  /\ heap \in [Objs -> SessionState]
  /\ sessions \in [Sessions -> Objs \cup {NoObj}]
  /\ recency \subseteq Sessions \X Sessions
  /\ cache \in [Keys -> Nat]
  /\ cacheOrder \subseteq Keys \X Keys
  /\ now \in Nat

Live   == {s \in Sessions : sessions[s] # NoObj}
Cached == {k \in Keys : cache[k] # Absent}

\* { version: 0, touchedAt: now }
Fresh(s) ==
  [owner |-> s, version |-> 0, touchedAt |-> now,
   rejected |-> {}, failed |-> {}, pending |-> {}, approved |-> {}]

StoreInit ==
  /\ now = 0
  /\ heap = [o \in Objs |-> Fresh(CHOOSE s \in Sessions : TRUE)]
  /\ sessions = [s \in Sessions |-> NoObj]
  /\ recency = {}
  /\ cache = [k \in Keys |-> Absent]
  /\ cacheOrder = {}

\* What pruneSessionStates deletes.
Stale == {s \in Live : heap[sessions[s]].touchedAt + SessionTTL <= now}

EntriesOf_none(gone) == {}

\* The cache entries deleteSessionState removes with the sessions.
EntriesOf(gone) == {k \in Keys : k.sid \in gone}

Forget(gone) ==
  /\ cache' = [k \in Keys |-> IF k \in EntriesOf(gone) THEN Absent ELSE cache[k]]
  /\ cacheOrder' = Without(cacheOrder, EntriesOf(gone))

\* deleteSessionState of every session in gone.
DropSessions(gone) ==
  /\ sessions' = [s \in Sessions |-> IF s \in gone THEN NoObj ELSE sessions[s]]
  /\ recency' = Without(recency, gone)
  /\ Forget(gone)

Displaced_always(s) ==
  Stale \cup Overflow(Without(recency, Stale), Live \ Stale, MaxSessions)

\* What getSessionState(s) deletes: the stale sessions and, when s is not in
\* the map, the oldest ones while the map is full.
Displaced(s) ==
  IF s \in Live \ Stale
    THEN Stale
    ELSE Stale \cup Overflow(Without(recency, Stale), Live \ Stale, MaxSessions)

MovedToEnd_stays(s, gone) == Appended(Without(recency, gone), Live \ gone, s)

\* sessions.delete(s), sessions.set(s, state), once gone is deleted
MovedToEnd(s, gone) ==
  Appended(Without(recency, gone \cup {s}), Live \ (gone \cup {s}), s)

\* getSessionState(s) returns object o and moves s to the end of the map; a new
\* object is at an address out of use.
GetSession(s, o, used) ==
  LET gone == Displaced(s)
  IN  /\ IF s \in Live \ Stale THEN o = sessions[s] ELSE o \in Objs \ used
      /\ sessions' = [t \in Sessions |-> IF t = s THEN o
                                         ELSE IF t \in gone THEN NoObj ELSE sessions[t]]
      /\ recency' = MovedToEnd(s, gone)
      /\ Forget(gone)

\* The object as getSessionState(s) leaves it.
Obtained(s, o) ==
  IF s \in Live \ Stale THEN [heap[o] EXCEPT !.touchedAt = now] ELSE Fresh(s)

\* hasCachedDynamicAllow
Hit(key) == \E k \in key : cache[k] # Absent /\ cache[k] > now

\* hasCachedDynamicAllow deletes the expired entry it finds.
DropExpired(key) ==
  LET dead == {k \in key : cache[k] <= now}
  IN  /\ cache' = [k \in Keys |-> IF k \in dead THEN Absent ELSE cache[k]]
      /\ cacheOrder' = Without(cacheOrder, dead)

\* cacheDynamicAllow: purge what has expired, make room, set the entry.
CacheAllow(key) ==
  LET expired == {k \in Cached : cache[k] <= now}
      kept    == Cached \ expired
      evicted == Overflow(Without(cacheOrder, expired), kept, MaxCache)
      present == kept \ evicted
  IN  /\ cache' = [k \in Keys |-> IF k = key THEN now + CacheTTL
                                  ELSE IF k \in present THEN cache[k] ELSE Absent]
      /\ cacheOrder' = Appended(Without(cacheOrder, expired \cup evicted), present, key)

\* sessions.clear() and dynamicAllowCache.clear()
Clear ==
  /\ sessions' = [s \in Sessions |-> NoObj]
  /\ recency' = {}
  /\ cache' = [k \in Keys |-> Absent]
  /\ cacheOrder' = {}

-------------------------------------------------------------------------------
\* Both maps keep within their limits (index.ts:238, 289).
MapsBounded ==
  /\ Cardinality(Live) <= MaxSessions
  /\ Cardinality(Cached) <= MaxCache

\* When a session's object is dropped or replaced, by whichever of the five
\* paths, its cache entries go in the same step (index.ts:270-302, 676-679).
DropForgets ==
  [][\A s \in Live : sessions'[s] # sessions[s] =>
       \A k \in Keys : k.sid = s => cache'[k] = Absent]_<<sessions, cache>>
===============================================================================

--------------------------- MODULE StoreAlone_proofs ---------------------------
(***************************************************************************)
(* The store keeps its limits and drops what was idle the longest, for any *)
(* sessions, views, limits and lifetimes, and under any caller.            *)
(***************************************************************************)
EXTENDS StoreAlone, FiniteSetTheorems, TLAPS

-------------------------------------------------------------------------------
(* Insertion orders *)

\* order is a strict total order of S, and every part of S has a first element.
\* The last conjunct follows from the others for a finite S, by an induction;
\* an operation preserves it without one.
IsOrder(order, S) ==
  /\ order \subseteq S \X S
  /\ \A a, b \in S : <<a, b>> \in order => <<b, a>> \notin order
  /\ \A a, b \in S : a # b => <<a, b>> \in order \/ <<b, a>> \in order
  /\ \A a, b, c \in S : <<a, b>> \in order /\ <<b, c>> \in order => <<a, c>> \in order
  /\ \A T \in SUBSET S : T # {} => \E m \in T : \A j \in T \ {m} : <<m, j>> \in order

\* The keys of S inserted after k.
Behind(order, S, k) == {j \in S : <<k, j>> \in order}

LEMMA NothingOrdered ==
  IsOrder({}, {})
BY DEF IsOrder

LEMMA WithoutOrders ==
  ASSUME NEW S, NEW order, IsOrder(order, S), NEW gone
  PROVE  IsOrder(Without(order, gone), S \ gone)
<1> DEFINE rest == Without(order, gone)
<1>1. rest \subseteq (S \ gone) \X (S \ gone)
  BY DEF IsOrder, Without
<1>2. \A a, b \in S \ gone : <<a, b>> \in rest <=> <<a, b>> \in order
  BY DEF Without
<1> HIDE DEF rest
<1>3. \A T \in SUBSET (S \ gone) : T # {} => \E m \in T : \A j \in T \ {m} : <<m, j>> \in rest
  <2> SUFFICES ASSUME NEW T \in SUBSET (S \ gone), T # {}
               PROVE  \E m \in T : \A j \in T \ {m} : <<m, j>> \in rest
    OBVIOUS
  <2>1. PICK m \in T : \A j \in T \ {m} : <<m, j>> \in order
    BY DEF IsOrder
  <2> QED
    BY <1>2, <2>1
<1>4. \A a, b, c \in S \ gone : <<a, b>> \in rest /\ <<b, c>> \in rest => <<a, c>> \in rest
  BY <1>2 DEF IsOrder
<1>5. \A a, b \in S \ gone : /\ <<a, b>> \in rest => <<b, a>> \notin rest
                             /\ a # b => <<a, b>> \in rest \/ <<b, a>> \in rest
  BY <1>2 DEF IsOrder
<1> QED
  BY <1>1, <1>3, <1>4, <1>5 DEF IsOrder, rest

LEMMA AppendedOrders ==
  ASSUME NEW S, NEW order, IsOrder(order, S), NEW k
  PROVE  IsOrder(Appended(order, S, k), S \cup {k})
<1>1. CASE k \in S
  <2>1. S \cup {k} = S /\ Appended(order, S, k) = order
    BY <1>1 DEF Appended
  <2> QED
    BY <2>1
<1>2. CASE k \notin S
  <2> DEFINE all == S \cup {k}
             more == order \cup (S \X {k})
  <2>1. Appended(order, S, k) = more
    BY <1>2 DEF Appended
  <2>2. more \subseteq all \X all
    BY DEF IsOrder
  <2>3. \A a, b \in all : <<a, b>> \in more <=> \/ a \in S /\ b \in S /\ <<a, b>> \in order
                                                \/ a \in S /\ b = k
    BY <1>2 DEF IsOrder
  <2> HIDE DEF more
  <2>4. \A a, b \in all : /\ <<a, b>> \in more => <<b, a>> \notin more
                          /\ a # b => <<a, b>> \in more \/ <<b, a>> \in more
    BY <1>2, <2>3 DEF IsOrder
  <2>5. \A a, b, c \in all : <<a, b>> \in more /\ <<b, c>> \in more => <<a, c>> \in more
    BY <1>2, <2>3 DEF IsOrder
  <2>6. \A T \in SUBSET all : T # {} => \E m \in T : \A j \in T \ {m} : <<m, j>> \in more
    <3> SUFFICES ASSUME NEW T \in SUBSET all, T # {}
                 PROVE  \E m \in T : \A j \in T \ {m} : <<m, j>> \in more
      OBVIOUS
    <3>1. CASE T \ {k} = {}
      BY <3>1
    <3>2. CASE T \ {k} # {}
      <4>1. T \ {k} \in SUBSET S
        OBVIOUS
      <4>2. PICK m \in T \ {k} : \A j \in (T \ {k}) \ {m} : <<m, j>> \in order
        BY <3>2, <4>1 DEF IsOrder
      <4>3. \A j \in T \ {m} : <<m, j>> \in more
        BY <2>3, <4>1, <4>2
      <4> QED
        BY <4>2, <4>3
    <3> QED
      BY <3>1, <3>2
  <2> QED
    BY <2>1, <2>2, <2>4, <2>5, <2>6 DEF IsOrder
<1> QED
  BY <1>1, <1>2

-------------------------------------------------------------------------------
(* What goes to make room *)

\* A key goes when it and the keys behind it are limit or more.
LEMMA OverflowCounts ==
  ASSUME NEW S, NEW order, NEW limit, IsFiniteSet(S), NEW k \in S
  PROVE  /\ k \in Overflow(order, S, limit) <=> Cardinality(Behind(order, S, k)) + 1 >= limit
         /\ IsFiniteSet(Behind(order, S, k))
         /\ Cardinality(Behind(order, S, k)) \in Nat
<1>1. Behind(order, S, k) \in SUBSET S
  BY DEF Behind
<1>2. IsFiniteSet(Behind(order, S, k))
  BY <1>1, FS_Subset, Zenon
<1>3. Cardinality(Behind(order, S, k)) \in Nat
  BY <1>2, FS_CardinalityType, Zenon
<1>4. k \in Overflow(order, S, limit) <=> Cardinality(Behind(order, S, k)) + 1 >= limit
  BY Zenon DEF Overflow, Behind
<1> QED
  BY <1>2, <1>3, <1>4

\* What is left is below the limit.
LEMMA OverflowMakesRoom ==
  ASSUME NEW S, NEW order, NEW limit \in Nat \ {0}, IsFiniteSet(S), IsOrder(order, S)
  PROVE  Cardinality(S \ Overflow(order, S, limit)) + 1 <= limit
<1> DEFINE kept == S \ Overflow(order, S, limit)
<1>1. IsFiniteSet(kept)
  BY FS_Subset, Zenon, kept \in SUBSET S
<1>2. CASE kept = {}
  <2>1. Cardinality(kept) = 0
    BY <1>2, FS_EmptySet, Zenon
  <2> QED
    BY <2>1
<1>3. CASE kept # {}
  <2>1. PICK m \in kept : \A j \in kept \ {m} : <<m, j>> \in order
    BY <1>3, kept \in SUBSET S DEF IsOrder
  <2>2. kept \ {m} \in SUBSET Behind(order, S, m)
    BY <2>1 DEF Behind
  <2>3. /\ IsFiniteSet(Behind(order, S, m))
        /\ Cardinality(Behind(order, S, m)) \in Nat
        /\ ~ (Cardinality(Behind(order, S, m)) + 1 >= limit)
    BY <2>1, OverflowCounts
  <2>4. Cardinality(kept \ {m}) <= Cardinality(Behind(order, S, m))
    BY <2>2, <2>3, FS_Subset, Zenon
  <2>5. Cardinality(kept \ {m}) = Cardinality(kept) - 1
    BY <1>1, <2>1, FS_RemoveElement, Zenon
  <2>6. Cardinality(kept) \in Nat /\ Cardinality(kept \ {m}) \in Nat
    BY <1>1, FS_CardinalityType, FS_RemoveElement, Zenon
  <2> HIDE DEF kept
  <2>7. Cardinality(kept) + 1 <= limit
    BY <2>3, <2>4, <2>5, <2>6
  <2> QED
    BY <2>7 DEF kept
<1> QED
  BY <1>2, <1>3

\* Nothing goes while there is room.
LEMMA OverflowWhenFull ==
  ASSUME NEW S, NEW order, NEW limit \in Nat \ {0}, IsFiniteSet(S), IsOrder(order, S),
         NEW k \in Overflow(order, S, limit)
  PROVE  Cardinality(S) >= limit
<1>1. k \in S
  BY DEF Overflow
<1>2. Cardinality(Behind(order, S, k)) \in Nat /\ Cardinality(Behind(order, S, k)) + 1 >= limit
  BY <1>1, OverflowCounts
<1>3. Behind(order, S, k) \in SUBSET (S \ {k})
  BY <1>1 DEF Behind, IsOrder
<1>4. IsFiniteSet(S \ {k}) /\ Cardinality(S \ {k}) = Cardinality(S) - 1
  BY <1>1, FS_RemoveElement, Zenon
<1>5. Cardinality(Behind(order, S, k)) <= Cardinality(S \ {k})
  BY <1>3, <1>4, FS_Subset, Zenon
<1>6. Cardinality(S) \in Nat
  BY FS_CardinalityType, Zenon
<1> QED
  BY <1>2, <1>4, <1>5, <1>6

\* Fewer keys are behind a later key, by one at least.
LEMMA BehindShrinks ==
  ASSUME NEW S, NEW order, IsFiniteSet(S), IsOrder(order, S),
         NEW s \in S, NEW t \in S, <<s, t>> \in order
  PROVE  Cardinality(Behind(order, S, t)) + 1 <= Cardinality(Behind(order, S, s))
<1>1. /\ t \in Behind(order, S, s)
      /\ Behind(order, S, t) \in SUBSET (Behind(order, S, s) \ {t})
  BY DEF Behind, IsOrder
<1>2. /\ IsFiniteSet(Behind(order, S, s)) /\ Cardinality(Behind(order, S, s)) \in Nat
      /\ Cardinality(Behind(order, S, t)) \in Nat
  BY OverflowCounts
<1>3. /\ IsFiniteSet(Behind(order, S, s) \ {t})
      /\ Cardinality(Behind(order, S, s) \ {t}) = Cardinality(Behind(order, S, s)) - 1
  BY <1>1, <1>2, FS_RemoveElement, Zenon
<1>4. Cardinality(Behind(order, S, t)) <= Cardinality(Behind(order, S, s) \ {t})
  BY <1>1, <1>3, FS_Subset, Zenon
<1> QED
  BY <1>2, <1>3, <1>4

\* What goes was inserted before what stays.
LEMMA OldestGo ==
  ASSUME NEW S, NEW order, NEW limit \in Nat \ {0}, IsFiniteSet(S), IsOrder(order, S),
         NEW s \in Overflow(order, S, limit), NEW t \in S, t \notin Overflow(order, S, limit)
  PROVE  <<s, t>> \in order
<1>1. s \in S /\ s # t
  BY DEF Overflow
<1>2. /\ Cardinality(Behind(order, S, s)) \in Nat /\ Cardinality(Behind(order, S, s)) + 1 >= limit
      /\ Cardinality(Behind(order, S, t)) \in Nat /\ ~ (Cardinality(Behind(order, S, t)) + 1 >= limit)
  BY <1>1, OverflowCounts
<1>3. <<t, s>> \notin order
  <2> SUFFICES ASSUME <<t, s>> \in order PROVE FALSE
    OBVIOUS
  <2>1. Cardinality(Behind(order, S, s)) + 1 <= Cardinality(Behind(order, S, t))
    BY <1>1, BehindShrinks
  <2> QED
    BY <1>2, <2>1
<1> QED
  BY <1>1, <1>3 DEF IsOrder

\* A map within its limit loses one key.
LEMMA OneGoes ==
  ASSUME NEW S, NEW order, NEW limit \in Nat \ {0}, IsFiniteSet(S), IsOrder(order, S),
         Cardinality(S) <= limit,
         NEW s \in Overflow(order, S, limit), NEW t \in Overflow(order, S, limit)
  PROVE  s = t
<1>1. ASSUME NEW a \in Overflow(order, S, limit), NEW b \in Overflow(order, S, limit),
             <<a, b>> \in order
      PROVE  FALSE
  <2>1. a \in S /\ b \in S
    BY DEF Overflow
  <2>2. /\ Cardinality(Behind(order, S, b)) \in Nat /\ Cardinality(Behind(order, S, b)) + 1 >= limit
        /\ Cardinality(Behind(order, S, a)) \in Nat
    BY <2>1, OverflowCounts
  <2>3. Cardinality(Behind(order, S, b)) + 1 <= Cardinality(Behind(order, S, a))
    BY <1>1, <2>1, BehindShrinks
  <2>4. Behind(order, S, a) \in SUBSET (S \ {a})
    BY <2>1 DEF Behind, IsOrder
  <2>5. IsFiniteSet(S \ {a}) /\ Cardinality(S \ {a}) = Cardinality(S) - 1
    BY <2>1, FS_RemoveElement, Zenon
  <2>6. Cardinality(Behind(order, S, a)) <= Cardinality(S \ {a})
    BY <2>4, <2>5, FS_Subset, Zenon
  <2>7. Cardinality(S) \in Nat
    BY FS_CardinalityType, Zenon
  <2> QED
    BY <2>2, <2>3, <2>5, <2>6, <2>7
<1>2. s \in S /\ t \in S
  BY DEF Overflow
<1> QED
  BY <1>1, <1>2 DEF IsOrder

-------------------------------------------------------------------------------
(* The inductive invariant *)

\* What is behind a session in the map was obtained after it.
UsedInOrder == \A a, b \in Sessions : <<a, b>> \in recency => b \in since[a]

\* Each session in the map has an object of its own, as its hooks left it.
Begun == /\ \A s, t \in Live : sessions[s] = sessions[t] => s = t
         /\ \A s \in Live : left[s] = {heap[sessions[s]]}

\* What was touched within its lifetime and has few enough sessions after it is there.
Alive(s) == \E st \in left[s] : now < st.touchedAt + SessionTTL
Stays == \A s \in Sessions : Alive(s) /\ Cardinality(since[s]) < MaxSessions => s \in Live

HistoryTyped == /\ since \in [Sessions -> SUBSET Sessions]
                /\ \A s \in Sessions : IsFiniteSet(since[s])
                /\ left \in [Sessions -> SUBSET SessionState]

\* What the limits need of each map.
SessionsKept == IsFiniteSet(Live) /\ IsOrder(recency, Live) /\ Cardinality(Live) <= MaxSessions
CacheKept    == IsFiniteSet(Cached) /\ IsOrder(cacheOrder, Cached) /\ Cardinality(Cached) <= MaxCache

StoreInv ==
  /\ heap \in [Objs -> SessionState]
  /\ now \in Nat
  /\ sessions \in [Sessions -> Objs \cup {NoObj}]
  /\ SessionsKept
  /\ cache \in [Keys -> Nat]
  /\ CacheKept
  /\ HistoryTyped
  /\ UsedInOrder
  /\ Begun
  /\ Stays

\* Fewer keys of a map, in the order they had.
LEMMA FewerKept ==
  ASSUME NEW S, NEW order, NEW limit \in Nat \ {0}, NEW gone,
         IsFiniteSet(S), IsOrder(order, S), Cardinality(S) <= limit
  PROVE  /\ IsFiniteSet(S \ gone)
         /\ IsOrder(Without(order, gone), S \ gone)
         /\ Cardinality(S \ gone) <= limit
<1>1. S \ gone \in SUBSET S
  OBVIOUS
<1>2. /\ IsFiniteSet(S \ gone) /\ Cardinality(S \ gone) <= Cardinality(S)
      /\ Cardinality(S \ gone) \in Nat /\ Cardinality(S) \in Nat
  BY <1>1, FS_Subset, FS_CardinalityType, Zenon
<1> QED
  BY <1>2, WithoutOrders

\* One key more, where room was made.
LEMMA OneMoreKept ==
  ASSUME NEW S, NEW order, NEW limit \in Nat \ {0}, NEW k,
         IsFiniteSet(S), IsOrder(order, S), Cardinality(S) + 1 <= limit
  PROVE  /\ IsFiniteSet(S \cup {k})
         /\ IsOrder(Appended(order, S, k), S \cup {k})
         /\ Cardinality(S \cup {k}) <= limit
<1>1. /\ IsFiniteSet(S \cup {k})
      /\ Cardinality(S \cup {k}) = IF k \in S THEN Cardinality(S) ELSE Cardinality(S) + 1
      /\ Cardinality(S) \in Nat
  BY FS_AddElement, FS_CardinalityType, Zenon
<1> QED
  BY <1>1, AppendedOrders

-------------------------------------------------------------------------------
(* What the operations on the maps keep *)

\* Deleting keys from a map twice is deleting them at once.
LEMMA WithoutTwice ==
  ASSUME NEW order, NEW A, NEW B
  PROVE  Without(Without(order, A), B) = Without(order, A \cup B)
BY DEF Without

\* Deleting entries from the cache keeps it bounded and in order.
LEMMA CacheShrinks ==
  ASSUME StoreInv, NEW gone,
         cache' = [k \in Keys |-> IF k \in gone THEN Absent ELSE cache[k]],
         cacheOrder' = Without(cacheOrder, gone)
  PROVE  cache' \in [Keys -> Nat] /\ CacheKept'
<1>1. cache \in [Keys -> Nat]
  BY DEF StoreInv
<1>2. cache' \in [Keys -> Nat]
  BY <1>1 DEF Absent
<1>3. Cached' = Cached \ gone
  BY <1>1 DEF Cached
<1>4. MaxCache \in Nat \ {0}
  BY StoreAssumption
<1>5. IsFiniteSet(Cached) /\ IsOrder(cacheOrder, Cached) /\ Cardinality(Cached) <= MaxCache
  BY DEF StoreInv, CacheKept
<1>6. /\ IsFiniteSet(Cached \ gone) /\ IsOrder(Without(cacheOrder, gone), Cached \ gone)
      /\ Cardinality(Cached \ gone) <= MaxCache
  BY <1>4, <1>5, FewerKept
<1> QED
  BY <1>2, <1>3, <1>6 DEF CacheKept

\* What cacheDynamicAllow leaves before it sets the entry.
Good    == {j \in Cached : cache[j] > now}
Evicted == Overflow(Without(cacheOrder, Cached \ Good), Good, MaxCache)

LEMMA GoodKept ==
  ASSUME StoreInv
  PROVE  /\ IsFiniteSet(Good) /\ IsOrder(Without(cacheOrder, Cached \ Good), Good)
         /\ Cardinality(Good) <= MaxCache
         /\ IsFiniteSet(Good \ Evicted)
         /\ IsOrder(Without(cacheOrder, (Cached \ Good) \cup Evicted), Good \ Evicted)
         /\ Cardinality(Good \ Evicted) + 1 <= MaxCache
<1>1. MaxCache \in Nat \ {0}
  BY StoreAssumption
<1>2. Good = Cached \ (Cached \ Good)
  BY DEF Good
<1>3. IsFiniteSet(Cached) /\ IsOrder(cacheOrder, Cached) /\ Cardinality(Cached) <= MaxCache
  BY DEF StoreInv, CacheKept
<1>4. /\ IsFiniteSet(Good) /\ IsOrder(Without(cacheOrder, Cached \ Good), Good)
      /\ Cardinality(Good) <= MaxCache
  <2> DEFINE dead == Cached \ Good
  <2> HIDE DEF dead
  <2>1. /\ IsFiniteSet(Cached \ dead) /\ IsOrder(Without(cacheOrder, dead), Cached \ dead)
        /\ Cardinality(Cached \ dead) <= MaxCache
    BY <1>1, <1>3, FewerKept
  <2> QED
    BY <1>2, <2>1 DEF dead
<1>5. Cardinality(Good \ Evicted) + 1 <= MaxCache
  BY <1>1, <1>4, OverflowMakesRoom DEF Evicted
<1>6. IsFiniteSet(Good \ Evicted)
  BY <1>4, FS_Subset, Good \ Evicted \in SUBSET Good, Zenon
<1>7. IsOrder(Without(cacheOrder, (Cached \ Good) \cup Evicted), Good \ Evicted)
  <2>1. IsOrder(Without(Without(cacheOrder, Cached \ Good), Evicted), Good \ Evicted)
    BY <1>4, WithoutOrders
  <2> QED
    BY <2>1, WithoutTwice
<1> QED
  BY <1>4, <1>5, <1>6, <1>7

\* cacheDynamicAllow in these words.
LEMMA Remembered ==
  ASSUME StoreInv, NEW key \in Keys, CacheAllow(key)
  PROVE  /\ cache' = [k \in Keys |-> IF k = key THEN now + CacheTTL
                                     ELSE IF k \in Good \ Evicted THEN cache[k] ELSE Absent]
         /\ cacheOrder' = Appended(Without(cacheOrder, (Cached \ Good) \cup Evicted),
                                   Good \ Evicted, key)
<1>1. cache \in [Keys -> Nat] /\ now \in Nat
  BY DEF StoreInv
<1>2. {k \in Cached : cache[k] <= now} = Cached \ Good
  BY <1>1 DEF Good, Cached
<1>3. Cached \ (Cached \ Good) = Good
  BY DEF Good
<1> QED
  BY <1>2, <1>3 DEF CacheAllow, Evicted

LEMMA CacheGrows ==
  ASSUME StoreInv, NEW key \in Keys, CacheAllow(key)
  PROVE  cache' \in [Keys -> Nat] /\ CacheKept'
<1> DEFINE present == Good \ Evicted
<1>1. cache \in [Keys -> Nat] /\ now \in Nat /\ CacheTTL \in Nat \ {0}
  BY StoreAssumption DEF StoreInv
<1>2. /\ cache' = [k \in Keys |-> IF k = key THEN now + CacheTTL
                                  ELSE IF k \in present THEN cache[k] ELSE Absent]
      /\ cacheOrder' = Appended(Without(cacheOrder, (Cached \ Good) \cup Evicted), present, key)
  BY Remembered
<1>3. present \subseteq Cached
  BY DEF Good
<1>4. /\ IsFiniteSet(present) /\ Cardinality(present) + 1 <= MaxCache
      /\ IsOrder(Without(cacheOrder, (Cached \ Good) \cup Evicted), present)
  BY GoodKept
<1>5. MaxCache \in Nat \ {0}
  BY StoreAssumption
<1> HIDE DEF present
<1>6. cache' \in [Keys -> Nat]
  BY <1>1, <1>2 DEF Absent
<1>7. Cached' = present \cup {key}
  BY <1>1, <1>2, <1>3 DEF Cached, Absent
<1>8. /\ IsFiniteSet(present \cup {key})
      /\ IsOrder(Appended(Without(cacheOrder, (Cached \ Good) \cup Evicted), present, key),
                 present \cup {key})
      /\ Cardinality(present \cup {key}) <= MaxCache
  BY <1>4, <1>5, OneMoreKept
<1> QED
  BY <1>2, <1>6, <1>7, <1>8 DEF CacheKept

\* So does deleting sessions from their map.
LEMMA SessionsShrink ==
  ASSUME StoreInv, NEW gone,
         sessions' = [s \in Sessions |-> IF s \in gone THEN NoObj ELSE sessions[s]],
         recency' = Without(recency, gone)
  PROVE  sessions' \in [Sessions -> Objs \cup {NoObj}] /\ SessionsKept'
<1>1. sessions \in [Sessions -> Objs \cup {NoObj}]
  BY DEF StoreInv
<1>2. Live' = Live \ gone
  BY <1>1 DEF Live
<1>3. MaxSessions \in Nat \ {0}
  BY StoreAssumption
<1>4. IsFiniteSet(Live) /\ IsOrder(recency, Live) /\ Cardinality(Live) <= MaxSessions
  BY DEF StoreInv, SessionsKept
<1>5. /\ IsFiniteSet(Live \ gone) /\ IsOrder(Without(recency, gone), Live \ gone)
      /\ Cardinality(Live \ gone) <= MaxSessions
  BY <1>3, <1>4, FewerKept
<1> QED
  BY <1>1, <1>2, <1>5 DEF SessionsKept

\* The sessions that getSessionState finds in use.
Fit == Live \ Stale
Ousted == Overflow(Without(recency, Stale), Fit, MaxSessions)

LEMMA FitKept ==
  ASSUME StoreInv
  PROVE  IsFiniteSet(Fit) /\ IsOrder(Without(recency, Stale), Fit) /\ Cardinality(Fit) <= MaxSessions
<1>1. MaxSessions \in Nat \ {0}
  BY StoreAssumption
<1>2. IsFiniteSet(Live) /\ IsOrder(recency, Live) /\ Cardinality(Live) <= MaxSessions
  BY DEF StoreInv, SessionsKept
<1> QED
  BY <1>1, <1>2, FewerKept DEF Fit

LEMMA DisplacedIs ==
  ASSUME NEW s
  PROVE  Displaced(s) = IF s \in Fit THEN Stale ELSE Stale \cup Ousted
BY DEF Displaced, Fit, Ousted

\* getSessionState makes room for the session it returns.
LEMMA SessionsGrow ==
  ASSUME StoreInv, NEW s \in Sessions, NEW o, NEW used, GetSession(s, o, used)
  PROVE  /\ sessions' \in [Sessions -> Objs \cup {NoObj}]
         /\ o \in Objs
         /\ SessionsKept'
<1> DEFINE others == Live \ (Displaced(s) \cup {s})
<1>1. sessions \in [Sessions -> Objs \cup {NoObj}] /\ MaxSessions \in Nat \ {0} /\ NoObj \notin Objs
  BY StoreAssumption DEF StoreInv
<1>2. o \in Objs
  BY <1>1 DEF GetSession, Live
<1>3. sessions' = [t \in Sessions |-> IF t = s THEN o
                                      ELSE IF t \in Displaced(s) THEN NoObj ELSE sessions[t]]
  BY DEF GetSession
<1>4. sessions' \in [Sessions -> Objs \cup {NoObj}]
  BY <1>1, <1>2, <1>3
<1>5. Live' = others \cup {s}
  BY <1>1, <1>2, <1>3 DEF Live
<1>6. recency' = Appended(Without(recency, Displaced(s) \cup {s}), others, s)
  BY DEF GetSession, MovedToEnd
<1>7. IsFiniteSet(others) /\ IsOrder(Without(recency, Displaced(s) \cup {s}), others)
  <2>1. IsFiniteSet(Live) /\ IsOrder(recency, Live)
    BY DEF StoreInv, SessionsKept
  <2>2. IsFiniteSet(others)
    BY <2>1, FS_Subset, others \in SUBSET Live, Zenon
  <2> QED
    BY <2>1, <2>2, WithoutOrders
<1>8. Cardinality(others) + 1 <= MaxSessions
  <2>1. /\ IsFiniteSet(Fit) /\ IsOrder(Without(recency, Stale), Fit)
        /\ Cardinality(Fit) <= MaxSessions /\ Cardinality(Fit) \in Nat
    BY FitKept, FS_CardinalityType, Zenon
  <2>2. CASE s \in Fit
    <3>1. others = Fit \ {s}
      BY <2>2, DisplacedIs DEF Fit
    <3>2. Cardinality(Fit \ {s}) = Cardinality(Fit) - 1
      BY <2>1, <2>2, FS_RemoveElement, Zenon
    <3> QED
      BY <1>1, <2>1, <3>1, <3>2
  <2>3. CASE s \notin Fit
    <3>1. others \in SUBSET (Fit \ Ousted)
      BY <2>3, DisplacedIs DEF Fit
    <3>2. Cardinality(Fit \ Ousted) + 1 <= MaxSessions
      BY <1>1, <2>1, OverflowMakesRoom DEF Ousted
    <3>3. IsFiniteSet(Fit \ Ousted)
      BY <2>1, FS_Subset, Fit \ Ousted \in SUBSET Fit, Zenon
    <3>4. /\ Cardinality(others) <= Cardinality(Fit \ Ousted)
          /\ Cardinality(others) \in Nat /\ Cardinality(Fit \ Ousted) \in Nat
      BY <1>7, <3>1, <3>3, FS_Subset, FS_CardinalityType, Zenon
    <3> HIDE DEF others
    <3> QED
      BY <1>1, <3>2, <3>4
  <2> QED
    BY <2>2, <2>3
<1> HIDE DEF others
<1>9. /\ IsFiniteSet(others \cup {s})
      /\ IsOrder(Appended(Without(recency, Displaced(s) \cup {s}), others, s), others \cup {s})
      /\ Cardinality(others \cup {s}) <= MaxSessions
  BY <1>1, <1>7, <1>8, OneMoreKept
<1> QED
  BY <1>2, <1>4, <1>5, <1>6, <1>9 DEF SessionsKept

\* The order of use: a session that is obtained is the last, nothing else moves.
LEMMA OrderOfUse ==
  ASSUME StoreInv, NEW s \in Sessions, Use(s)
  PROVE  UsedInOrder'
<1>1. since \in [Sessions -> SUBSET Sessions]
  BY DEF StoreInv, HistoryTyped
<1>2. since' = [t \in Sessions |-> IF t = s THEN {} ELSE since[t] \cup {s}]
  BY DEF Use
<1>3. \A a, b : <<a, b>> \in recency' => <<a, b>> \in recency \/ b = s
  BY DEF Use, GetSession, MovedToEnd, Appended, Without
<1>4. \A a, b : <<a, b>> \in recency' => a # s
  BY DEF Use, GetSession, MovedToEnd, Appended, Without
<1>5. ASSUME NEW a \in Sessions, NEW b \in Sessions, <<a, b>> \in recency'
      PROVE  b \in since'[a]
  <2>1. <<a, b>> \in recency \/ b = s
    BY <1>3, <1>5
  <2>2. a # s
    BY <1>4, <1>5
  <2>3. <<a, b>> \in recency => b \in since[a]
    BY DEF StoreInv, UsedInOrder
  <2> QED
    BY <1>2, <2>1, <2>2, <2>3
<1> QED
  BY <1>5 DEF UsedInOrder

\* A session obtained adds one to what came after each of the others.
LEMMA SinceUse ==
  ASSUME StoreInv, NEW u \in Sessions, Use(u), NEW s \in Sessions
  PROVE  /\ IsFiniteSet(since'[s])
         /\ s # u => /\ since'[s] = since[s] \cup {u}
                     /\ Cardinality(since[s]) <= Cardinality(since'[s])
                     /\ Cardinality(since[s]) \in Nat /\ Cardinality(since'[s]) \in Nat
<1>1. since'[s] = IF s = u THEN {} ELSE since[s] \cup {u}
  BY DEF Use
<1>2. IsFiniteSet(since[s])
  BY DEF StoreInv, HistoryTyped
<1>3. IsFiniteSet(since'[s])
  <2>1. IsFiniteSet({}) /\ IsFiniteSet(since[s] \cup {u})
    BY <1>2, FS_EmptySet, FS_AddElement, Zenon
  <2> QED
    BY <1>1, <2>1
<1>4. ASSUME s # u
      PROVE  /\ Cardinality(since[s]) <= Cardinality(since'[s])
             /\ Cardinality(since[s]) \in Nat /\ Cardinality(since'[s]) \in Nat
  <2>1. since[s] \in SUBSET since'[s]
    BY <1>1, <1>4
  <2> QED
    BY <1>2, <1>3, <2>1, FS_Subset, FS_CardinalityType, Zenon
<1> QED
  BY <1>1, <1>3, <1>4

\* A session in the map that is alive is not stale.
LEMMA AliveFits ==
  ASSUME StoreInv, NEW s \in Live
  PROVE  s \in Fit <=> Alive(s)
<1>1. left[s] = {heap[sessions[s]]} /\ s \in Sessions /\ sessions[s] \in Objs
  BY DEF StoreInv, Begun, Live
<1>2. heap[sessions[s]].touchedAt \in Nat /\ now \in Nat /\ SessionTTL \in Nat
  BY <1>1, StoreAssumption DEF StoreInv, SessionState
<1>3. Alive(s) <=> now < heap[sessions[s]].touchedAt + SessionTTL
  BY <1>1 DEF Alive
<1>4. s \in Fit <=> ~(heap[sessions[s]].touchedAt + SessionTTL <= now)
  BY DEF Fit, Stale
<1> QED
  BY <1>2, <1>3, <1>4

\* A session goes only when it is stale or when MaxSessions others came after it.
LEMMA GoesLate ==
  ASSUME StoreInv, NEW u \in Sessions, Use(u), NEW s \in Fit, s # u,
         Cardinality(since'[s]) < MaxSessions
  PROVE  s \notin Displaced(u)
<1> DEFINE order == Without(recency, Stale)
<1>1. s \in Sessions
  BY DEF Fit, Live
<1>2. IsFiniteSet(Fit) /\ IsOrder(order, Fit) /\ MaxSessions \in Nat \ {0}
  BY FitKept, StoreAssumption
<1> SUFFICES ASSUME u \notin Fit, s \in Ousted
             PROVE  FALSE
  BY DisplacedIs DEF Fit
<1>3. Behind(order, Fit, s) \subseteq since[s]
  <2>1. ASSUME NEW j \in Behind(order, Fit, s) PROVE j \in since[s]
    <3>1. j \in Sessions /\ <<s, j>> \in recency
      BY DEF Behind, Fit, Live, Without
    <3> QED
      BY <1>1, <3>1 DEF StoreInv, UsedInOrder
  <2> QED
    BY <2>1
<1>4. u \notin Behind(order, Fit, s)
  BY DEF Behind
<1>5. /\ Cardinality(Behind(order, Fit, s)) + 1 >= MaxSessions
      /\ IsFiniteSet(Behind(order, Fit, s)) /\ Cardinality(Behind(order, Fit, s)) \in Nat
  BY <1>2, OverflowCounts DEF Ousted
<1> HIDE DEF order
<1>6. Cardinality(Behind(order, Fit, s) \cup {u}) = Cardinality(Behind(order, Fit, s)) + 1
  BY <1>4, <1>5, FS_AddElement, Zenon
<1>7. IsFiniteSet(since'[s]) /\ since'[s] = since[s] \cup {u}
  BY <1>1, SinceUse
<1>8. Behind(order, Fit, s) \cup {u} \in SUBSET since'[s]
  BY <1>3, <1>7
<1>9. /\ Cardinality(Behind(order, Fit, s) \cup {u}) <= Cardinality(since'[s])
      /\ Cardinality(since'[s]) \in Nat
  BY <1>7, <1>8, FS_Subset, FS_CardinalityType, Zenon
<1> QED
  BY <1>2, <1>5, <1>6, <1>9

\* What the hooks of a session left is what the next one of them finds.
LEMMA HistoryOfUse ==
  ASSUME StoreInv, NEW u \in Sessions, NEW o \in Objs, GetSession(u, o, InMap), Use(u),
         heap' = [heap EXCEPT ![o] = Obtained(u, o)],
         left' = [left EXCEPT ![u] = {Obtained(u, o)}]
  PROVE  Begun' /\ Stays'
<1>1. /\ sessions' = [t \in Sessions |-> IF t = u THEN o
                                         ELSE IF t \in Displaced(u) THEN NoObj ELSE sessions[t]]
      /\ IF u \in Fit THEN o = sessions[u] ELSE o \in Objs \ InMap
  BY DEF GetSession, Fit
<1>2. o # NoObj /\ now' = now
  BY StoreAssumption DEF Use
<1>3. /\ heap \in [Objs -> SessionState] /\ sessions \in [Sessions -> Objs \cup {NoObj}]
      /\ left \in [Sessions -> SUBSET SessionState]
  BY DEF StoreInv, HistoryTyped
<1>4. Live \subseteq Sessions /\ Fit \subseteq Live
  BY DEF Live, Fit
<1>5. ASSUME NEW s \in Live', s # u
      PROVE  /\ s \in Live /\ sessions'[s] = sessions[s] /\ sessions[s] # o
             /\ left'[s] = left[s] /\ heap'[sessions[s]] = heap[sessions[s]]
  <2>1. s \in Sessions /\ sessions'[s] # NoObj
    BY <1>5 DEF Live
  <2>2. s \in Live /\ sessions'[s] = sessions[s]
    BY <1>1, <1>5, <2>1 DEF Live
  <2>3. sessions[s] # o
    <3>1. CASE u \in Fit
      BY <1>1, <1>4, <1>5, <2>2, <3>1 DEF StoreInv, Begun
    <3>2. CASE u \notin Fit
      BY <1>1, <2>2, <3>2 DEF InMap
    <3> QED
      BY <3>1, <3>2
  <2>4. sessions[s] \in Objs
    BY <1>3, <2>1, <2>2
  <2> QED
    BY <1>3, <1>5, <2>1, <2>2, <2>3, <2>4
<1>6. u \in Live' /\ sessions'[u] = o /\ heap'[o] = Obtained(u, o) /\ left'[u] = {Obtained(u, o)}
  BY <1>1, <1>2, <1>3 DEF Live
<1>7. \A s, t \in Live' : sessions'[s] = sessions'[t] => s = t
  <2> SUFFICES ASSUME NEW s \in Live', NEW t \in Live', sessions'[s] = sessions'[t]
               PROVE  s = t
    OBVIOUS
  <2>1. CASE s = u
    BY <1>5, <1>6, <2>1
  <2>2. CASE t = u
    BY <1>5, <1>6, <2>2
  <2>3. CASE s # u /\ t # u
    BY <1>5, <2>3 DEF StoreInv, Begun
  <2> QED
    BY <2>1, <2>2, <2>3
<1>8. \A s \in Live' : left'[s] = {heap'[sessions'[s]]}
  <2> SUFFICES ASSUME NEW s \in Live'
               PROVE  left'[s] = {heap'[sessions'[s]]}
    OBVIOUS
  <2>1. CASE s = u
    BY <1>6, <2>1
  <2>2. CASE s # u
    BY <1>5, <2>2 DEF StoreInv, Begun
  <2> QED
    BY <2>1, <2>2
<1>9. ASSUME NEW s \in Sessions, s # u, Alive(s)', Cardinality(since'[s]) < MaxSessions
      PROVE  s \in Live'
  <2>1. left'[s] = left[s]
    BY <1>3, <1>9
  <2>2. Alive(s)
    BY <1>2, <1>9, <2>1 DEF Alive
  <2>3. Cardinality(since[s]) < MaxSessions
    <3>1. MaxSessions \in Nat
      BY StoreAssumption
    <3>2. /\ Cardinality(since[s]) <= Cardinality(since'[s])
          /\ Cardinality(since[s]) \in Nat /\ Cardinality(since'[s]) \in Nat
      BY <1>9, SinceUse
    <3> QED
      BY <1>9, <3>1, <3>2
  <2>4. s \in Live
    BY <2>2, <2>3 DEF StoreInv, Stays
  <2>5. s \in Fit
    BY <2>2, <2>4, AliveFits
  <2>6. s \notin Displaced(u)
    BY <1>9, <2>5, GoesLate
  <2> QED
    BY <1>1, <1>9, <2>4, <2>6 DEF Live
<1>10. Stays'
  BY <1>6, <1>9 DEF Stays
<1> QED
  BY <1>7, <1>8, <1>10 DEF Begun

-------------------------------------------------------------------------------
(* Every step keeps the invariant *)

LEMMA TypeFromInv ==
  ASSUME StoreInv
  PROVE  StoreTypeOK
<1>1. recency \subseteq Sessions \X Sessions
  BY DEF StoreInv, SessionsKept, IsOrder, Live
<1>2. cacheOrder \subseteq Keys \X Keys
  BY DEF StoreInv, CacheKept, IsOrder, Cached
<1> QED
  BY <1>1, <1>2 DEF StoreInv, StoreTypeOK

LEMMA FreshObject ==
  ASSUME NEW s \in Sessions, now \in Nat
  PROVE  Fresh(s) \in SessionState
BY DEF Fresh, SessionState

LEMMA AdvancedType ==
  ASSUME NEW o, heap[o] \in SessionState, now \in Nat
  PROVE  Advanced(o) \in SessionState
<1> DEFINE st == heap[o]
<1>1. st \in SessionState
  OBVIOUS
<1>2. st.version + 1 \in Nat
  BY <1>1 DEF SessionState
<1>3. Advanced(o) = [st EXCEPT !.version = st.version + 1, !.touchedAt = now]
  BY Zenon DEF Advanced
<1> HIDE DEF st
<1>4. [st EXCEPT !.version = st.version + 1, !.touchedAt = now] \in SessionState
  BY <1>1, <1>2 DEF SessionState
<1> QED
  BY <1>3, <1>4

LEMMA UseKeeps ==
  ASSUME StoreInv, NEW s \in Sessions, Use(s)
  PROVE  StoreInv'
<1>1. PICK o \in Objs : /\ GetSession(s, o, InMap) /\ heap' = [heap EXCEPT ![o] = Obtained(s, o)]
                       /\ left' = [left EXCEPT ![s] = {Obtained(s, o)}]
  BY DEF Use
<1>10. Obtained(s, o) \in SessionState
  <2>1. [heap[o] EXCEPT !.touchedAt = now] \in SessionState
    BY DEF StoreInv, SessionState
  <2> QED
    BY <2>1, FreshObject DEF StoreInv, Obtained
<1>2. heap' \in [Objs -> SessionState]
  BY <1>1, <1>10 DEF StoreInv
<1>3. sessions' \in [Sessions -> Objs \cup {NoObj}] /\ SessionsKept'
  BY <1>1, SessionsGrow
<1>4. cache' \in [Keys -> Nat] /\ CacheKept'
  <2>1. /\ cache' = [k \in Keys |-> IF k \in EntriesOf(Displaced(s)) THEN Absent ELSE cache[k]]
        /\ cacheOrder' = Without(cacheOrder, EntriesOf(Displaced(s)))
    BY <1>1 DEF GetSession, Forget
  <2> QED
    BY <2>1, CacheShrinks
<1>5. now' = now /\ now' \in Nat
  BY DEF StoreInv, Use
<1>6. UsedInOrder'
  BY OrderOfUse
<1>8. HistoryTyped'
  <2>1. since' \in [Sessions -> SUBSET Sessions]
    BY DEF StoreInv, HistoryTyped, Use
  <2>2. \A t \in Sessions : IsFiniteSet(since'[t])
    BY SinceUse
  <2>4. left' \in [Sessions -> SUBSET SessionState]
    BY <1>1, <1>10 DEF StoreInv, HistoryTyped
  <2> QED
    BY <2>1, <2>2, <2>4 DEF HistoryTyped
<1>9. Begun' /\ Stays'
  BY <1>1, HistoryOfUse
<1> QED
  BY <1>2, <1>3, <1>4, <1>5, <1>6, <1>8, <1>9 DEF StoreInv

LEMMA WorkKeeps ==
  ASSUME StoreInv, NEW s \in Sessions, Work(s)
  PROVE  StoreInv'
<1> DEFINE o == sessions[s]
<1>1. o \in Objs /\ s \in Live
  BY DEF StoreInv, Work, Live
<1>2. Advanced(o) \in SessionState
  <2>1. heap[o] \in SessionState /\ now \in Nat
    BY <1>1 DEF StoreInv
  <2> QED
    BY <2>1, AdvancedType
<1>3. /\ heap' = [heap EXCEPT ![o] = Advanced(o)] /\ left' = [left EXCEPT ![s] = {Advanced(o)}]
      /\ UNCHANGED <<sessions, recency, cache, cacheOrder, now, since>>
  BY DEF Work, maps
<1>4. heap' \in [Objs -> SessionState]
  BY <1>2, <1>3 DEF StoreInv
<1>5. SessionsKept' /\ CacheKept' /\ UsedInOrder' /\ Live' = Live
  BY <1>3 DEF StoreInv, SessionsKept, CacheKept, UsedInOrder, Live, Cached
<1>6. HistoryTyped'
  BY <1>2, <1>3 DEF StoreInv, HistoryTyped
<1> HIDE DEF o
<1>7. \A t \in Live : t # s => sessions[t] # o /\ left'[t] = left[t] /\ heap'[sessions[t]] = heap[sessions[t]]
  <2> SUFFICES ASSUME NEW t \in Live, t # s
               PROVE  sessions[t] # o /\ left'[t] = left[t] /\ heap'[sessions[t]] = heap[sessions[t]]
    OBVIOUS
  <2>1. sessions[t] # o
    BY <1>1 DEF StoreInv, Begun, o
  <2>2. t \in Sessions /\ sessions[t] \in Objs
    BY DEF StoreInv, Live
  <2> QED
    BY <1>3, <2>1, <2>2 DEF StoreInv, HistoryTyped
<1>8. left'[s] = {Advanced(o)} /\ heap'[o] = Advanced(o)
  BY <1>1, <1>3 DEF StoreInv, HistoryTyped
<1>9. Begun'
  <2>1. \A a, t \in Live' : sessions'[a] = sessions'[t] => a = t
    BY <1>3, <1>5 DEF StoreInv, Begun
  <2>2. \A t \in Live' : left'[t] = {heap'[sessions'[t]]}
    <3> SUFFICES ASSUME NEW t \in Live PROVE left'[t] = {heap'[sessions[t]]}
      BY <1>3, <1>5
    <3>1. CASE t = s
      BY <1>8, <3>1 DEF o
    <3>2. CASE t # s
      BY <1>7, <3>2 DEF StoreInv, Begun
    <3> QED
      BY <3>1, <3>2
  <2> QED
    BY <2>1, <2>2 DEF Begun
<1>10. Stays'
  <2> SUFFICES ASSUME NEW t \in Sessions, Alive(t)', Cardinality(since'[t]) < MaxSessions
               PROVE  t \in Live'
    BY DEF Stays
  <2>1. CASE t = s
    BY <1>1, <1>5, <2>1
  <2>2. CASE t # s
    <3>1. left'[t] = left[t]
      BY <1>3, <2>2 DEF StoreInv, HistoryTyped
    <3> QED
      BY <1>3, <1>5, <3>1 DEF StoreInv, Stays, Alive
  <2> QED
    BY <2>1, <2>2
<1> QED
  BY <1>3, <1>4, <1>5, <1>6, <1>9, <1>10 DEF StoreInv

\* A step that is on the cache alone.
LEMMA SessionsAside ==
  ASSUME StoreInv, UNCHANGED <<heap, sessions, recency, now, since, left>>,
         cache' \in [Keys -> Nat], CacheKept'
  PROVE  StoreInv'
<1>1. SessionsKept' /\ UsedInOrder' /\ Begun' /\ Stays' /\ HistoryTyped'
  BY DEF StoreInv, SessionsKept, UsedInOrder, Begun, Stays, Alive, HistoryTyped, Live
<1> QED
  BY <1>1 DEF StoreInv

\* Sessions go that are stale, or what is known of them is forgotten.
LEMMA DropKeeps ==
  ASSUME StoreInv, NEW gone, DropSessions(gone), UNCHANGED <<heap, now, since>>,
         NEW ended, gone \subseteq Stale \cup ended,
         left' = [s \in Sessions |-> IF s \in ended THEN {} ELSE left[s]],
         ended \subseteq gone
  PROVE  StoreInv'
<1>1. sessions' \in [Sessions -> Objs \cup {NoObj}] /\ SessionsKept'
  BY SessionsShrink DEF DropSessions
<1>2. cache' \in [Keys -> Nat] /\ CacheKept'
  BY CacheShrinks DEF DropSessions, Forget
<1>3. UsedInOrder'
  BY DEF StoreInv, UsedInOrder, DropSessions, Without
<1>4. HistoryTyped'
  BY DEF StoreInv, HistoryTyped
<1>5. /\ Live' = Live \ gone
      /\ \A s \in Live' : s \in Sessions /\ sessions'[s] = sessions[s] /\ left'[s] = left[s]
  BY DEF DropSessions, Live
<1>6. Begun'
  BY <1>5 DEF StoreInv, Begun
<1>7. Stays'
  <2> SUFFICES ASSUME NEW s \in Sessions, Alive(s)', Cardinality(since'[s]) < MaxSessions
               PROVE  s \in Live'
    BY DEF Stays
  <2>1. s \notin ended /\ Alive(s)
    BY DEF Alive
  <2>2. s \in Live
    BY <2>1 DEF StoreInv, Stays
  <2>3. s \notin Stale
    BY <2>1, <2>2, AliveFits DEF Fit
  <2> QED
    BY <1>5, <2>1, <2>2, <2>3
<1> QED
  BY <1>1, <1>2, <1>3, <1>4, <1>6, <1>7 DEF StoreInv

LEMMA PruneKeeps ==
  ASSUME StoreInv, Prune
  PROVE  StoreInv'
<1>1. left' = [s \in Sessions |-> IF s \in {} THEN {} ELSE left[s]]
  BY DEF Prune, StoreInv, HistoryTyped
<1> QED
  BY <1>1, DropKeeps DEF Prune

LEMMA DeleteKeeps ==
  ASSUME StoreInv, NEW s \in Sessions, Delete(s)
  PROVE  StoreInv'
<1>1. left' = [t \in Sessions |-> IF t \in {s} THEN {} ELSE left[t]]
  BY DEF Delete, StoreInv, HistoryTyped
<1> QED
  BY <1>1, DropKeeps DEF Delete

\* An empty map.
LEMMA EmptyKept ==
  /\ IsFiniteSet({}) /\ IsOrder({}, {})
  /\ Cardinality({}) <= MaxSessions /\ Cardinality({}) <= MaxCache
<1>1. IsFiniteSet({}) /\ Cardinality({}) = 0
  BY FS_EmptySet, Zenon
<1>2. 0 <= MaxSessions /\ 0 <= MaxCache
  BY StoreAssumption
<1> QED
  BY <1>1, <1>2, NothingOrdered

LEMMA DisposeKeeps ==
  ASSUME StoreInv, Dispose
  PROVE  StoreInv'
<1>1. /\ sessions' = [s \in Sessions |-> NoObj] /\ recency' = {}
      /\ cache' = [k \in Keys |-> Absent] /\ cacheOrder' = {}
      /\ UNCHANGED <<heap, now, since>> /\ left' = [s \in Sessions |-> {}]
  BY DEF Dispose, Clear
<1>2. Live' = {} /\ Cached' = {}
  BY <1>1 DEF Live, Cached
<1>3. SessionsKept' /\ CacheKept' /\ UsedInOrder'
  BY <1>1, <1>2, EmptyKept DEF SessionsKept, CacheKept, UsedInOrder
<1>4. Begun' /\ Stays' /\ HistoryTyped'
  BY <1>1, <1>2 DEF StoreInv, Begun, Stays, Alive, HistoryTyped
<1> QED
  BY <1>1, <1>3, <1>4 DEF StoreInv, Absent

LEMMA TickKeeps ==
  ASSUME StoreInv, Tick
  PROVE  StoreInv'
<1>1. UNCHANGED <<heap, sessions, recency, cache, cacheOrder, since, left>> /\ now' = now + 1
  BY DEF Tick, maps
<1>2. SessionsKept' /\ CacheKept' /\ UsedInOrder' /\ Begun' /\ HistoryTyped' /\ Live' = Live
  BY <1>1 DEF StoreInv, SessionsKept, CacheKept, UsedInOrder, Begun, HistoryTyped, Live, Cached
<1>3. \A s \in Sessions : Alive(s)' => Alive(s)
  <2> SUFFICES ASSUME NEW s \in Sessions, NEW st \in left[s], now + 1 < st.touchedAt + SessionTTL
               PROVE  now < st.touchedAt + SessionTTL
    BY <1>1 DEF Alive
  <2>1. st.touchedAt \in Nat /\ now \in Nat /\ SessionTTL \in Nat
    BY StoreAssumption DEF StoreInv, HistoryTyped, SessionState
  <2> QED
    BY <2>1
<1>4. Stays'
  BY <1>1, <1>2, <1>3 DEF StoreInv, Stays
<1> QED
  BY <1>1, <1>2, <1>4 DEF StoreInv

LEMMA StoreStart ==
  ASSUME AloneInit
  PROVE  StoreInv
<1>1. /\ sessions = [s \in Sessions |-> NoObj] /\ recency = {}
      /\ cache = [k \in Keys |-> Absent] /\ cacheOrder = {}
      /\ now = 0 /\ since = [s \in Sessions |-> {}] /\ left = [s \in Sessions |-> {}]
  BY DEF AloneInit, StoreInit
<1>2. Live = {} /\ Cached = {}
  BY <1>1 DEF Live, Cached
<1>3. SessionsKept /\ CacheKept /\ UsedInOrder
  BY <1>1, <1>2, EmptyKept DEF SessionsKept, CacheKept, UsedInOrder
<1>4. heap \in [Objs -> SessionState]
  BY StoreAssumption, FreshObject DEF AloneInit, StoreInit
<1>5. Begun /\ Stays /\ HistoryTyped
  <2>1. \A s \in Sessions : IsFiniteSet(since[s])
    BY <1>1, EmptyKept
  <2> QED
    BY <1>1, <1>2, <2>1 DEF Begun, Stays, Alive, HistoryTyped
<1> QED
  BY <1>1, <1>3, <1>4, <1>5 DEF StoreInv, Absent

LEMMA StoreStep ==
  ASSUME StoreInv, [StoreNext]_storeVars
  PROVE  StoreInv'
<1>1. ASSUME NEW s \in Sessions, Use(s) \/ Work(s) \/ Delete(s) PROVE StoreInv'
  BY <1>1, UseKeeps, WorkKeeps, DeleteKeeps
<1>2. ASSUME NEW k \in Keys, Remember(k) PROVE StoreInv'
  BY <1>2, CacheGrows, SessionsAside DEF Remember
<1>3. ASSUME NEW k \in Keys, Lookup(k) PROVE StoreInv'
  <2>1. cache' \in [Keys -> Nat] /\ CacheKept'
    BY <1>3, CacheShrinks DEF Lookup, DropExpired
  <2> QED
    BY <1>3, <2>1, SessionsAside DEF Lookup
<1>4. CASE Prune
  BY <1>4, PruneKeeps
<1>5. CASE UNCHANGED storeVars
  <2>1. UNCHANGED <<heap, sessions, recency, cache, cacheOrder, now, since, left>>
    BY <1>5 DEF storeVars, maps
  <2>2. cache' \in [Keys -> Nat] /\ CacheKept'
    BY <2>1 DEF StoreInv, CacheKept, Cached
  <2> QED
    BY <2>1, <2>2, SessionsAside
<1> QED
  BY <1>1, <1>2, <1>3, <1>4, <1>5, DisposeKeeps, TickKeeps DEF StoreNext

LEMMA StoreAlways ==
  StoreSpec => []StoreInv
<1> QED
  BY StoreStart, StoreStep, PTL DEF StoreSpec

-------------------------------------------------------------------------------
(* What a step may do *)

LEMMA EvictsIdlestStep ==
  ASSUME StoreInv, NEW u \in Sessions, Use(u)
  PROVE  LET lost == {s \in Live \ Stale : sessions'[s] = NoObj}
         IN  /\ lost # {} => Cardinality(Live \ Stale) >= MaxSessions
             /\ \A s \in lost : \A t \in Live \ Stale : t \notin lost => t \in since[s]
<1> DEFINE lost == {s \in Fit : sessions'[s] = NoObj}
<1>1. PICK o \in Objs : GetSession(u, o, InMap)
  BY DEF Use
<1>2. /\ sessions' = [t \in Sessions |-> IF t = u THEN o
                                         ELSE IF t \in Displaced(u) THEN NoObj ELSE sessions[t]]
      /\ o # NoObj
  BY <1>1, StoreAssumption DEF GetSession
<1>3. /\ IsFiniteSet(Fit) /\ IsOrder(Without(recency, Stale), Fit) /\ MaxSessions \in Nat \ {0}
  BY FitKept, StoreAssumption
<1>4. \A s \in Fit : s \in Sessions /\ sessions[s] # NoObj /\ s \notin Stale
  BY DEF Fit, Live
<1>5. lost \subseteq Ousted
  BY <1>2, <1>4, DisplacedIs
<1>6. lost # {} => Cardinality(Fit) >= MaxSessions
  BY <1>3, <1>5, OverflowWhenFull DEF Ousted
<1>7. ASSUME NEW s \in lost, NEW t \in Fit, t \notin lost
      PROVE  t \in since[s]
  <2>1. s \in Ousted /\ t \notin Ousted
    <3>1. u \notin Fit
      BY <1>2, <1>4, DisplacedIs
    <3>2. t # u /\ t \notin Displaced(u)
      BY <1>2, <1>4, <1>7, <3>1
    <3> QED
      BY <1>5, <3>1, <3>2, DisplacedIs
  <2>2. <<s, t>> \in Without(recency, Stale)
    BY <1>3, <2>1, OldestGo DEF Ousted
  <2> QED
    BY <1>4, <2>2 DEF StoreInv, UsedInOrder, Without
<1> HIDE DEF lost
<1>8. /\ lost # {} => Cardinality(Fit) >= MaxSessions
      /\ \A s \in lost : \A t \in Fit : t \notin lost => t \in since[s]
  BY <1>6, <1>7
<1> QED
  BY <1>8 DEF lost, Fit

LEMMA CacheEvictsOldestStep ==
  ASSUME StoreInv, NEW k \in Keys, Remember(k)
  PROVE  LET good == {j \in Cached : cache[j] > now}
             lost == {j \in good : cache'[j] = Absent}
         IN  /\ lost # {} => Cardinality(good) >= MaxCache
             /\ \A j \in lost : \A i \in good \ {j, k} :
                  cache'[i] = cache[i] /\ <<j, i>> \in cacheOrder
<1> DEFINE lost == {j \in Good : cache'[j] = Absent}
<1>1. cache' = [j \in Keys |-> IF j = k THEN now + CacheTTL
                               ELSE IF j \in Good \ Evicted THEN cache[j] ELSE Absent]
  BY Remembered DEF Remember
<1>2. /\ cache \in [Keys -> Nat] /\ now \in Nat /\ CacheTTL \in Nat \ {0} /\ MaxCache \in Nat \ {0}
  BY StoreAssumption DEF StoreInv
<1>3. \A j \in Good : j \in Keys /\ cache[j] # Absent
  BY DEF Good, Cached
<1>4. lost \subseteq Evicted
  BY <1>1, <1>2, <1>3 DEF Absent
<1>5. /\ IsFiniteSet(Good) /\ IsOrder(Without(cacheOrder, Cached \ Good), Good)
      /\ Cardinality(Good) <= MaxCache
  BY GoodKept
<1>6. lost # {} => Cardinality(Good) >= MaxCache
  BY <1>2, <1>4, <1>5, OverflowWhenFull DEF Evicted
<1>7. ASSUME NEW j \in lost, NEW i \in Good \ {j, k}
      PROVE  cache'[i] = cache[i] /\ <<j, i>> \in cacheOrder
  <2>1. i \notin Evicted
    BY <1>2, <1>4, <1>5, OneGoes DEF Evicted
  <2>2. <<j, i>> \in Without(cacheOrder, Cached \ Good)
    BY <1>2, <1>4, <1>5, <2>1, OldestGo DEF Evicted
  <2> QED
    BY <1>1, <1>3, <2>1, <2>2 DEF Without
<1> HIDE DEF lost
<1>8. /\ lost # {} => Cardinality(Good) >= MaxCache
      /\ \A j \in lost : \A i \in Good \ {j, k} : cache'[i] = cache[i] /\ <<j, i>> \in cacheOrder
  BY <1>6, <1>7
<1> QED
  BY <1>8 DEF lost, Good

LEMMA WorkIsKeptStep ==
  ASSUME StoreInv, NEW s \in Sessions, Use(s)
  PROVE  LET found == heap'[sessions'[s]]
             alive == {st \in left[s] : now < st.touchedAt + SessionTTL}
             kept  == {[st EXCEPT !.touchedAt = now] : st \in alive}
         IN  /\ found \in kept \cup {Fresh(s)}
             /\ alive # {} /\ Cardinality(since[s]) < MaxSessions => found \in kept
<1> DEFINE found == heap'[sessions'[s]]
           alive == {st \in left[s] : now < st.touchedAt + SessionTTL}
           kept  == {[st EXCEPT !.touchedAt = now] : st \in alive}
<1>1. PICK o \in Objs : GetSession(s, o, InMap) /\ heap' = [heap EXCEPT ![o] = Obtained(s, o)]
  BY DEF Use
<1>2. found = Obtained(s, o)
  <2>1. sessions'[s] = o
    BY <1>1 DEF GetSession
  <2> QED
    BY <1>1, <2>1 DEF StoreInv
<1>3. alive # {} <=> Alive(s)
  BY DEF Alive
<1>4. CASE s \in Fit
  <2>1. o = sessions[s] /\ left[s] = {heap[o]}
    BY <1>1, <1>4 DEF GetSession, Fit, StoreInv, Begun
  <2>2. Alive(s)
    BY <1>4, AliveFits DEF Fit
  <2>3. heap[o] \in alive
    BY <2>1, <2>2 DEF Alive
  <2>4. found = [heap[o] EXCEPT !.touchedAt = now]
    BY <1>2, <1>4 DEF Obtained, Fit
  <2>5. found \in kept
    BY <2>3, <2>4
  <2> QED
    BY <2>5
<1>5. CASE s \notin Fit
  <2>1. found = Fresh(s)
    BY <1>2, <1>5 DEF Obtained, Fit
  <2>2. ~(Alive(s) /\ Cardinality(since[s]) < MaxSessions)
    BY <1>5, AliveFits DEF StoreInv, Stays
  <2> QED
    BY <1>3, <2>1, <2>2
<1> QED
  BY <1>4, <1>5

LEMMA DropForgetsStep ==
  ASSUME StoreInv, [StoreNext]_storeVars
  PROVE  \A s \in Live : sessions'[s] # sessions[s] =>
           \A k \in Keys : k.sid = s => cache'[k] = Absent
<1> SUFFICES ASSUME NEW s \in Live, sessions'[s] # sessions[s], NEW k \in Keys, k.sid = s
             PROVE  cache'[k] = Absent
  OBVIOUS
<1>1. s \in Sessions /\ sessions \in [Sessions -> Objs \cup {NoObj}]
  BY DEF StoreInv, Live
<1>2. ASSUME NEW gone, DropSessions(gone) PROVE cache'[k] = Absent
  BY <1>1, <1>2 DEF DropSessions, Forget, EntriesOf
<1>3. ASSUME NEW u \in Sessions, Use(u) PROVE cache'[k] = Absent
  <2>1. PICK o \in Objs : GetSession(u, o, InMap)
    BY <1>3 DEF Use
  <2>2. s \in Displaced(u)
    <3>1. CASE s = u
      BY <1>1, <2>1, <3>1, DisplacedIs DEF GetSession, Displaced
    <3>2. CASE s # u
      BY <1>1, <2>1, <3>2 DEF GetSession
    <3> QED
      BY <3>1, <3>2
  <2> QED
    BY <2>1, <2>2 DEF GetSession, Forget, EntriesOf
<1>4. CASE Dispose
  BY <1>4 DEF Dispose, Clear
<1>5. CASE UNCHANGED storeVars
  BY <1>5 DEF storeVars, maps
<1> QED
  BY <1>2, <1>3, <1>4, <1>5
  DEF StoreNext, Work, Remember, Lookup, Prune, Delete, Tick, maps

-------------------------------------------------------------------------------
(* The theorems *)

\* The two maps hold what the types of the code say (index.ts:265-266).
THEOREM StoreTyped == StoreSpec => []StoreTypeOK
  BY StoreAlways, TypeFromInv, PTL

\* Neither map ever outgrows its limit, whatever is used, cached, pruned or
\* deleted in whatever order (index.ts:238, 289).
THEOREM LimitsHold == StoreSpec => []MapsBounded
<1>1. StoreInv => MapsBounded
  BY DEF StoreInv, SessionsKept, CacheKept, MapsBounded
<1> QED
  BY <1>1, StoreAlways, PTL

\* The place a session has in the map is the order of use, so making room for
\* one session never costs another that was used later than one that stays
\* (index.ts:289-299).
THEOREM IdlestIsEvicted == StoreSpec => EvictsIdlest
<1>1. ASSUME StoreInv, [StoreNext]_storeVars
      PROVE  [\A u \in Live' : Use(u) =>
                LET lost == {s \in Live \ Stale : sessions'[s] = NoObj}
                IN  /\ lost # {} => Cardinality(Live \ Stale) >= MaxSessions
                    /\ \A s \in lost : \A t \in Live \ Stale :
                         t \notin lost => t \in since[s]]_storeVars
  <2>1. \A u \in Live' : u \in Sessions
    BY DEF Live
  <2> QED
    BY <1>1, <2>1, EvictsIdlestStep
<1> QED
  BY <1>1, StoreAlways, PTL DEF StoreSpec, EvictsIdlest

\* Remembering an approval forgets at most one that is still good: the oldest,
\* and only when the good ones fill the cache (index.ts:233-243).
THEOREM OldestIsEvicted == StoreSpec => CacheEvictsOldest
<1>1. ASSUME StoreInv, [StoreNext]_storeVars
      PROVE  [\A k \in Cached' : Remember(k) =>
                LET good == {j \in Cached : cache[j] > now}
                    lost == {j \in good : cache'[j] = Absent}
                IN  /\ lost # {} => Cardinality(good) >= MaxCache
                    /\ \A j \in lost : \A i \in good \ {j, k} :
                         cache'[i] = cache[i] /\ <<j, i>> \in cacheOrder]_storeVars
  <2>1. \A k \in Cached' : k \in Keys
    BY DEF Cached
  <2> QED
    BY <1>1, <2>1, CacheEvictsOldestStep
<1> QED
  BY <1>1, StoreAlways, PTL DEF StoreSpec, CacheEvictsOldest

\* The three of them: for any limits, any number of sessions and keys, and any
\* caller (index.ts:233-243, 278-302).
THEOREM RoomIsAlwaysMade == StoreSpec => RoomIsMade
  BY LimitsHold, IdlestIsEvicted, OldestIsEvicted DEF RoomIsMade

\* A hook finds what the session's hooks left, or a fresh object: the former for sure
\* within the lifetime and while fewer than MaxSessions others were obtained after it,
\* the latter for sure after the lifetime and once the session is deleted
\* (index.ts:269-311).
THEOREM StateIsKept == StoreSpec => WorkIsKept
<1>1. ASSUME StoreInv, [StoreNext]_storeVars
      PROVE  [\A s \in Live' : Use(s) =>
                LET found == heap'[sessions'[s]]
                    alive == {st \in left[s] : now < st.touchedAt + SessionTTL}
                    kept  == {[st EXCEPT !.touchedAt = now] : st \in alive}
                IN  /\ found \in kept \cup {Fresh(s)}
                    /\ alive # {} /\ Cardinality(since[s]) < MaxSessions => found \in kept]_storeVars
  <2>1. \A s \in Live' : s \in Sessions
    BY DEF Live
  <2> QED
    BY <1>1, <2>1, WorkIsKeptStep
<1> QED
  BY <1>1, StoreAlways, PTL DEF StoreSpec, WorkIsKept

\* No approval outlives, in the cache, the session it was given in
\* (index.ts:270-302, 676-679).
THEOREM DroppedIsForgotten == StoreSpec => DropForgets
<1>1. ASSUME StoreInv, [StoreNext]_storeVars
      PROVE  [\A s \in Live : sessions'[s] # sessions[s] =>
                \A k \in Keys : k.sid = s => cache'[k] = Absent]_<<sessions, cache>>
  BY <1>1, DropForgetsStep
<1> QED
  BY <1>1, StoreAlways, PTL DEF StoreSpec, DropForgets
=============================================================================

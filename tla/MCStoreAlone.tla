----------------------------- MODULE MCStoreAlone ------------------------------
(* A small instance of StoreAlone for TLC: any session, object or view may    *)
(* stand for any other.  Nothing depends on which address an object has, so   *)
(* the view leaves the addresses out: what counts is the object each session  *)
(* has in the map, and getSessionState overwrites an object nothing refers to *)
(* when it uses its address.                                                  *)
EXTENDS StoreAlone, TLC

Interchangeable == Permutations(Sessions) \cup Permutations(Objs) \cup Permutations(Views)

Seen ==
  <<[s \in Sessions |-> IF s \in Live THEN heap[sessions[s]] ELSE Fresh(s)],
    Live, recency, cache, cacheOrder, now, since, left>>
===============================================================================

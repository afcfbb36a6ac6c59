---------------------------- MODULE InsertionOrder ----------------------------
(***************************************************************************)
(* The iteration order of a JavaScript Map, as the plugin relies on it: a  *)
(* key that is set for the first time goes to the end, a key that is set   *)
(* again keeps its place, a key that is deleted and set goes to the end.   *)
(*                                                                         *)
(* An order is a set of pairs <<a, b>>: a was inserted before b.  Pairs of *)
(* keys that are not (or no longer) in the map are not in the order.       *)
(***************************************************************************)
EXTENDS Naturals, FiniteSets

\* Map.delete of every key in gone.
Without(order, gone) == {p \in order : p[1] \notin gone /\ p[2] \notin gone}

\* Map.set of a key: behind all of present, unless it is one of them.
Appended(order, present, key) ==
  IF key \in present THEN order ELSE order \cup (present \X {key})

\* "while (map.size >= limit) map.delete(oldest)": the loop stops at limit - 1
\* keys, so a key goes exactly when limit - 1 others or more were inserted
\* after it.
Overflow(order, present, limit) ==
  {k \in present : Cardinality({j \in present : <<k, j>> \in order}) + 1 >= limit}
===============================================================================

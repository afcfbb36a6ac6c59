----------------------------- MODULE MCSessionGate -----------------------------
(***************************************************************************)
(* Small instances of SessionGate for TLC.  Calls, confirmations, commands *)
(* and objects are model values where a run takes them to be               *)
(* interchangeable: commands are when each has a normal form of its own.   *)
(***************************************************************************)
EXTENDS SessionGate, TLC

\* Everything happens in one session.
OneSession == [x \in Calls \cup Confirms |-> CHOOSE s \in Sessions : TRUE]

\* No two commands share a normal form.
Distinct == [x \in Commands |-> x]

\* docker logs web and docker logs db share one; ls has its own.
DockerLogs == [x \in Commands |-> IF x = "logs db" THEN "logs web" ELSE x]

Interchangeable ==
  Permutations(Calls) \cup Permutations(Objs) \cup Permutations(Confirms) \cup Permutations(Commands)
===============================================================================

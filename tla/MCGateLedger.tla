------------------------------ MODULE MCGateLedger -----------------------------
(* Small instances of GateLedger for TLC.                                     *)
EXTENDS GateLedger, TLC

OneSession == [x \in Calls \cup Confirms |-> CHOOSE s \in Sessions : TRUE]
Distinct == [x \in Commands |-> x]
Interchangeable ==
  Permutations(Calls) \cup Permutations(Objs) \cup Permutations(Confirms) \cup Permutations(Commands)
===============================================================================

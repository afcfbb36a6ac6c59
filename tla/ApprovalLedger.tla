----------------------------- MODULE ApprovalLedger ----------------------------
(***************************************************************************)
(* What the fail_ask flow promises, whatever the plugin's tables do: a     *)
(* command that was refused may be put to the user; the user's yes lets    *)
(* one command of the same session through, the same one; and a request    *)
(* that was denied, replaced, dropped or used up never comes back.         *)
(*                                                                         *)
(* A request is named after the call that was refused.                     *)
(***************************************************************************)
CONSTANTS Calls, Commands,
          Together     \* pairs of calls of the same session

VARIABLES command,  \* the command of each call, settled once it is refused or let through
          stage,    \* where each request stands
          ran       \* the calls each request has let through

ledger == <<command, stage, ran>>

Stages == {"none", "asked", "granted", "spent", "void"}

LedgerInit ==
  /\ command \in [Calls -> Commands]
  /\ stage = [i \in Calls |-> "none"]
  /\ ran = [i \in Calls |-> {}]

\* A call that has come to something keeps its command.
CommandsStand ==
  /\ command' \in [Calls -> Commands]
  /\ \A c \in Calls : stage[c] # "none" \/ (\E i \in Calls : c \in ran[i]) => command'[c] = command[c]

\* Requests may be dropped at any time, whether asked or granted.
Dropped == {i \in Calls : stage[i] \in {"asked", "granted"} /\ stage'[i] = "void"}

\* Nothing else changes but request i, and what is dropped.
OnlyTo(i, to) ==
  stage' = [j \in Calls |-> IF j = i THEN to ELSE IF j \in Dropped THEN "void" ELSE stage[j]]

\* A call is refused: its request is put, or it never will be.
Refuse(i) == /\ stage[i] = "none"
             /\ OnlyTo(i, "asked") \/ OnlyTo(i, "void")
             /\ UNCHANGED ran

Grant(i) == stage[i] = "asked" /\ OnlyTo(i, "granted") /\ UNCHANGED ran

\* The granted request lets c through.
Run(i, c) == /\ stage[i] = "granted"
             /\ command[i] = command[c] /\ <<i, c>> \in Together
             /\ OnlyTo(i, "spent")
             /\ ran' = [ran EXCEPT ![i] = {c}]

Drop == /\ stage' = [j \in Calls |-> IF j \in Dropped THEN "void" ELSE stage[j]]
        /\ UNCHANGED ran

LedgerNext ==
  /\ CommandsStand
  /\ Drop \/ \E i \in Calls : Refuse(i) \/ Grant(i) \/ \E c \in Calls : Run(i, c)

Ledger == LedgerInit /\ [][LedgerNext]_ledger
===============================================================================

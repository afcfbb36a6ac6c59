------------------------------- MODULE GateLedger ------------------------------
(***************************************************************************)
(* SessionGate implements ApprovalLedger: where each request stands, read  *)
(* off the state objects and the calls.                                    *)
(***************************************************************************)
EXTENDS SessionGate

HasPending(i)  == \E o \in Objs : \E p \in heap[o].pending : p.id = i
HasApproval(i) == \E o \in Objs : \E a \in heap[o].approved : a.id = i
RanBy(i)       == {c \in Calls : i \in call[c].grant}

StageOf(i) ==
  IF RanBy(i) # {} THEN "spent"
  ELSE IF HasApproval(i) THEN "granted"
  ELSE IF HasPending(i) THEN "asked"
  ELSE IF call[i].pc = "blocked" THEN "void"
  ELSE "none"

L == INSTANCE ApprovalLedger WITH
       Commands <- Commands \cup {Blank},
       Together <- {p \in Calls \X Calls : SessionOf[p[1]] = SessionOf[p[2]]},
       command <- [i \in Calls |-> call[i].cmd],
       stage <- [i \in Calls |-> StageOf(i)],
       ran <- [i \in Calls |-> RanBy(i)]

\* Every step of the hooks is a step of the ledger, or none of its business
\* (index.ts:463-478, 609-633, 694-776).
ImplementsLedger == L!Ledger
===============================================================================

----------------------------- MODULE FillLedger -----------------------------
(***************************************************************************)
(* What reconciliation promises about fills: the broker executes fills,    *)
(* and the strategy state books executed fills, each of them once,         *)
(* however many processes reconcile at the same time and wherever they     *)
(* stop.                                                                   *)
(***************************************************************************)
EXTENDS Naturals

CONSTANT Fill

VARIABLES
    executed,  \* fills the broker has executed
    booked     \* how often each fill has been folded into the state

LedgerInit == executed = {} /\ booked = [f \in Fill |-> 0]

Executes == \E f \in Fill \ executed :
                executed' = executed \cup {f} /\ UNCHANGED booked

Books == \E S \in SUBSET {f \in executed : booked[f] = 0} :
             /\ booked' = [f \in Fill |-> IF f \in S THEN 1 ELSE booked[f]]
             /\ UNCHANGED executed

LedgerNext == Executes \/ Books

LedgerSpec == LedgerInit /\ [][LedgerNext]_<<executed, booked>>
=============================================================================

------------------------------- MODULE Orders -------------------------------
(***************************************************************************)
(* Vocabulary shared by the local database, the broker account and the     *)
(* commands: days, phases, order intents, order numbers and fills.         *)
(*                                                                         *)
(* One profile (one account, one symbol) is modelled; profiles share no    *)
(* row of the tables used here.                                            *)
(***************************************************************************)
EXTENDS Integers, Sequences, FiniteSets

CONSTANTS
    MaxDay,       \* number of trading sessions explored
    MaxOrders,    \* bound on the orders the broker ever accepts
    MaxFills,     \* bound on the executions the broker ever reports
    MaxVersion,   \* no command is started once the state row passes this version
    InitialQty,   \* shares held, locally and at the broker, at the beginning
    BuyQty        \* shares of every planned buy (floor_quantity of the budget)

ASSUME BoundsAssumption ==
    /\ MaxDay \in Nat \ {0}
    /\ MaxOrders \in Nat
    /\ MaxFills \in Nat
    /\ MaxVersion \in Nat
    /\ InitialQty \in Nat
    /\ BuyQty \in Nat \ {0}

Day == 1..MaxDay
Phase == {"SELL", "BUY"}
Role == {"STAR_QUARTER_SELL", "TARGET_SELL", "INITIAL_BUY", "STAR_FULL_BUY"}
ProfileStatus == {"OFF", "ON", "LOCKED"}

(* Order numbers and fill numbers are positions in the broker's books.     *)
OrderNo == 1..MaxOrders
FillId == 1..MaxFills

(***************************************************************************)
(* An OrderIntent.  intent_id is a hash of session, phase, role and the    *)
(* input hash, and the input hash covers the profile (its status included) *)
(* and the whole strategy state (its version included), so an intent is    *)
(* identified with that content.  Its side is that of its phase.           *)
(***************************************************************************)
Intent == [day : Day, phase : Phase, role : Role, qty : Nat \ {0},
           version : Nat, status : ProfileStatus]

(* Order of the role column, for ORDER BY side DESC, role within a phase.  *)
RoleRank(role) == IF role = "TARGET_SELL" THEN 2 ELSE 1

(***************************************************************************)
(* The strategy state row: optimistic-lock version, session of the last    *)
(* plan, position, reconciliation_required.  "folded" counts how often     *)
(* each fill has been folded into the position; it stands for the cash and *)
(* cost columns, which move with every folded fill.                        *)
(***************************************************************************)
StateRow == [version : Nat, session : Nat, quantity : Nat,
             required : BOOLEAN, folded : [FillId -> Nat]]

InitialState == [version |-> 0, session |-> 0, quantity |-> InitialQty,
                 required |-> FALSE, folded |-> [f \in FillId |-> 0]]

(* A bug that keeps the version when only the flag changes.                *)
FlagSameVersion(s, required) == [s EXCEPT !.required = required]

(* StrategyState.evolved(reconciliation_required=...)                      *)
Flag(s, required) == [s EXCEPT !.version = @ + 1, !.required = required]
=============================================================================

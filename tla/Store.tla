------------------------------- MODULE Store -------------------------------
(***************************************************************************)
(* The SQLite database of StateStore, for one profile.  Every StateStore   *)
(* method opens one connection and commits once, so it is atomic: here it  *)
(* is an operator from the database to the database, used by the command   *)
(* steps in Reconciliation, Execution and Commands.                        *)
(***************************************************************************)
EXTENDS Orders

VARIABLE db

IntentStatus == {"PENDING", "STALE", "SUBMITTED", "UNKNOWN"}
OrderStatus == {"ACCEPTED", "OPEN", "PARTIAL", "UNKNOWN", "CANCEL_REQUESTED",
                "FILLED", "CANCELLED", "CANCELLED_PARTIAL", "REJECTED"}
Unresolved == {"ACCEPTED", "OPEN", "PARTIAL", "UNKNOWN", "CANCEL_REQUESTED"}

(* A row of broker_orders; "NONE" marks an order number with no row.       *)
OrderRow == [intent : Intent, status : OrderStatus]
NoRow == [status |-> "NONE"]

Database ==
    [status : ProfileStatus,          \* profiles.status
     emergency : BOOLEAN,             \* settings.emergency_stop
     state : StateRow,                \* strategy_states
     intents : [IntentStatus -> SUBSET Intent],
     orders : [OrderNo -> OrderRow \cup {NoRow}],
     fills : SUBSET FillId,           \* fills
     applied : SUBSET FillId,         \* fills with applied = 1
     claims : SUBSET (Day \X Phase)]  \* automation_claims

StoreType == db \in Database

(* A profile that has been switched on, holding InitialQty shares.         *)
StoreInit ==
    db = [status |-> "ON", emergency |-> FALSE, state |-> InitialState,
          intents |-> [s \in IntentStatus |-> {}],
          orders |-> [n \in OrderNo |-> NoRow],
          fills |-> {}, applied |-> {}, claims |-> {}]

-----------------------------------------------------------------------------
(* Queries.                                                                *)
Recorded(d, n) == d.orders[n] # NoRow
HasOrderFor(d, i) == \E n \in OrderNo : Recorded(d, n) /\ d.orders[n].intent = i
UnresolvedOrders(d) ==
    {n \in OrderNo : Recorded(d, n) /\ d.orders[n].status \in Unresolved}
PendingIntents(d, day, phase) ==
    {i \in d.intents["PENDING"] : i.day = day /\ i.phase = phase}
PendingFills(d) == d.fills \ d.applied
HasUnknownIntents(d) == d.intents["UNKNOWN"] # {}

-----------------------------------------------------------------------------
(* The intents table with the rows of S moved to status st.                *)
Moved(intents, S, st) ==
    [s \in IntentStatus |-> IF s = st THEN intents[s] \cup S ELSE intents[s] \ S]

(* A bug that writes the state row without comparing versions.             *)
CanSaveAlways(d, expected) == TRUE

(* The optimistic lock: UPDATE ... WHERE version = expected finds the row. *)
CanSave(d, expected) == d.state.version = expected
SaveState(d, s) == [d EXCEPT !.state = s]

(* A bug that stores the state and leaves its fills pending.               *)
SaveReconciledStateUnmarked(d, s, done) == [d EXCEPT !.state = s]

(* One transaction: the state row and the applied marks of its fills.      *)
SaveReconciledState(d, s, done) ==
    [d EXCEPT !.state = s, !.applied = @ \cup done]

SetProfileStatus(d, st) == [d EXCEPT !.status = st]

(* An earlier plan of the phase that was never submitted becomes STALE;    *)
(* the new intents are inserted unless a row with that id exists.          *)
RecordDecision(d, day, phase, plan) ==
    LET stale == PendingIntents(d, day, phase) \ plan
        known == UNION {d.intents[s] : s \in IntentStatus}
    IN  [d EXCEPT !.intents =
            Moved(Moved(@, stale, "STALE"), plan \ known, "PENDING")]

(* intent_id is UNIQUE in broker_orders: a second row for it is refused.   *)
CanRecordOrder(d, n, i) == ~HasOrderFor(d, i) /\ ~Recorded(d, n)
RecordBrokerOrder(d, n, i) ==
    [d EXCEPT !.orders[n] = [intent |-> i, status |-> "ACCEPTED"],
              !.intents = Moved(@, {i}, "SUBMITTED")]

(* Bugs: an ambiguous answer taken for a refusal; an UNKNOWN intent that   *)
(* does not stop the profile.                                              *)
MarkIntentUnknownForgotten(d, i) == d
MarkIntentUnknownUnlocked(d, i) == [d EXCEPT !.intents = Moved(@, {i}, "UNKNOWN")]

(* UNKNOWN, LOCKED and reconciliation_required in one transaction.         *)
MarkIntentUnknown(d, i) ==
    [d EXCEPT !.intents = Moved(@, {i}, "UNKNOWN"),
              !.status = "LOCKED",
              !.state = IF @.required THEN @ ELSE Flag(@, TRUE)]

UpdateOrderStatus(d, n, st) == [d EXCEPT !.orders[n].status = st]
AddFill(d, f) == [d EXCEPT !.fills = @ \cup {f}]
ClaimAutomation(d, key) == [d EXCEPT !.claims = @ \cup {key}]
SetEmergency(d, on) == [d EXCEPT !.emergency = on]
=============================================================================

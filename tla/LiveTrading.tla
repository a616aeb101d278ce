---------------------------- MODULE LiveTrading ----------------------------
(***************************************************************************)
(* The live trading system: processes running commands over one database   *)
(* and one broker account, and the properties that keep the account safe.  *)
(***************************************************************************)
EXTENDS Commands

vars == <<db, broker, clock, proc>>

Init == StoreInit /\ BrokerInit /\ ProcessInit

ProcessNext(p) == RunStep(p) \/ ReconcileStep(p) \/ CommandStep(p) \/ Crash(p)
Next ==
    \/ BrokerNext /\ UNCHANGED <<db, proc>>
    \/ \E p \in Procs : ProcessNext(p)

Spec == Init /\ [][Next]_vars

-----------------------------------------------------------------------------
(* The database, the broker's books and the locals of every process hold   *)
(* values of their columns' types.                                         *)
TypeOK == StoreType /\ BrokerType /\ ProcessType

(* reconciliation.py: a fill marked applied has been folded into the state *)
(* exactly once and any other fill not at all, whatever runs concurrently  *)
(* and wherever a process dies.                                            *)
FillsBookedExactlyOnce ==
    \A f \in FillId :
        db.state.folded[f] = IF f \in db.applied THEN 1 ELSE 0

(* What each execution moves the position by: a sell down, a buy up.       *)
Moves == [f \in 1..Len(broker.execs) |->
             IF FillSide(f) = "SELL" THEN -FillQty(f) ELSE FillQty(f)]

(* The position in the state row is the initial position moved by the      *)
(* fills that are marked applied.                                          *)
PositionIsAppliedFills ==
    db.state.quantity = InitialQty + SumFunctionOnSet(Moves, db.applied)

(* The store and the reconciliation steps refine the abstract ledger.      *)
Ledger == INSTANCE FillLedger WITH Fill <- FillId,
                                   executed <- 1..Len(broker.execs),
                                   booked <- db.state.folded
FillsAreLedger == Ledger!LedgerSpec

(* _save_state: whatever rewrites the state row raises its version, so a   *)
(* version read earlier identifies one content of the row.                 *)
StateVersionsAdvance ==
    [][db'.state # db.state => db'.state.version > db.state.version]_vars

(* The broker lists every order under the session date of its intent.      *)
Dated(b) == \A n \in 1..Len(b.orders) : b.orders[n].intent.day = b.orders[n].day

(* execute_intents with has_order_for_intent and UNKNOWN: an intent        *)
(* reaches the broker at most once.  This needs session dates that agree   *)
(* with the broker's: the history is asked for by session date.            *)
NoDuplicateSubmission ==
    Dated(broker) =>
        \A m, n \in 1..Len(broker.orders) :
            m # n => broker.orders[m].intent # broker.orders[n].intent

(* Process p sends an order to the broker in this step.                    *)
SendsOrder(p) == At(p, "exec_place") /\ proc'[p] # proc[p] /\ broker' # broker
Sends == \E p \in Procs : SendsOrder(p)

(* mark_intent_unknown: as long as the fate of an order is unknown, no     *)
(* further order is sent.                                                  *)
NoOrderWhileUnknown == [][Sends => ~HasUnknownIntents(db)]_vars

(* reconcile_dbsec before every run: a run whose session date is the       *)
(* broker's sends no order in a session in which the broker has an order   *)
(* that the database does not know.                                        *)
NoOrderOverAlienOrder ==
    [][\A p \in Procs :
          SendsOrder(p) /\ proc[p].day = clock.day /\ Dated(broker) =>
              \A n \in 1..Len(broker.orders) :
                  broker.orders[n].day = clock.day => Recorded(db, n)]_vars

(* assert_live_gates: orders are sent only while the profile is ON, the    *)
(* emergency stop is off and no reconciliation is required.                *)
OrdersOnlyWhileAllowed ==
    [][Sends => db.status = "ON" /\ ~db.emergency /\ ~db.state.required]_vars

(* An order that has reached a final status in the database keeps it.      *)
TerminalStaysTerminal ==
    [][\A n \in OrderNo :
          Recorded(db, n) /\ db.orders[n].status \notin Unresolved
              => db'.orders[n] = db.orders[n]]_vars

(* Shares of an order that may still be sold.                              *)
OpenSell(o) ==
    IF Working(o) /\ o.intent.phase = "SELL" THEN Remaining(o) ELSE 0

(* _sell_specs and preflight_intents: the sell orders that may still       *)
(* execute never exceed the shares held.                                   *)
OpenSellsCovered ==
    SumFunctionOnSet([n \in 1..Len(broker.orders) |-> OpenSell(broker.orders[n])],
                     1..Len(broker.orders)) <= broker.holding

(* start_date of reconcile_dbsec: between commands, an execution that is   *)
(* not in the fills table, of an order recorded under the date at which    *)
(* the broker lists it, lies in the window that the next reconciliation of *)
(* the broker's day asks for.                                              *)
FillsStayReachable ==
    (\A p \in Procs : ~Busy(p)) =>
        \A f \in 1..Len(broker.execs) \ db.fills :
            LET n == broker.execs[f].order
                day == broker.orders[n].day
            IN  Recorded(db, n) /\ db.orders[n].intent.day = day =>
                    day >= WindowStart(db, clock.day)
=============================================================================

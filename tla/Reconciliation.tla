--------------------------- MODULE Reconciliation ---------------------------
(***************************************************************************)
(* reconcile_dbsec: read the strategy state, fetch the broker's history    *)
(* from the oldest unresolved order on, write order statuses and fills,    *)
(* fold the fills not yet applied into the state under the optimistic      *)
(* lock, compare the position with the broker's holding, and set or clear  *)
(* reconciliation_required.  Called by four commands, which continue in    *)
(* Resume when it returns.                                                 *)
(***************************************************************************)
EXTENDS Process

(* What the caller of reconcile_dbsec does with the state it returns.      *)
Resume(p, required) ==
    proc' = [proc EXCEPT ![p] =
        CASE @.cmd \in {"run", "tick"} /\ ~@.submitted /\ ~required
                                      -> Keep(@, "plan_read")
          [] @.cmd = "on" /\ ~required -> Keep(@, "on_set")
          [] @.cmd = "off"             -> Keep(@, IF required THEN "lock_status"
                                                              ELSE "off_check")
          [] OTHER                     -> Fresh]

(* What it does when an inquiry fails: with a BrokerError, a run that has  *)
(* submitted orders and automation off lock the profile; every other       *)
(* command, and any command with an error no one catches, just fails.      *)
BrokerFails(p) ==
    /\ \/ (proc[p].cmd = "off" \/ proc[p].submitted) /\ Enter(p, "lock_status")
       \/ End(p)
    /\ UNCHANGED <<db, broker, clock>>

(* save_state(s, expected); a lost race raises RuntimeError, which no      *)
(* caller handles.                                                         *)
SaveOrAbort(p, s, expected, label) ==
    /\ IF CanSave(db, expected)
         THEN /\ db' = SaveState(db, s)
              /\ proc' = [proc EXCEPT ![p].pc = label, ![p].state = s]
         ELSE End(p) /\ UNCHANGED db
    /\ UNCHANGED <<broker, clock>>

-----------------------------------------------------------------------------
RecState(p) ==
    /\ At(p, "rec_state")
    /\ proc' = [proc EXCEPT ![p].state = db.state, ![p].pc = "rec_orders"]
    /\ UNCHANGED <<db, broker, clock>>

(* A bug that only ever asks for the orders of this session.               *)
WindowStartToday(d, session) == session

(* start_date = min(order dates of the unresolved orders, or this session) *)
WindowStart(d, session) ==
    LET days == {d.orders[n].intent.day : n \in UnresolvedOrders(d)}
    IN  IF days = {} THEN session
        ELSE CHOOSE x \in days : \A y \in days : x <= y

RecOrders(p) ==
    /\ At(p, "rec_orders")
    /\ proc' = [proc EXCEPT ![p].from = WindowStart(db, proc[p].day),
                            ![p].pc = "rec_history"]
    /\ UNCHANGED <<db, broker, clock>>

RecHistory(p) ==
    /\ At(p, "rec_history")
    /\ \/ /\ proc' = [proc EXCEPT ![p].rows = History(proc[p].from, proc[p].day),
                                  ![p].from = 1, ![p].pc = "rec_row"]
          /\ UNCHANGED <<db, broker, clock>>
       \/ BrokerFails(p)

(* get_order finds a row by number, account and order date.                *)
LocalOrder(row) ==
    /\ Recorded(db, row.order)
    /\ db.orders[row.order].intent.day = row.day

IsNextRow(row, rows) ==
    \A r \in rows : \/ row.order < r.order
                    \/ row.order = r.order /\ row.fill <= r.fill

(* A bug that takes every row of a known order for an execution.           *)
RecKnownRowUnexecuted(p, row) ==
    /\ LocalOrder(row)
    /\ db' = UpdateOrderStatus(db, row.order, row.status)
    /\ proc' = [proc EXCEPT ![p].rows = @ \ {row}, ![p].fill = row.fill,
                            ![p].pc = "rec_fill"]
    /\ UNCHANGED <<broker, clock>>

(* A row of a known order: its status is overwritten; then its fill.       *)
RecKnownRow(p, row) ==
    /\ LocalOrder(row)
    /\ db' = UpdateOrderStatus(db, row.order, row.status)
    /\ proc' = [proc EXCEPT ![p].rows = @ \ {row},
                            ![p].fill = row.fill,
                            ![p].pc = IF row.fill = 0 THEN "rec_row"
                                                      ELSE "rec_fill"]
    /\ UNCHANGED <<broker, clock>>

(* A bug that skips the rows of orders the database does not know.         *)
RecAlienRowIgnored(p, row) ==
    /\ ~LocalOrder(row)
    /\ proc' = [proc EXCEPT ![p].rows = @ \ {row}]
    /\ UNCHANGED <<db, broker, clock>>

(* A row of an order the database does not know: _flag_mismatch.           *)
RecAlienRow(p, row) ==
    /\ ~LocalOrder(row)
    /\ LET l == [proc[p] EXCEPT !.rows = @ \ {row}, !.alien = TRUE,
                                !.pc = "rec_lock"]
           flagged == Flag(l.state, TRUE)
       IN  IF l.state.required
             THEN proc' = [proc EXCEPT ![p] = l] /\ UNCHANGED db
           ELSE IF CanSave(db, l.state.version)
             THEN /\ db' = SaveState(db, flagged)
                  /\ proc' = [proc EXCEPT ![p] = [l EXCEPT !.state = flagged]]
           ELSE End(p) /\ UNCHANGED db
    /\ UNCHANGED <<broker, clock>>

RecRow(p) ==
    /\ At(p, "rec_row")
    /\ \E row \in proc[p].rows :
          /\ IsNextRow(row, proc[p].rows)
          /\ RecKnownRow(p, row) \/ RecAlienRow(p, row)

RecFill(p) ==
    /\ At(p, "rec_fill")
    /\ db' = AddFill(db, proc[p].fill)
    /\ proc' = [proc EXCEPT ![p].fill = 0, ![p].pc = "rec_row"]
    /\ UNCHANGED <<broker, clock>>

RecLock(p) ==
    /\ At(p, "rec_lock")
    /\ db' = SetProfileStatus(db, "LOCKED")
    /\ Goto(p, "rec_row")
    /\ UNCHANGED <<broker, clock>>

RecPending(p) ==
    /\ At(p, "rec_row")
    /\ proc[p].rows = {}
    /\ proc' = [proc EXCEPT ![p].pend = PendingFills(db),
                            ![p].done = {},
                            ![p].base = IF PendingFills(db) = {} THEN 0
                                        ELSE proc[p].state.version,
                            ![p].pc = IF PendingFills(db) = {}
                                        THEN "rec_holding" ELSE "rec_apply"]
    /\ UNCHANGED <<db, broker, clock>>

(* apply_fill, for one fill; a sell beyond the position raises ValueError. *)
CanFold(s, f) == FillSide(f) = "SELL" => FillQty(f) <= s.quantity
Fold(s, f) ==
    [s EXCEPT !.version = @ + 1,
              !.quantity = IF FillSide(f) = "SELL" THEN @ - FillQty(f)
                                                   ELSE @ + FillQty(f),
              !.folded[f] = @ + 1]

(* apply_fills_with_cycles takes the fills in the order they executed.     *)
RecFold(p) ==
    /\ At(p, "rec_apply")
    /\ \E f \in proc[p].pend :
          /\ \A g \in proc[p].pend : f <= g
          /\ IF CanFold(proc[p].state, f)
               THEN proc' = [proc EXCEPT ![p].state = Fold(@, f),
                                         ![p].pend = @ \ {f},
                                         ![p].done = @ \cup {f}]
               ELSE End(p)
    /\ UNCHANGED <<db, broker, clock>>

RecSave(p) ==
    /\ At(p, "rec_apply")
    /\ proc[p].pend = {}
    /\ IF CanSave(db, proc[p].base)
         THEN /\ db' = SaveReconciledState(db, proc[p].state, proc[p].done)
              /\ proc' = [proc EXCEPT ![p].done = {}, ![p].base = 0,
                                      ![p].pc = "rec_holding"]
         ELSE End(p) /\ UNCHANGED db
    /\ UNCHANGED <<broker, clock>>

RecHolding(p) ==
    /\ At(p, "rec_holding")
    /\ \/ /\ Goto(p, IF broker.holding = proc[p].state.quantity
                       THEN "rec_unknown"
                     ELSE IF proc[p].state.required
                       THEN "rec_quit" ELSE "rec_flag")
          /\ UNCHANGED <<db, broker, clock>>
       \/ BrokerFails(p)

(* The position differs from the holding: _flag_mismatch, and return.      *)
RecFlag(p) ==
    /\ At(p, "rec_flag")
    /\ SaveOrAbort(p, Flag(proc[p].state, TRUE), proc[p].state.version,
                   "rec_quit")

RecQuit(p) ==
    /\ At(p, "rec_quit")
    /\ db' = SetProfileStatus(db, "LOCKED")
    /\ Resume(p, TRUE)
    /\ UNCHANGED <<broker, clock>>

(* Without an unexplained order or intent the flag may be cleared.         *)
RecUnknown(p) ==
    /\ At(p, "rec_unknown")
    /\ IF proc[p].alien \/ HasUnknownIntents(db) \/ ~proc[p].state.required
         THEN Resume(p, proc[p].state.required)
         ELSE Goto(p, "rec_clear")
    /\ UNCHANGED <<db, broker, clock>>

RecClear(p) ==
    /\ At(p, "rec_clear")
    /\ IF CanSave(db, proc[p].state.version)
         THEN /\ db' = SaveState(db, Flag(proc[p].state, FALSE))
              /\ Resume(p, FALSE)
         ELSE End(p) /\ UNCHANGED db
    /\ UNCHANGED <<broker, clock>>

ReconcileStep(p) ==
    \/ RecState(p) \/ RecOrders(p) \/ RecHistory(p)
    \/ RecRow(p) \/ RecFill(p) \/ RecLock(p)
    \/ RecPending(p) \/ RecFold(p) \/ RecSave(p)
    \/ RecHolding(p) \/ RecFlag(p) \/ RecQuit(p)
    \/ RecUnknown(p) \/ RecClear(p)
=============================================================================

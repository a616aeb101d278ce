------------------------------ MODULE Commands ------------------------------
(***************************************************************************)
(* The other commands of cli.py that touch orders and safety state:        *)
(* reconcile, automation on, automation off, orders cancel, emergency-stop *)
(* on and off; and the death of a process.                                 *)
(***************************************************************************)
EXTENDS Execution

StartReconcile(p) ==
    /\ MayStart(p, "reconcile")
    /\ \E day \in SessionDates :
          proc' = [proc EXCEPT ![p] = Started("reconcile", "SELL", day, "rec_state")]
    /\ UNCHANGED <<db, broker, clock>>

(* automation on: the readiness checks, a reconciliation, then ON.         *)
StartOn(p) ==
    /\ MayStart(p, "on")
    /\ db.status # "LOCKED"
    /\ ~db.emergency
    /\ ~db.state.required
    /\ \E day \in SessionDates :
          proc' = [proc EXCEPT ![p] = Started("on", "SELL", day, "rec_state")]
    /\ UNCHANGED <<db, broker, clock>>

(* The status is written whatever it has become since it was checked.      *)
OnSet(p) ==
    /\ At(p, "on_set")
    /\ db' = SetProfileStatus(db, "ON") \/ UNCHANGED db
    /\ End(p)
    /\ UNCHANGED <<broker, clock>>

-----------------------------------------------------------------------------
(* automation off: OFF first, then cancel what is unresolved, reconcile,   *)
(* and lock the profile if anything remains open or unknown.               *)
StartOff(p) ==
    /\ MayStart(p, "off")
    /\ db' = SetProfileStatus(db, "OFF")
    /\ \E day \in SessionDates :
          proc' = [proc EXCEPT ![p] = Started("off", "SELL", day, "off_orders")]
    /\ UNCHANGED <<broker, clock>>

OffOrders(p) ==
    /\ At(p, "off_orders")
    /\ proc' = [proc EXCEPT
         ![p].cancel = {n \in UnresolvedOrders(db) : db.orders[n].status
                            \notin {"UNKNOWN", "CANCEL_REQUESTED"}},
         ![p].pc = IF UnresolvedOrders(db) = {} THEN "off_unknown"
                                                ELSE "off_cancel"]
    /\ UNCHANGED <<db, broker, clock>>

(* orders cancel, for one order the user names.                            *)
StartCancel(p) ==
    /\ MayStart(p, "cancel")
    /\ \E n \in OrderNo :
          /\ Recorded(db, n)
          /\ proc' = [proc EXCEPT ![p] =
               [Started("cancel", "SELL", clock.day, "off_cancel")
                  EXCEPT !.cancel = {n}]]
    /\ UNCHANGED <<db, broker, clock>>

(* A refused or ambiguous cancellation: automation off locks the profile.  *)
(* An error that is not caught ends the command.                           *)
CancelFails(p) ==
    \/ proc[p].cmd = "off" /\ Enter(p, "lock_status")
    \/ End(p)

(* A bug that takes a refused cancellation for an accepted one.            *)
OffCancelUnchecked(p) ==
    /\ At(p, "off_cancel")
    /\ \E n \in proc[p].cancel :
          /\ \A m \in proc[p].cancel : n <= m
          /\ proc' = [proc EXCEPT ![p].cancel = @ \ {n}, ![p].order = n,
                                  ![p].pc = "off_mark"]
    /\ UNCHANGED <<db, broker, clock>>

(* cancel_order_for_symbol: accepted, or its answer is lost, for an order  *)
(* that still works; refused otherwise.                                    *)
OffCancel(p) ==
    /\ At(p, "off_cancel")
    /\ \E n \in proc[p].cancel :
          /\ \A m \in proc[p].cancel : n <= m
          /\ \/ /\ Working(broker.orders[n])
                /\ broker' = [broker EXCEPT !.orders[n].cancelling = TRUE]
                /\ \/ proc' = [proc EXCEPT ![p].cancel = @ \ {n},
                                           ![p].order = n,
                                           ![p].pc = "off_mark"]
                   \/ CancelFails(p)
             \/ CancelFails(p) /\ UNCHANGED broker
    /\ UNCHANGED <<db, clock>>

OffMark(p) ==
    /\ At(p, "off_mark")
    /\ db' = UpdateOrderStatus(db, proc[p].order, "CANCEL_REQUESTED")
    /\ IF proc[p].cmd = "off" THEN Goto(p, "off_cancel") ELSE End(p)
    /\ UNCHANGED <<broker, clock>>

OffCancelled(p) ==
    /\ At(p, "off_cancel")
    /\ proc[p].cancel = {}
    /\ Enter(p, "rec_state")
    /\ UNCHANGED <<db, broker, clock>>

OffCheck(p) ==
    /\ At(p, "off_check")
    /\ Goto(p, IF UnresolvedOrders(db) = {} THEN "off_unknown" ELSE "lock_status")
    /\ UNCHANGED <<db, broker, clock>>

OffUnknown(p) ==
    /\ At(p, "off_unknown")
    /\ db' = IF HasUnknownIntents(db) THEN SetProfileStatus(db, "LOCKED") ELSE db
    /\ End(p)
    /\ UNCHANGED <<broker, clock>>

(* LOCKED and reconciliation_required, in separate transactions: the error *)
(* path of automation off and of the reconciliation after a submission.    *)
LockStatus(p) ==
    /\ At(p, "lock_status")
    /\ db' = SetProfileStatus(db, "LOCKED")
    /\ Goto(p, "lock_read")
    /\ UNCHANGED <<broker, clock>>

LockRead(p) ==
    /\ At(p, "lock_read")
    /\ IF db.state.required
         THEN End(p)
         ELSE proc' = [proc EXCEPT ![p].state = db.state, ![p].pc = "lock_save"]
    /\ UNCHANGED <<db, broker, clock>>

LockSave(p) ==
    /\ At(p, "lock_save")
    /\ db' = IF CanSave(db, proc[p].state.version)
               THEN SaveState(db, Flag(proc[p].state, TRUE)) ELSE db
    /\ End(p)
    /\ UNCHANGED <<broker, clock>>

-----------------------------------------------------------------------------
(* emergency-stop on and off: one setting, whoever runs it.                *)
EmergencyStop(p) ==
    /\ At(p, "idle")
    /\ "emergency" \in CommandsOf[p]
    /\ db' = SetEmergency(db, ~db.emergency)
    /\ UNCHANGED <<proc, broker, clock>>

(* A process is killed, or the machine stops, between two steps.           *)
Crash(p) ==
    /\ Crashes
    /\ Busy(p)
    /\ Abort(p)

CommandStep(p) ==
    \/ StartReconcile(p) \/ StartOn(p) \/ StartOff(p) \/ StartCancel(p)
    \/ OnSet(p) \/ OffOrders(p) \/ OffCancel(p) \/ OffMark(p)
    \/ OffCancelled(p) \/ OffCheck(p) \/ OffUnknown(p)
    \/ LockStatus(p) \/ LockRead(p) \/ LockSave(p)
    \/ EmergencyStop(p)
=============================================================================

------------------------- MODULE SubmissionProofs -------------------------
(***************************************************************************)
(* What an order that is sent has behind it.                               *)
(*                                                                         *)
(* Ticks.  Any number of processes that are started by the scheduler only  *)
(* (OnlyScheduledRuns): a tick owns its session and phase from the moment  *)
(* its claim is written; whatever it sends has that day and phase, and no  *)
(* one sends for a claimed slot but its owner, once (ScheduleInv).         *)
(*                                                                         *)
(* One command at a time (OneAtATime), started in whatever way: what the   *)
(* database says of an order is known when an intent is sent (SoleInv),    *)
(* and if only ambiguous requests arrive late, and none when processes die *)
(* (LateMeansUnknown), a run whose session is not before the broker's day  *)
(* (Current) knows, when it sends, of everything the broker has or may     *)
(* still get (InformedInv): as long as the broker has listed every order   *)
(* under its session date (Dated).  A final status in the database is the  *)
(* broker's last word, and when nobody dies all executions of such an      *)
(* order are stored or about to be (FinalInv).                             *)
(*                                                                         *)
(* Both: what may still be sold is covered by the holding (CoverInv).      *)
(*                                                                         *)
(* First, per step, what it leaves alone of the claims, the requests to    *)
(* the broker and the job of the process; then the steps of _run_phase     *)
(* one by one.                                                             *)
(***************************************************************************)
EXTENDS LiveTradingProofs

(* Labels of a run before it executes, and while it executes its intents.  *)
Planning == {"claim", "profile", "plan_read", "plan_save", "plan_record",
             "exec_pending", "exec_gate"}
Executing == {"exec_check", "exec_place", "exec_record", "exec_unknown"}
Neutral == Label \ (Planning \cup Executing)

(* A step within the same command, with its submitted flag as it is.       *)
SameJob(l, m) == /\ m.cmd = l.cmd /\ m.day = l.day /\ m.phase = l.phase
                 /\ m.submitted = l.submitted
(* A process that runs no phase.                                           *)
Resting(l) == l.cmd \notin {"run", "tick"} /\ l.pc \in Neutral

(* Everyone else stays where they are.                                     *)
Others(p) == \A q \in Procs : q # p => proc'[q] = proc[q]

(* What the broker was asked to do is as before.                           *)
SameRequests(b, b2) ==
    /\ b2.inflight = b.inflight
    /\ Len(b2.orders) = Len(b.orders)
    /\ \A n \in 1..Len(b.orders) : b2.orders[n].intent = b.orders[n].intent

(* A step that is of no concern to the claims and to the submissions.      *)
Aside(p) ==
    /\ Others(p)
    /\ db'.claims = db.claims
    /\ SameRequests(broker, broker')
    /\ \/ Resting(proc'[p])
       \/ SameJob(proc[p], proc'[p]) /\ proc[p].pc \in Neutral /\ proc'[p].pc \in Neutral

(* A process without a command is at rest.                                 *)
LEMMA RestingFresh == Resting(Fresh)
BY DEF Resting, Fresh, Neutral, Label, Planning, Executing

(* An account that does not change was asked nothing.                      *)
LEMMA SameBroker == ASSUME broker' = broker PROVE SameRequests(broker, broker')
BY DEF SameRequests


(* The labels, by their names.                                             *)
LEMMA Labels ==
    /\ {"absent", "idle", "rec_state", "rec_orders", "rec_history", "rec_row", "rec_fill",
        "rec_lock", "rec_apply", "rec_holding", "rec_flag", "rec_quit", "rec_unknown",
        "rec_clear", "on_set", "off_orders", "off_cancel", "off_mark", "off_check",
        "off_unknown", "lock_status", "lock_read", "lock_save"} = Neutral
    /\ Planning \cap Neutral = {} /\ Executing \cap Neutral = {}
    /\ Planning \cap Executing = {}
BY DEF Neutral, Label, Planning, Executing

(* The locals of a process have their types.                               *)
LEMMA OfTypes == ASSUME IInv, NEW p \in Procs
    PROVE proc \in [Procs -> Locals] /\ proc[p] \in Locals
BY DEF IInv

(* A command that ends is at rest.                                         *)
LEMMA EndAside ==
    ASSUME IInv, NEW p \in Procs, End(p), db'.claims = db.claims,
           SameRequests(broker, broker')
    PROVE  Aside(p)
<1>1. proc' = [proc EXCEPT ![p] = Fresh] /\ proc \in [Procs -> Locals]
  BY DEF IInv, End
<1> QED BY <1>1, RestingFresh DEF Aside, Others

(* A command that moves on and drops its locals keeps its job.             *)
LEMMA EnterAside ==
    ASSUME IInv, NEW p \in Procs, NEW label \in Neutral, proc[p].pc \in Neutral,
           proc' = [proc EXCEPT ![p] = Keep(proc[p], label)],
           db'.claims = db.claims, SameRequests(broker, broker')
    PROVE  Aside(p)
<1>1. proc \in [Procs -> Locals]
  BY DEF IInv
<1>2. SameJob(proc[p], Keep(proc[p], label)) /\ Keep(proc[p], label).pc = label
  BY DEF SameJob, Keep, Fresh
<1> QED BY <1>1, <1>2 DEF Aside, Others

(* A command that moves on with its locals keeps its job.                  *)
LEMMA GotoAside ==
    ASSUME IInv, NEW p \in Procs, NEW label \in Neutral, proc[p].pc \in Neutral,
           Goto(p, label), db'.claims = db.claims, SameRequests(broker, broker')
    PROVE  Aside(p)
<1>1. proc \in [Procs -> Locals] /\ proc[p] \in Locals
  BY DEF IInv
<1>2. SameJob(proc[p], proc'[p]) /\ proc'[p].pc = label /\ Others(p)
  BY <1>1 DEF SameJob, Goto, Locals, Others
<1> QED BY <1>2 DEF Aside

(* A command that stays where it is or moves on, with its locals changed.  *)
LEMMA MoveAside ==
    ASSUME NEW p \in Procs, Others(p), SameJob(proc[p], proc'[p]),
           proc[p].pc \in Neutral, proc'[p].pc \in Neutral,
           db'.claims = db.claims, SameRequests(broker, broker')
    PROVE  Aside(p)
BY DEF Aside

(* A failed inquiry ends the command or locks the profile.                 *)
LEMMA BrokerFailsAside ==
    ASSUME IInv, NEW p \in Procs, BrokerFails(p), proc[p].pc \in Neutral
    PROVE  Aside(p)
<1>1. "lock_status" \in Neutral /\ SameRequests(broker, broker') /\ db'.claims = db.claims
  BY Labels, SameBroker DEF BrokerFails
<1> QED BY <1>1, EndAside, EnterAside DEF BrokerFails, Enter

(* A saved state row, or the end of the command for a version conflict.    *)
LEMMA SaveOrAbortAside ==
    ASSUME IInv, NEW p \in Procs, NEW s, NEW expected, NEW label \in Neutral,
           SaveOrAbort(p, s, expected, label), proc[p].pc \in Neutral
    PROVE  Aside(p)
<1>1. SameRequests(broker, broker')
  BY SameBroker DEF SaveOrAbort
<1>2. CASE CanSave(db, expected)
  <2>1. proc' = [proc EXCEPT ![p].pc = label, ![p].state = s] /\ db'.claims = db.claims
    BY <1>2 DEF SaveOrAbort, SaveState, IInv, BooksOK, Database
  <2>2. Others(p) /\ SameJob(proc[p], proc'[p]) /\ proc'[p].pc = label
    BY <2>1, OfTypes DEF Others, SameJob, Locals
  <2> QED BY <1>1, <2>1, <2>2, MoveAside
<1>3. CASE ~CanSave(db, expected)
  BY <1>1, <1>3, EndAside DEF SaveOrAbort
<1> QED BY <1>2, <1>3

(* The steps of a reconciliation before it returns.                        *)
LEMMA RecSteps ==
    ASSUME IInv, NEW p \in Procs, ReconcileStep(p), ~RecUnknown(p), ~RecQuit(p), ~RecClear(p)
    PROVE  Aside(p)
<1>0. proc \in [Procs -> Locals] /\ proc[p] \in Locals /\ db \in Database
  BY DEF IInv, BooksOK
<1>1. CASE RecState(p)
  <2>1. Others(p) /\ SameJob(proc[p], proc'[p]) /\ proc[p].pc = "rec_state" /\ proc'[p].pc = "rec_orders"
    BY <1>0, <1>1 DEF RecState, At, Locals, Others, SameJob
  <2>7. SameRequests(broker, broker')
    BY <1>1, <2>1, SameBroker DEF RecState
  <2>8. db'.claims = db.claims /\ proc[p].pc \in Neutral /\ proc'[p].pc \in Neutral
    BY <1>1, <2>1, Labels DEF RecState, At
  <2> QED BY <1>1, <2>1, <2>7, <2>8, MoveAside
<1>2. CASE RecOrders(p)
  <2>1. Others(p) /\ SameJob(proc[p], proc'[p]) /\ proc[p].pc = "rec_orders" /\ proc'[p].pc = "rec_history"
    BY <1>0, <1>2 DEF RecOrders, At, Locals, Others, SameJob
  <2>7. SameRequests(broker, broker')
    BY <1>2, <2>1, SameBroker DEF RecOrders
  <2>8. db'.claims = db.claims /\ proc[p].pc \in Neutral /\ proc'[p].pc \in Neutral
    BY <1>2, <2>1, Labels DEF RecOrders, At
  <2> QED BY <1>2, <2>1, <2>7, <2>8, MoveAside
<1>3. CASE RecHistory(p)
  <2>1. CASE BrokerFails(p)
    BY <1>3, <2>1, Labels, BrokerFailsAside DEF RecHistory, At
  <2>2. CASE ~BrokerFails(p)
    <3>1. Others(p) /\ SameJob(proc[p], proc'[p]) /\ proc[p].pc = "rec_history" /\ proc'[p].pc = "rec_row"
      BY <1>0, <1>3, <2>2 DEF RecHistory, At, Locals, Others, SameJob
    <3>7. SameRequests(broker, broker')
      BY <1>3, <2>2, <3>1, SameBroker DEF RecHistory
    <3>8. db'.claims = db.claims /\ proc[p].pc \in Neutral /\ proc'[p].pc \in Neutral
      BY <1>3, <2>2, <3>1, Labels DEF RecHistory, At
    <3> QED BY <1>3, <2>2, <3>1, <3>7, <3>8, MoveAside
  <2> QED BY <2>1, <2>2
<1>4. CASE RecRow(p)
  <2>0. proc[p].pc = "rec_row"
    BY <1>4 DEF RecRow, At
  <2>1. ASSUME NEW row, RecKnownRow(p, row) PROVE Aside(p)
    <3>1. Others(p) /\ SameJob(proc[p], proc'[p]) /\ proc'[p].pc \in {"rec_row", "rec_fill"}
      BY <1>0, <2>1 DEF RecKnownRow, Locals, Others, SameJob
    <3>2. db'.claims = db.claims
      BY <1>0, <2>1 DEF RecKnownRow, UpdateOrderStatus, Database
    <3>7. SameRequests(broker, broker')
      BY <2>0, <2>1, <3>1, <3>2, SameBroker DEF RecKnownRow
    <3>8. db'.claims = db.claims /\ proc[p].pc \in Neutral /\ proc'[p].pc \in Neutral
      BY <2>0, <2>1, <3>1, <3>2, Labels DEF RecKnownRow, At
    <3> QED BY <2>0, <2>1, <3>1, <3>2, <3>7, <3>8, MoveAside
  <2>2. ASSUME NEW row, RecAlienRow(p, row) PROVE Aside(p)
    <3> DEFINE l == [proc[p] EXCEPT !.rows = @ \ {row}, !.alien = TRUE, !.pc = "rec_lock"]
    <3>1. CASE End(p) /\ UNCHANGED db
      BY <2>2, <3>1, SameBroker, EndAside DEF RecAlienRow
    <3>2. CASE proc' = [proc EXCEPT ![p] = l] /\ UNCHANGED db
      <4>1. Others(p) /\ SameJob(proc[p], proc'[p]) /\ proc'[p].pc = "rec_lock"
        BY <1>0, <3>2 DEF Locals, Others, SameJob
      <4>7. SameRequests(broker, broker')
        BY <2>0, <2>2, <3>2, <4>1, SameBroker DEF RecAlienRow
      <4>8. db'.claims = db.claims /\ proc[p].pc \in Neutral /\ proc'[p].pc \in Neutral
        BY <2>0, <2>2, <3>2, <4>1, Labels DEF RecAlienRow, At
      <4> QED BY <2>0, <2>2, <3>2, <4>1, <4>7, <4>8, MoveAside
    <3>3. CASE /\ db' = SaveState(db, Flag(l.state, TRUE))
               /\ proc' = [proc EXCEPT ![p] = [l EXCEPT !.state = Flag(l.state, TRUE)]]
      <4>1. PICK s : s = Flag(l.state, TRUE)
        OBVIOUS
      <4>2. Others(p) /\ SameJob(proc[p], proc'[p]) /\ proc'[p].pc = "rec_lock"
        BY <1>0, <3>3, <4>1 DEF Locals, Others, SameJob
      <4>3. db'.claims = db.claims
        BY <1>0, <3>3, <4>1 DEF SaveState, Database
      <4>7. SameRequests(broker, broker')
        BY <2>0, <2>2, <4>2, <4>3, SameBroker DEF RecAlienRow
      <4>8. db'.claims = db.claims /\ proc[p].pc \in Neutral /\ proc'[p].pc \in Neutral
        BY <2>0, <2>2, <4>2, <4>3, Labels DEF RecAlienRow, At
      <4> QED BY <2>0, <2>2, <4>2, <4>3, <4>7, <4>8, MoveAside
    <3> QED BY <2>2, <3>1, <3>2, <3>3 DEF RecAlienRow
  <2> QED BY <1>4, <2>1, <2>2 DEF RecRow
<1>5. CASE RecFill(p)
  <2>1. Others(p) /\ SameJob(proc[p], proc'[p]) /\ proc[p].pc = "rec_fill" /\ proc'[p].pc = "rec_row"
    BY <1>0, <1>5 DEF RecFill, At, Locals, Others, SameJob
  <2>2. db'.claims = db.claims
    BY <1>0, <1>5 DEF RecFill, AddFill, Database
  <2>7. SameRequests(broker, broker')
    BY <1>5, <2>1, <2>2, SameBroker DEF RecFill
  <2>8. db'.claims = db.claims /\ proc[p].pc \in Neutral /\ proc'[p].pc \in Neutral
    BY <1>5, <2>1, <2>2, Labels DEF RecFill, At
  <2> QED BY <1>5, <2>1, <2>2, <2>7, <2>8, MoveAside
<1>6. CASE RecLock(p)
  <2>1. db'.claims = db.claims /\ proc[p].pc = "rec_lock" /\ Goto(p, "rec_row")
    BY <1>0, <1>6 DEF RecLock, SetProfileStatus, Database, At
  <2> QED BY <1>6, <2>1, Labels, SameBroker, GotoAside DEF RecLock
<1>7. CASE RecPending(p)
  <2>1. Others(p) /\ SameJob(proc[p], proc'[p]) /\ proc[p].pc = "rec_row"
        /\ proc'[p].pc \in {"rec_holding", "rec_apply"}
    BY <1>0, <1>7 DEF RecPending, At, Locals, Others, SameJob
  <2>7. SameRequests(broker, broker')
    BY <1>7, <2>1, SameBroker DEF RecPending
  <2>8. db'.claims = db.claims /\ proc[p].pc \in Neutral /\ proc'[p].pc \in Neutral
    <3>1. UNCHANGED db
      BY <1>7 DEF RecPending
    <3> QED BY <2>1, <3>1, Labels
  <2> QED BY <1>7, <2>1, <2>7, <2>8, MoveAside
<1>8. CASE RecFold(p)
  <2>1. CASE End(p)
    BY <1>8, <2>1, SameBroker, EndAside DEF RecFold
  <2>2. CASE ~End(p)
    <3>1. PICK f : proc' = [proc EXCEPT ![p].state = Fold(@, f), ![p].pend = @ \ {f},
                                         ![p].done = @ \cup {f}]
      BY <1>8, <2>2 DEF RecFold
    <3>2. Others(p) /\ SameJob(proc[p], proc'[p]) /\ proc'[p].pc = "rec_apply"
          /\ proc[p].pc = "rec_apply"
      BY <1>0, <1>8, <3>1 DEF Locals, Others, SameJob, RecFold, At
    <3>7. SameRequests(broker, broker')
      BY <1>8, <3>2, SameBroker DEF RecFold
    <3>8. db'.claims = db.claims /\ proc[p].pc \in Neutral /\ proc'[p].pc \in Neutral
      BY <1>8, <3>2, Labels DEF RecFold, At
    <3> QED BY <1>8, <3>2, <3>7, <3>8, MoveAside
  <2> QED BY <2>1, <2>2
<1>9. CASE RecSave(p)
  <2>1. CASE CanSave(db, proc[p].base)
    <3>1. Others(p) /\ SameJob(proc[p], proc'[p]) /\ proc[p].pc = "rec_apply" /\ proc'[p].pc = "rec_holding"
      BY <1>0, <1>9, <2>1 DEF RecSave, At, Locals, Others, SameJob
    <3>2. db'.claims = db.claims
      BY <1>0, <1>9, <2>1 DEF RecSave, SaveReconciledState, Database
    <3>7. SameRequests(broker, broker')
      BY <1>9, <3>1, <3>2, SameBroker DEF RecSave
    <3>8. db'.claims = db.claims /\ proc[p].pc \in Neutral /\ proc'[p].pc \in Neutral
      BY <1>9, <3>1, <3>2, Labels DEF RecSave, At
    <3> QED BY <1>9, <3>1, <3>2, <3>7, <3>8, MoveAside
  <2>2. CASE ~CanSave(db, proc[p].base)
    BY <1>9, <2>2, SameBroker, EndAside DEF RecSave
  <2> QED BY <2>1, <2>2
<1>10. CASE RecHolding(p)
  <2>1. CASE BrokerFails(p)
    BY <1>10, <2>1, Labels, BrokerFailsAside DEF RecHolding, At
  <2>2. CASE ~BrokerFails(p)
    <3>1. PICK label \in {"rec_unknown", "rec_quit", "rec_flag"} : Goto(p, label)
      BY <1>10, <2>2 DEF RecHolding
    <3> QED BY <1>10, <2>2, <3>1, Labels, SameBroker, GotoAside DEF RecHolding, At
  <2> QED BY <2>1, <2>2
<1>11. CASE RecFlag(p)
  BY <1>11, Labels, SaveOrAbortAside DEF RecFlag, At
<1> QED BY <1>1, <1>2, <1>3, <1>4, <1>5, <1>6, <1>7, <1>8, <1>9, <1>10, <1>11 DEF ReconcileStep

(* A command that is not run or tick starts.                               *)
LEMMA StartAside ==
    ASSUME IInv, NEW p \in Procs, NEW cmd, cmd \notin {"run", "tick"}, NEW phase, NEW day,
           NEW label \in Neutral, proc' = [proc EXCEPT ![p] = Started(cmd, phase, day, label)],
           db'.claims = db.claims, SameRequests(broker, broker')
    PROVE  Aside(p)
<1>1. Resting(Started(cmd, phase, day, label))
  BY DEF Resting, Started, Fresh
<1>2. proc \in [Procs -> Locals]
  BY DEF IInv
<1> QED BY <1>1, <1>2 DEF Aside, Others

(* The profile status is written beside the claims.                        *)
LEMMA StatusClaims ==
    ASSUME IInv, NEW st
    PROVE  SetProfileStatus(db, st).claims = db.claims
BY DEF SetProfileStatus, IInv, BooksOK, Database

(* A step of another command than run and tick, or of their error paths.   *)
LEMMA CommandsAside ==
    ASSUME IInv, NEW p \in Procs, CommandStep(p)
    PROVE  Aside(p) \/ (UNCHANGED <<proc, broker>> /\ db'.claims = db.claims)
<1>0. proc \in [Procs -> Locals] /\ proc[p] \in Locals /\ db \in Database
  BY DEF IInv, BooksOK
<1>1. CASE StartReconcile(p)
  <2>1. SameRequests(broker, broker') /\ db'.claims = db.claims
    BY <1>1, SameBroker DEF StartReconcile
  <2> QED BY <1>1, <2>1, Labels, StartAside DEF StartReconcile
<1>2. CASE StartOn(p)
  <2>1. SameRequests(broker, broker') /\ db'.claims = db.claims
    BY <1>2, SameBroker DEF StartOn
  <2> QED BY <1>2, <2>1, Labels, StartAside DEF StartOn
<1>3. CASE StartOff(p)
  <2>1. SameRequests(broker, broker') /\ db'.claims = db.claims
    BY <1>3, SameBroker, StatusClaims DEF StartOff
  <2> QED BY <1>3, <2>1, Labels, StartAside DEF StartOff
<1>4. CASE StartCancel(p)
  <2>1. SameRequests(broker, broker') /\ db'.claims = db.claims
    BY <1>4, SameBroker DEF StartCancel
  <2>2. PICK n : proc' = [proc EXCEPT ![p] =
                   [Started("cancel", "SELL", clock.day, "off_cancel") EXCEPT !.cancel = {n}]]
    BY <1>4 DEF StartCancel
  <2>3. Resting([Started("cancel", "SELL", clock.day, "off_cancel") EXCEPT !.cancel = {n}])
    BY Labels DEF Resting, Started, Fresh
  <2> QED BY <1>0, <2>1, <2>2, <2>3 DEF Aside, Others
<1>5. CASE OnSet(p)
  <2>1. SameRequests(broker, broker') /\ db'.claims = db.claims
    BY <1>5, SameBroker, StatusClaims DEF OnSet
  <2> QED BY <1>5, <2>1, EndAside DEF OnSet
<1>6. CASE OffOrders(p)
  <2>1. SameRequests(broker, broker') /\ db'.claims = db.claims
    BY <1>6, SameBroker DEF OffOrders
  <2>2. /\ Others(p) /\ SameJob(proc[p], proc'[p])
        /\ proc[p].pc = "off_orders" /\ proc'[p].pc \in {"off_cancel", "off_unknown"}
    BY <1>0, <1>6 DEF OffOrders, At, Locals, Others, SameJob
  <2>3. proc[p].pc \in Neutral /\ proc'[p].pc \in Neutral
    BY <2>2, Labels
  <2> QED BY <2>1, <2>2, <2>3, MoveAside
<1>7. CASE OffCancel(p)
  <2>1. db'.claims = db.claims /\ proc[p].pc = "off_cancel"
    BY <1>7 DEF OffCancel, At
  <2>2. PICK n \in proc[p].cancel :
           \/ /\ Working(broker.orders[n])
              /\ broker' = [broker EXCEPT !.orders[n].cancelling = TRUE]
              /\ \/ proc' = [proc EXCEPT ![p].cancel = @ \ {n}, ![p].order = n,
                                         ![p].pc = "off_mark"]
                 \/ CancelFails(p)
           \/ CancelFails(p) /\ UNCHANGED broker
    BY <1>7 DEF OffCancel
  <2>3. SameRequests(broker, broker')
    <3>1. CASE UNCHANGED broker
      BY <3>1, SameBroker
    <3>2. CASE broker' = [broker EXCEPT !.orders[n].cancelling = TRUE]
      <4>1. broker \in Account /\ broker.orders \in Seq(BrokerOrder)
        BY DEF IInv, BooksOK, Account
      <4> DEFINE o == [broker.orders[n] EXCEPT !.cancelling = TRUE]
                 orders == [broker.orders EXCEPT ![n] = o]
      <4>2. broker' = [broker EXCEPT !.orders = orders]
        BY <3>2
      <4>3. \A m \in 1..Len(broker.orders) : orders[m].intent = broker.orders[m].intent
        BY <4>1 DEF BrokerOrder
      <4>4. Len(orders) = Len(broker.orders)
        BY <4>1
      <4> HIDE DEF orders
      <4> QED BY <4>1, <4>2, <4>3, <4>4 DEF SameRequests, Account
    <3> QED BY <2>2, <3>1, <3>2
  <2>4. CASE proc' = [proc EXCEPT ![p].cancel = @ \ {n}, ![p].order = n, ![p].pc = "off_mark"]
    <3>1. /\ Others(p) /\ SameJob(proc[p], proc'[p]) /\ proc'[p].pc = "off_mark"
      BY <1>0, <2>4 DEF Locals, Others, SameJob
    <3>2. proc[p].pc \in Neutral /\ proc'[p].pc \in Neutral
      BY <2>1, <3>1, Labels
    <3> QED BY <2>1, <2>3, <3>1, <3>2, MoveAside
  <2>5. CASE CancelFails(p)
    <3>1. proc[p].pc \in Neutral /\ "lock_status" \in Neutral
      BY <2>1, Labels
    <3> QED BY <2>1, <2>3, <2>5, <3>1, EndAside, EnterAside DEF CancelFails, Enter
  <2> QED BY <2>2, <2>4, <2>5
<1>8. CASE OffMark(p)
  <2>1. SameRequests(broker, broker') /\ db'.claims = db.claims
    BY <1>0, <1>8, SameBroker DEF OffMark, UpdateOrderStatus, Database
  <2>2. proc[p].pc \in Neutral /\ "off_cancel" \in Neutral
    BY <1>8, Labels DEF OffMark, At
  <2> QED BY <1>8, <2>1, <2>2, EndAside, GotoAside DEF OffMark
<1>9. CASE OffCancelled(p)
  <2>1. SameRequests(broker, broker') /\ db'.claims = db.claims
    BY <1>9, SameBroker DEF OffCancelled
  <2>2. proc[p].pc \in Neutral /\ "rec_state" \in Neutral
    BY <1>9, Labels DEF OffCancelled, At
  <2> QED BY <1>9, <2>1, <2>2, EnterAside DEF OffCancelled, Enter
<1>10. CASE OffCheck(p)
  <2>1. SameRequests(broker, broker') /\ db'.claims = db.claims
    BY <1>10, SameBroker DEF OffCheck
  <2>2. proc[p].pc \in Neutral /\ "off_unknown" \in Neutral /\ "lock_status" \in Neutral
    BY <1>10, Labels DEF OffCheck, At
  <2>3. Goto(p, "off_unknown") \/ Goto(p, "lock_status")
    BY <1>10 DEF OffCheck
  <2> QED BY <2>1, <2>2, <2>3, GotoAside
<1>11. CASE OffUnknown(p)
  <2>1. SameRequests(broker, broker') /\ db'.claims = db.claims
    BY <1>11, SameBroker, StatusClaims DEF OffUnknown
  <2> QED BY <1>11, <2>1, EndAside DEF OffUnknown
<1>12. CASE LockStatus(p)
  <2>1. SameRequests(broker, broker') /\ db'.claims = db.claims
    BY <1>12, SameBroker, StatusClaims DEF LockStatus
  <2>2. proc[p].pc \in Neutral /\ "lock_read" \in Neutral
    BY <1>12, Labels DEF LockStatus, At
  <2> QED BY <1>12, <2>1, <2>2, GotoAside DEF LockStatus
<1>13. CASE LockRead(p)
  <2>1. SameRequests(broker, broker') /\ db'.claims = db.claims
    BY <1>13, SameBroker DEF LockRead
  <2>2. CASE End(p)
    BY <2>1, <2>2, EndAside
  <2>3. CASE proc' = [proc EXCEPT ![p].state = db.state, ![p].pc = "lock_save"]
    <3>1. Others(p) /\ SameJob(proc[p], proc'[p]) /\ proc'[p].pc = "lock_save"
      BY <1>0, <2>3 DEF Locals, Others, SameJob
    <3>2. proc[p].pc \in Neutral /\ proc'[p].pc \in Neutral
      BY <1>13, <3>1, Labels DEF LockRead, At
    <3> QED BY <2>1, <3>1, <3>2, MoveAside
  <2> QED BY <1>13, <2>2, <2>3 DEF LockRead
<1>14. CASE LockSave(p)
  <2>1. SameRequests(broker, broker') /\ db'.claims = db.claims
    BY <1>0, <1>14, SameBroker DEF LockSave, SaveState, Database
  <2> QED BY <1>14, <2>1, EndAside DEF LockSave
<1>15. CASE EmergencyStop(p)
  BY <1>0, <1>15 DEF EmergencyStop, SetEmergency, Database
<1> QED BY <1>1, <1>2, <1>3, <1>4, <1>5, <1>6, <1>7, <1>8, <1>9, <1>10, <1>11,
           <1>12, <1>13, <1>14, <1>15 DEF CommandStep

(* A reconciliation that returns: to the plan of a run that has not        *)
(* submitted anything yet, or elsewhere.                                   *)
Returns(p) ==
    \/ Aside(p)
    \/ /\ proc' = [proc EXCEPT ![p] = Keep(proc[p], "plan_read")]
       /\ proc[p].cmd \in {"run", "tick"} /\ ~proc[p].submitted
       /\ proc[p].pc \in Neutral
       /\ db'.claims = db.claims /\ SameRequests(broker, broker')

(* What follows a reconciliation.                                          *)
LEMMA ResumeReturns ==
    ASSUME IInv, NEW p \in Procs, NEW required, Resume(p, required),
           proc[p].pc \in Neutral, db'.claims = db.claims, SameRequests(broker, broker')
    PROVE  Returns(p)
<1>1. PICK m : /\ proc' = [proc EXCEPT ![p] = m]
               /\ m = CASE proc[p].cmd \in {"run", "tick"} /\ ~proc[p].submitted /\ ~required
                                                    -> Keep(proc[p], "plan_read")
                        [] proc[p].cmd = "on" /\ ~required -> Keep(proc[p], "on_set")
                        [] proc[p].cmd = "off" -> Keep(proc[p], IF required THEN "lock_status"
                                                                            ELSE "off_check")
                        [] OTHER -> Fresh
  BY DEF Resume
<1>2. \/ m = Fresh
      \/ \E label \in {"on_set", "lock_status", "off_check"} : m = Keep(proc[p], label)
      \/ proc[p].cmd \in {"run", "tick"} /\ ~proc[p].submitted /\ m = Keep(proc[p], "plan_read")
  BY <1>1
<1>3. CASE m = Fresh
  BY <1>1, <1>3, EndAside DEF End, Returns
<1>4. ASSUME NEW label \in {"on_set", "lock_status", "off_check"}, m = Keep(proc[p], label)
      PROVE  Returns(p)
  BY <1>1, <1>4, Labels, EnterAside DEF Returns
<1> QED BY <1>1, <1>2, <1>3, <1>4 DEF Returns

(* Every step of a reconciliation is aside, or leads to the plan of a run  *)
(* that has submitted nothing.                                             *)
LEMMA RecReturns ==
    ASSUME IInv, NEW p \in Procs, ReconcileStep(p)
    PROVE  Returns(p)
<1>0. db \in Database
  BY DEF IInv, BooksOK
<1>1. CASE RecUnknown(p)
  <2>1. SameRequests(broker, broker') /\ db'.claims = db.claims
        /\ proc[p].pc \in Neutral /\ "rec_clear" \in Neutral
    BY <1>1, SameBroker, Labels DEF RecUnknown, At
  <2>2. Resume(p, proc[p].state.required) \/ Goto(p, "rec_clear")
    BY <1>1 DEF RecUnknown
  <2> QED BY <2>1, <2>2, ResumeReturns, GotoAside DEF Returns
<1>2. CASE RecQuit(p)
  <2>1. SameRequests(broker, broker') /\ db'.claims = db.claims
        /\ proc[p].pc \in Neutral
    BY <1>2, SameBroker, Labels, StatusClaims DEF RecQuit, At
  <2> QED BY <1>2, <2>1, ResumeReturns DEF RecQuit
<1>3. CASE RecClear(p)
  <2>1. SameRequests(broker, broker') /\ db'.claims = db.claims
        /\ proc[p].pc \in Neutral
    BY <1>0, <1>3, SameBroker, Labels DEF RecClear, At, SaveState, Database
  <2> QED BY <1>3, <2>1, ResumeReturns, EndAside DEF RecClear, Returns
<1> QED BY <1>1, <1>2, <1>3, RecSteps DEF Returns

-----------------------------------------------------------------------------
(* The intents the broker has, or may still get.                           *)
Sent(b) == {b.orders[n].intent : n \in 1..Len(b.orders)} \cup b.inflight
(* The session and phase of an intent and of a command.                    *)
SlotOf(i) == <<i.day, i.phase>>
Slot(l) == <<l.day, l.phase>>
(* A tick that has written its claim.                                      *)
Owner(l) == l.cmd = "tick" /\ l.pc # "claim"

(* What a process has to do with the slots: an owner has its claim; until  *)
(* it executes nothing was ever sent for its slot; what it is about to     *)
(* send is of its slot and was not sent before.                            *)
Scheduled(l, claims, sent) ==
    /\ l.cmd # "run"
    /\ l.pc \in Planning \cup Executing => l.cmd = "tick"
    /\ l.pc \in Planning => ~l.submitted
    /\ Owner(l) => Slot(l) \in claims
    /\ Owner(l) /\ ~l.submitted /\ l.pc \notin Executing =>
          \A i \in sent : SlotOf(i) # Slot(l)
    /\ l.pc \in Executing \cup {"exec_gate"} => \A i \in l.todo : SlotOf(i) = Slot(l)
    /\ l.pc \in Executing => l.todo \cap sent = {}
    /\ l.pc = "exec_place" => /\ l.intent \notin sent \cup l.todo
                              /\ SlotOf(l.intent) = Slot(l)

(* No intent is at the broker twice or is still under way to it again.     *)
Unique(b) ==
    \A n \in 1..Len(b.orders) :
        /\ b.orders[n].intent \notin b.inflight
        /\ \A m \in 1..Len(b.orders) : m # n => b.orders[m].intent # b.orders[n].intent

(* Every slot has one owner at a time, and what was sent was sent for a    *)
(* claimed slot.                                                           *)
ScheduleInv ==
    /\ \A p \in Procs : Scheduled(proc[p], db.claims, Sent(broker))
    /\ \A p, q \in Procs : p # q /\ Owner(proc[p]) /\ Owner(proc[q]) =>
                               Slot(proc[p]) # Slot(proc[q])
    /\ \A i \in Sent(broker) : SlotOf(i) \in db.claims
    /\ Unique(broker)

(* What was sent is the same when the broker was asked nothing.            *)
LEMMA SameSent ==
    ASSUME IInv, ScheduleInv, SameRequests(broker, broker')
    PROVE  Sent(broker') = Sent(broker) /\ Unique(broker')
<1>1. Len(broker'.orders) = Len(broker.orders)
      /\ \A n \in 1..Len(broker.orders) : broker'.orders[n].intent = broker.orders[n].intent
  BY DEF SameRequests
<1>2. broker'.inflight = broker.inflight
  BY DEF SameRequests
<1> QED BY <1>1, <1>2 DEF Sent, Unique, ScheduleInv

(* A step of process p that may send for its own slot only, and may become *)
(* the owner of a slot that nobody had claimed: the other processes are    *)
(* not concerned.                                                          *)
LEMMA OwnSchedule ==
    ASSUME ScheduleInv, NEW p \in Procs, Others(p),
           db.claims \subseteq db'.claims, Unique(broker'),
           Scheduled(proc'[p], db'.claims, Sent(broker')),
           \A i \in Sent(broker') : \/ i \in Sent(broker)
                                    \/ Owner(proc[p]) /\ SlotOf(i) = Slot(proc[p]),
           Owner(proc'[p]) => \/ Owner(proc[p]) /\ Slot(proc'[p]) = Slot(proc[p])
                              \/ Slot(proc'[p]) \notin db.claims
    PROVE  ScheduleInv'
<1>1. ASSUME NEW q \in Procs, q # p
      PROVE  Scheduled(proc'[q], db'.claims, Sent(broker'))
  <2>1. proc'[q] = proc[q] /\ Scheduled(proc[q], db.claims, Sent(broker))
    BY <1>1 DEF Others, ScheduleInv
  <2>2. Owner(proc[q]) => \A i \in Sent(broker') :
                              i \in Sent(broker) \/ SlotOf(i) # Slot(proc[q])
    BY <1>1 DEF ScheduleInv
  <2>3. proc[q].pc \in Executing => Owner(proc[q])
    BY <2>1 DEF Scheduled, Owner, Executing
  <2>4. proc[q].pc = "exec_place" => proc[q].pc \in Executing
    BY DEF Executing
  <2>5. Owner(proc[q]) /\ ~proc[q].submitted /\ proc[q].pc \notin Executing =>
          \A i \in Sent(broker') : SlotOf(i) # Slot(proc[q])
    BY <2>1, <2>2 DEF Scheduled
  <2>6. proc[q].pc \in Executing => proc[q].todo \cap Sent(broker') = {}
    BY <2>1, <2>2, <2>3 DEF Scheduled
  <2>7. proc[q].pc = "exec_place" => proc[q].intent \notin Sent(broker') \cup proc[q].todo
    BY <2>1, <2>2, <2>3, <2>4 DEF Scheduled
  <2> QED BY <2>1, <2>5, <2>6, <2>7 DEF Scheduled
<1>2. \A q \in Procs : Scheduled(proc'[q], db'.claims, Sent(broker'))
  BY <1>1
<1>3. ASSUME NEW q \in Procs, q # p, Owner(proc'[p]), Owner(proc'[q])
      PROVE  Slot(proc'[q]) # Slot(proc'[p])
  <2>1. proc'[q] = proc[q] /\ Owner(proc[q]) /\ Slot(proc[q]) \in db.claims
    BY <1>3 DEF Others, ScheduleInv, Scheduled
  <2> QED BY <1>3, <2>1 DEF ScheduleInv
<1>4. \A q, r \in Procs : q # r /\ Owner(proc'[q]) /\ Owner(proc'[r]) =>
                              Slot(proc'[q]) # Slot(proc'[r])
  <2> SUFFICES ASSUME NEW q \in Procs, NEW r \in Procs, q # r,
                      Owner(proc'[q]), Owner(proc'[r])
               PROVE  Slot(proc'[q]) # Slot(proc'[r])
    OBVIOUS
  <2>1. CASE q # p /\ r # p
    BY <2>1 DEF Others, ScheduleInv
  <2> QED BY <1>3, <2>1
<1>5. \A i \in Sent(broker') : SlotOf(i) \in db'.claims
  BY DEF ScheduleInv, Scheduled
<1> QED BY <1>2, <1>4, <1>5 DEF ScheduleInv

(* A step that sends nothing and claims nothing.                           *)
LEMMA QuietSchedule ==
    ASSUME IInv, ScheduleInv, NEW p \in Procs, Others(p), db'.claims = db.claims,
           SameRequests(broker, broker'),
           Scheduled(proc'[p], db.claims, Sent(broker)),
           Owner(proc'[p]) => Owner(proc[p]) /\ Slot(proc'[p]) = Slot(proc[p])
    PROVE  ScheduleInv'
<1>1. Sent(broker') = Sent(broker) /\ Unique(broker')
  BY SameSent
<1> QED BY <1>1, OwnSchedule

(* A process at rest owns nothing.                                         *)
LEMMA RestingScheduled ==
    ASSUME NEW l, Resting(l), NEW claims, NEW sent
    PROVE  Scheduled(l, claims, sent) /\ ~Owner(l)
<1>1. l.pc \notin Planning \cup Executing \cup {"exec_gate", "exec_place"}
  BY Labels DEF Resting, Planning, Executing
<1> QED BY <1>1 DEF Resting, Scheduled, Owner

(* Steps aside keep the schedule.                                          *)
LEMMA AsideSchedule ==
    ASSUME IInv, ScheduleInv, NEW p \in Procs, Aside(p)
    PROVE  ScheduleInv'
<1>1. CASE Resting(proc'[p])
  BY <1>1, RestingScheduled, QuietSchedule DEF Aside
<1>2. CASE SameJob(proc[p], proc'[p]) /\ proc[p].pc \in Neutral /\ proc'[p].pc \in Neutral
  <2>1. proc'[p].pc \notin Planning \cup Executing \cup {"exec_gate", "exec_place", "claim"}
        /\ proc[p].pc \notin Executing \cup {"claim"}
    BY <1>2, Labels DEF Planning, Executing
  <2>2. Slot(proc'[p]) = Slot(proc[p]) /\ (Owner(proc'[p]) <=> Owner(proc[p]))
    BY <1>2, <2>1 DEF SameJob, Slot, Owner
  <2>3. Scheduled(proc[p], db.claims, Sent(broker))
    BY DEF ScheduleInv
  <2>4. Scheduled(proc'[p], db.claims, Sent(broker))
    BY <1>2, <2>1, <2>2, <2>3 DEF Scheduled, SameJob
  <2> QED BY <2>2, <2>4, QuietSchedule DEF Aside
<1> QED BY <1>1, <1>2 DEF Aside

(* An owner that has sent nothing moves on before it executes.             *)
LEMMA PlanningSchedule ==
    ASSUME IInv, ScheduleInv, NEW p \in Procs, Others(p), db'.claims = db.claims,
           SameRequests(broker, broker'),
           Owner(proc[p]), ~proc[p].submitted, proc[p].pc \notin Executing,
           SameJob(proc[p], proc'[p]),
           proc'[p].pc \notin Executing \cup {"claim"},
           proc'[p].pc = "exec_gate" => \A i \in proc'[p].todo : SlotOf(i) = Slot(proc[p])
    PROVE  ScheduleInv'
<1>1. Slot(proc'[p]) = Slot(proc[p]) /\ Owner(proc'[p]) /\ ~proc'[p].submitted
      /\ proc'[p].cmd = "tick"
  BY DEF SameJob, Slot, Owner
<1>2. Scheduled(proc[p], db.claims, Sent(broker))
  BY DEF ScheduleInv
<1>3. proc'[p].pc # "exec_place"
  BY DEF Executing
<1>4. Scheduled(proc'[p], db.claims, Sent(broker))
  BY <1>1, <1>2, <1>3 DEF Scheduled
<1> QED BY <1>1, <1>4, QuietSchedule

(* A command that ends gives up its slot.                                  *)
LEMMA EndSchedule ==
    ASSUME IInv, ScheduleInv, NEW p \in Procs, End(p), db'.claims = db.claims,
           SameRequests(broker, broker')
    PROVE  ScheduleInv'
BY EndAside, AsideSchedule

(* A run before it executes belongs to a tick that has sent nothing.       *)
LEMMA PlanningOwner ==
    ASSUME IInv, ScheduleInv, NEW p \in Procs,
           proc[p].pc \in Planning \ {"claim"}
    PROVE  Owner(proc[p]) /\ ~proc[p].submitted /\ proc[p].pc \notin Executing
BY DEF ScheduleInv, Scheduled, Owner, Planning, Executing

(* A reconciliation that returns to the plan belongs to an owner that has  *)
(* sent nothing.                                                           *)
LEMMA ReturnsSchedule ==
    ASSUME IInv, ScheduleInv, NEW p \in Procs, Returns(p)
    PROVE  ScheduleInv'
<1>1. CASE Aside(p)
  BY <1>1, AsideSchedule
<1>2. CASE ~Aside(p)
  <2>1. /\ proc' = [proc EXCEPT ![p] = Keep(proc[p], "plan_read")]
        /\ proc[p].cmd \in {"run", "tick"} /\ ~proc[p].submitted
        /\ proc[p].pc \in Neutral
        /\ db'.claims = db.claims /\ SameRequests(broker, broker')
    BY <1>2 DEF Returns
  <2>2. Others(p) /\ proc'[p] = Keep(proc[p], "plan_read")
    BY <2>1 DEF IInv, Others
  <2>3. SameJob(proc[p], proc'[p]) /\ proc'[p].pc = "plan_read"
    BY <2>2 DEF SameJob, Keep, Fresh
  <2>4. Owner(proc[p]) /\ proc[p].pc \notin Executing
    BY <2>1, Labels DEF ScheduleInv, Scheduled, Owner, Planning
  <2> QED BY <2>1, <2>2, <2>3, <2>4, PlanningSchedule DEF Executing
<1> QED BY <1>1, <1>2

(* A tick starts without a claim.                                          *)
LEMMA StartTickSchedule ==
    ASSUME IInv, ScheduleInv, NEW p \in Procs, StartTick(p)
    PROVE  ScheduleInv'
<1> DEFINE l == Started("tick", clock.window, clock.day, "claim")
<1>1. proc' = [proc EXCEPT ![p] = l] /\ UNCHANGED <<db, broker>>
  BY DEF StartTick
<1>2. l.cmd = "tick" /\ l.pc = "claim" /\ ~l.submitted
  BY DEF Started, Fresh
<1>3. ~Owner(l) /\ l.pc \notin Executing \cup {"exec_gate", "exec_place"}
  BY <1>2 DEF Owner, Executing
<1>4. Others(p) /\ proc'[p] = l
  BY <1>1 DEF IInv, Others
<1>5. Scheduled(l, db.claims, Sent(broker))
  BY <1>2, <1>3 DEF Scheduled
<1> HIDE DEF l
<1> QED BY <1>1, <1>3, <1>4, <1>5, SameBroker, QuietSchedule

(* A claim that is new makes the tick the owner of a slot for which        *)
(* nothing was sent; the claim of another ends it.                         *)
LEMMA ClaimSchedule ==
    ASSUME IInv, ScheduleInv, NEW p \in Procs, Claim(p)
    PROVE  ScheduleInv'
<1> DEFINE key == <<proc[p].day, proc[p].phase>>
<1>1. CASE key \in db.claims
  BY <1>1, EndSchedule, SameBroker DEF Claim
<1>2. CASE key \notin db.claims
  <2>1. db' = ClaimAutomation(db, key) /\ Goto(p, "profile") /\ UNCHANGED broker
        /\ proc[p].pc = "claim"
    BY <1>2 DEF Claim, At
  <2>2. db'.claims = db.claims \cup {key}
    BY <2>1 DEF ClaimAutomation, IInv, BooksOK, Database
  <2>3. Others(p) /\ SameJob(proc[p], proc'[p]) /\ proc'[p].pc = "profile"
    BY <2>1, OfTypes DEF Goto, Others, SameJob, Locals
  <2>4. Slot(proc'[p]) = key /\ key = Slot(proc[p])
    BY <2>3 DEF SameJob, Slot
  <2>5. Scheduled(proc[p], db.claims, Sent(broker))
    BY DEF ScheduleInv
  <2>6. \A i \in Sent(broker) : SlotOf(i) # key
    BY <1>2 DEF ScheduleInv
  <2> HIDE DEF key
  <2>7. proc'[p].pc \notin Executing \cup {"exec_gate", "exec_place"}
    BY <2>3 DEF Executing
  <2>8. proc'[p].cmd = "tick" /\ ~proc'[p].submitted
    BY <2>1, <2>3, <2>5 DEF SameJob, Scheduled, Planning
  <2>9. Scheduled(proc'[p], db'.claims, Sent(broker))
    BY <2>2, <2>4, <2>6, <2>7, <2>8 DEF Scheduled
  <2>10. Sent(broker') = Sent(broker) /\ Unique(broker')
    BY <2>1, SameBroker, SameSent
  <2>11. Slot(proc'[p]) \notin db.claims /\ db.claims \subseteq db'.claims
    BY <1>2, <2>2, <2>4
  <2> QED BY <2>3, <2>9, <2>10, <2>11, OwnSchedule
<1> QED BY <1>1, <1>2

(* The labels of a run before it executes.                                 *)
LEMMA PlanningLabels ==
    /\ {"profile", "plan_read", "plan_save", "plan_record", "exec_pending",
        "exec_gate"} \subseteq Planning \ {"claim"}
    /\ {"profile", "plan_read", "plan_save", "plan_record", "exec_pending", "rec_state",
        "exec_gate"} \cap (Executing \cup {"claim"}) = {}
BY DEF Planning, Executing

(* The profile is read.                                                    *)
LEMMA ReadProfileSchedule ==
    ASSUME IInv, ScheduleInv, NEW p \in Procs, ReadProfile(p)
    PROVE  ScheduleInv'
<1>1. proc[p].pc = "profile" /\ db'.claims = db.claims /\ SameRequests(broker, broker')
  BY SameBroker DEF ReadProfile, At
<1>2. Others(p) /\ SameJob(proc[p], proc'[p]) /\ proc'[p].pc = "rec_state"
  <2>1. PICK on : proc' = [proc EXCEPT ![p].on = on, ![p].pc = "rec_state"]
    BY DEF ReadProfile
  <2> QED BY <2>1, OfTypes DEF Others, SameJob, Locals
<1> QED BY <1>1, <1>2, PlanningLabels, PlanningOwner, PlanningSchedule

(* The plan is computed.                                                   *)
LEMMA PlanReadSchedule ==
    ASSUME IInv, ScheduleInv, NEW p \in Procs, PlanRead(p)
    PROVE  ScheduleInv'
<1>0. proc[p].pc = "plan_read" /\ db'.claims = db.claims /\ SameRequests(broker, broker')
  BY SameBroker DEF PlanRead, Abort, At
<1>1. CASE End(p)
  BY <1>0, <1>1, EndSchedule
<1>2. CASE ~End(p)
  <2>1. PICK s, todo, label :
           /\ proc' = [proc EXCEPT ![p].state = s, ![p].base = db.state.version,
                                   ![p].todo = todo, ![p].pc = label]
           /\ label \in {"plan_record", "plan_save"}
    BY <1>2 DEF PlanRead, Abort
  <2>2. Others(p) /\ SameJob(proc[p], proc'[p]) /\ proc'[p].pc = label
    BY <2>1, OfTypes DEF Others, SameJob, Locals
  <2> QED BY <1>0, <2>1, <2>2, PlanningLabels, PlanningOwner, PlanningSchedule
<1> QED BY <1>1, <1>2

(* The prepared state is saved, or the run ends.                           *)
LEMMA PlanSaveSchedule ==
    ASSUME IInv, ScheduleInv, NEW p \in Procs, PlanSave(p)
    PROVE  ScheduleInv'
<1>0. proc[p].pc = "plan_save" /\ SameRequests(broker, broker')
      /\ SaveOrAbort(p, proc[p].state, proc[p].base, "plan_record")
  BY SameBroker DEF PlanSave, At, SaveOrAbort
<1>1. PICK s, base : SaveOrAbort(p, s, base, "plan_record")
  BY <1>0
<1>2. CASE CanSave(db, base)
  <2>1. proc' = [proc EXCEPT ![p].pc = "plan_record", ![p].state = s]
        /\ db'.claims = db.claims
    BY <1>1, <1>2 DEF SaveOrAbort, SaveState, IInv, BooksOK, Database
  <2>2. Others(p) /\ SameJob(proc[p], proc'[p]) /\ proc'[p].pc = "plan_record"
    BY <2>1, OfTypes DEF Others, SameJob, Locals
  <2> QED BY <1>0, <2>1, <2>2, PlanningLabels, PlanningOwner, PlanningSchedule
<1>3. CASE ~CanSave(db, base)
  BY <1>0, <1>1, <1>3, EndSchedule DEF SaveOrAbort
<1> QED BY <1>2, <1>3

(* The plan is recorded.                                                   *)
LEMMA PlanRecordSchedule ==
    ASSUME IInv, ScheduleInv, NEW p \in Procs, PlanRecord(p)
    PROVE  ScheduleInv'
<1>1. proc[p].pc = "plan_record" /\ SameRequests(broker, broker')
      /\ proc' = [proc EXCEPT ![p] = Keep(proc[p], "exec_pending")]
  BY SameBroker DEF PlanRecord, At, Enter
<1>2. db'.claims = db.claims
  BY DEF PlanRecord, RecordDecision, IInv, BooksOK, Database
<1>3. Others(p) /\ proc'[p] = Keep(proc[p], "exec_pending")
  BY <1>1 DEF IInv, Others
<1>4. SameJob(proc[p], proc'[p]) /\ proc'[p].pc = "exec_pending"
  BY <1>3 DEF SameJob, Keep, Fresh
<1> QED BY <1>1, <1>2, <1>3, <1>4, PlanningLabels, PlanningOwner, PlanningSchedule

(* The pending intents of the slot are read: all are of the slot.          *)
LEMMA ExecPendingSchedule ==
    ASSUME IInv, ScheduleInv, NEW p \in Procs, ExecPending(p)
    PROVE  ScheduleInv'
<1>1. proc[p].pc = "exec_pending" /\ SameRequests(broker, broker')
      /\ db'.claims = db.claims
  BY SameBroker DEF ExecPending, At
<1>2. PICK todo : /\ todo = PendingIntents(db, proc[p].day, proc[p].phase)
                  /\ proc' = [proc EXCEPT ![p].todo = todo, ![p].pc = "exec_gate"]
  BY DEF ExecPending
<1>3. /\ Others(p) /\ SameJob(proc[p], proc'[p]) /\ proc'[p].pc = "exec_gate"
      /\ proc'[p].todo = todo
  BY <1>2, OfTypes DEF Others, SameJob, Locals
<1>4. \A i \in todo : SlotOf(i) = Slot(proc[p])
  BY <1>2 DEF PendingIntents, SlotOf, Slot
<1> QED BY <1>1, <1>3, <1>4, PlanningLabels, PlanningOwner, PlanningSchedule

(* The gates pass: no pending intent of the slot was ever sent.            *)
LEMMA ExecGateSchedule ==
    ASSUME IInv, ScheduleInv, NEW p \in Procs, ExecGate(p)
    PROVE  ScheduleInv'
<1>0. proc[p].pc = "exec_gate" /\ db'.claims = db.claims /\ SameRequests(broker, broker')
  BY SameBroker DEF ExecGate, At
<1>1. CASE End(p)
  BY <1>0, <1>1, EndSchedule
<1>2. CASE Goto(p, "exec_check")
  <2>1. /\ Others(p) /\ SameJob(proc[p], proc'[p]) /\ proc'[p].pc = "exec_check"
        /\ proc'[p].todo = proc[p].todo
    BY <1>2, OfTypes DEF Goto, Others, SameJob, Locals
  <2>2. Scheduled(proc[p], db.claims, Sent(broker))
    BY DEF ScheduleInv
  <2>3. Owner(proc[p]) /\ ~proc[p].submitted /\ proc[p].pc \notin Executing
    BY <1>0, PlanningLabels, PlanningOwner
  <2>4. Slot(proc'[p]) = Slot(proc[p]) /\ Owner(proc'[p]) /\ proc'[p].cmd = "tick"
        /\ ~proc'[p].submitted
    BY <2>1, <2>3 DEF SameJob, Slot, Owner
  <2>5. \A i \in proc[p].todo : SlotOf(i) = Slot(proc[p])
    BY <1>0, <2>2 DEF Scheduled
  <2>6. proc[p].todo \cap Sent(broker) = {}
    BY <2>2, <2>3, <2>5 DEF Scheduled
  <2>7. Slot(proc[p]) \in db.claims
    BY <2>2, <2>3 DEF Scheduled
  <2>8. proc'[p].pc \in Executing
    BY <2>1 DEF Executing
  <2>9. Scheduled(proc'[p], db.claims, Sent(broker))
    BY <2>1, <2>4, <2>5, <2>6, <2>7, <2>8 DEF Scheduled
  <2> QED BY <1>0, <2>1, <2>3, <2>4, <2>9, QuietSchedule
<1> QED BY <1>1, <1>2 DEF ExecGate

(* A step of a tick that executes its intents and asks the broker nothing. *)
LEMMA ExecutingSchedule ==
    ASSUME IInv, ScheduleInv, NEW p \in Procs, Others(p), db'.claims = db.claims,
           SameRequests(broker, broker'), proc[p].pc \in Executing,
           proc'[p].cmd = proc[p].cmd, proc'[p].day = proc[p].day,
           proc'[p].phase = proc[p].phase, proc'[p].pc \in Executing,
           proc'[p].todo \subseteq proc[p].todo,
           proc'[p].pc = "exec_place" =>
               proc'[p].intent \in proc[p].todo \ proc'[p].todo
    PROVE  ScheduleInv'
<1>1. Scheduled(proc[p], db.claims, Sent(broker))
  BY DEF ScheduleInv
<1>2. proc[p].cmd = "tick" /\ proc[p].pc # "claim" /\ proc'[p].pc # "claim"
      /\ proc'[p].pc \notin Planning
  BY <1>1 DEF Scheduled, Executing, Planning
<1>3. Slot(proc'[p]) = Slot(proc[p]) /\ Owner(proc[p]) /\ Owner(proc'[p])
  BY <1>2 DEF Slot, Owner
<1>4. /\ \A i \in proc[p].todo : SlotOf(i) = Slot(proc[p])
      /\ proc[p].todo \cap Sent(broker) = {}
      /\ Slot(proc[p]) \in db.claims
  BY <1>1, <1>3 DEF Scheduled
<1>5. proc'[p].pc = "exec_place" =>
          /\ proc'[p].intent \notin Sent(broker) \cup proc'[p].todo
          /\ SlotOf(proc'[p].intent) = Slot(proc[p])
  BY <1>4
<1>6. Scheduled(proc'[p], db.claims, Sent(broker))
  BY <1>2, <1>3, <1>4, <1>5 DEF Scheduled
<1> QED BY <1>3, <1>6, QuietSchedule

(* An intent is taken out of the intents to do.                            *)
LEMMA ExecCheckSchedule ==
    ASSUME IInv, ScheduleInv, NEW p \in Procs, ExecCheck(p)
    PROVE  ScheduleInv'
<1>0. proc[p].pc = "exec_check" /\ db'.claims = db.claims /\ SameRequests(broker, broker')
      /\ proc[p].pc \in Executing
  BY SameBroker DEF ExecCheck, At, Executing
<1>1. CASE End(p)
  BY <1>0, <1>1, EndSchedule
<1>2. CASE ~End(p)
  <2>1. PICK i \in proc[p].todo : \E intent, label :
           /\ proc' = [proc EXCEPT ![p].todo = @ \ {i}, ![p].intent = intent, ![p].pc = label]
           /\ label = "exec_check" \/ (label = "exec_place" /\ intent = i)
    BY <1>2 DEF ExecCheck
  <2>2. PICK intent, label :
           /\ proc' = [proc EXCEPT ![p].todo = @ \ {i}, ![p].intent = intent, ![p].pc = label]
           /\ label = "exec_check" \/ (label = "exec_place" /\ intent = i)
    BY <2>1
  <2>3. /\ Others(p) /\ SameJob(proc[p], proc'[p]) /\ proc'[p].pc = label
        /\ proc'[p].todo = proc[p].todo \ {i} /\ proc'[p].intent = intent
    BY <2>2, OfTypes DEF Others, SameJob, Locals
  <2>4. proc'[p].pc \in Executing
    BY <2>2, <2>3 DEF Executing
  <2>5. proc'[p].pc = "exec_place" => proc'[p].intent \in proc[p].todo \ proc'[p].todo
    BY <2>2, <2>3
  <2> QED BY <1>0, <2>3, <2>4, <2>5, ExecutingSchedule DEF SameJob
<1> QED BY <1>1, <1>2

(* An intent that joins the orders, the requests under way, or neither.    *)
LEMMA SentGrows ==
    ASSUME IInv, ScheduleInv, NEW i \in Intent, i \notin Sent(broker),
           \/ CanAccept /\ broker' = Accepted(broker, i)
           \/ broker' = [broker EXCEPT !.inflight = @ \cup {i}]
           \/ broker' = broker
    PROVE  /\ Unique(broker')
           /\ Sent(broker) \subseteq Sent(broker')
           /\ Sent(broker') \subseteq Sent(broker) \cup {i}
<1>0. /\ broker \in Account /\ broker.orders \in Seq(BrokerOrder)
      /\ Len(broker.orders) \in Nat /\ Unique(broker)
  BY DEF IInv, BooksOK, Account, ScheduleInv
<1>1. CASE CanAccept /\ broker' = Accepted(broker, i)
  <2>1. /\ Len(broker'.orders) = Len(broker.orders) + 1
        /\ broker'.inflight = broker.inflight
        /\ \A n \in 1..Len(broker.orders) : broker'.orders[n].intent = broker.orders[n].intent
    BY <1>1, AcceptedAccount DEF KeepsIntents
  <2>2. broker'.orders = Append(broker.orders, NewOrder(i))
    BY <1>0, <1>1 DEF Accepted, Account
  <2>3. broker'.orders[Len(broker.orders) + 1].intent = i
    BY <1>0, <2>2 DEF NewOrder
  <2>4. 1..Len(broker'.orders) = 1..Len(broker.orders) \cup {Len(broker.orders) + 1}
    BY <1>0, <2>1
  <2> DEFINE k == Len(broker.orders) + 1
             D == 1..Len(broker.orders)
  <2>5. /\ 1..Len(broker'.orders) = D \cup {k} /\ k \notin D
        /\ broker'.orders[k].intent = i
        /\ \A n \in D : broker'.orders[n].intent = broker.orders[n].intent
    BY <1>0, <2>1, <2>3, <2>4
  <2>6. /\ Sent(broker) = {broker.orders[n].intent : n \in D} \cup broker.inflight
        /\ \A n \in D : /\ broker.orders[n].intent \notin broker.inflight
                        /\ \A m \in D : m # n => broker.orders[m].intent # broker.orders[n].intent
    BY <1>0 DEF Sent, Unique
  <2> HIDE DEF k, D
  <2>7. \A n \in D : broker.orders[n].intent # i
    BY <2>6
  <2>8. Unique(broker')
    BY <2>1, <2>5, <2>6, <2>7 DEF Unique
  <2>9. Sent(broker') = {broker'.orders[n].intent : n \in D \cup {k}} \cup broker'.inflight
    BY <2>5 DEF Sent
  <2>10. Sent(broker') = Sent(broker) \cup {i}
    BY <2>1, <2>5, <2>6, <2>9
  <2> QED BY <2>8, <2>10
<1>2. CASE broker' = [broker EXCEPT !.inflight = @ \cup {i}]
  <2>1. broker'.orders = broker.orders /\ broker'.inflight = broker.inflight \cup {i}
    BY <1>0, <1>2 DEF Account
  <2> QED BY <1>0, <2>1 DEF Sent, Unique
<1>3. CASE broker' = broker
  BY <1>0, <1>3
<1> QED BY <1>1, <1>2, <1>3

(* What becomes of the order that is placed, and of the run.               *)
LEMMA PlaceOutcomes ==
    ASSUME NEW p, ExecPlace(p)
    PROVE  /\ proc[p].pc = "exec_place" /\ UNCHANGED <<db, clock>>
           /\ \/ CanAccept /\ broker' = Accepted(broker, proc[p].intent)
              \/ /\ LateRequests # {}
                 /\ broker' = [broker EXCEPT !.inflight = @ \cup {proc[p].intent}]
              \/ broker' = broker
           /\ \/ End(p) /\ (\/ "raised" \in LateRequests
                            \/ broker' = broker
                            \/ CanAccept /\ broker' = Accepted(broker, proc[p].intent))
              \/ proc' = [proc EXCEPT ![p].pc = "exec_unknown"]
              \/ /\ CanAccept /\ broker' = Accepted(broker, proc[p].intent)
                 /\ proc' = [proc EXCEPT ![p].order = Len(broker.orders) + 1,
                                         ![p].pc = "exec_record"]
<1> DEFINE answered == [proc EXCEPT ![p].order = Len(broker.orders) + 1,
                                    ![p].pc = "exec_record"]
           lost == [kind \in LostAnswer |->
                      IF kind = "ambiguous" THEN [proc EXCEPT ![p].pc = "exec_unknown"]
                                            ELSE [proc EXCEPT ![p] = Fresh]]
<1>1. \/ /\ CanAccept /\ broker' = Accepted(broker, proc[p].intent)
         /\ proc' = answered \/ \E kind \in LostAnswer : proc' = lost[kind]
      \/ \E kind \in LateRequests :
            /\ broker' = [broker EXCEPT !.inflight = @ \cup {proc[p].intent}]
            /\ proc' = lost[kind]
      \/ \E kind \in LostAnswer : proc' = lost[kind] /\ UNCHANGED broker
  BY DEF ExecPlace
<1>2. LateRequests \subseteq LostAnswer
  BY BrokerAssumption
<1>3. \A kind \in LostAnswer :
         \/ kind = "raised" /\ lost[kind] = [proc EXCEPT ![p] = Fresh]
         \/ lost[kind] = [proc EXCEPT ![p].pc = "exec_unknown"]
  BY DEF LostAnswer
<1>4. proc[p].pc = "exec_place" /\ UNCHANGED <<db, clock>>
  BY DEF ExecPlace, At
<1> HIDE DEF lost
<1>5. ASSUME NEW kind \in LostAnswer, proc' = lost[kind]
      PROVE  (kind = "raised" /\ End(p)) \/ proc' = [proc EXCEPT ![p].pc = "exec_unknown"]
  BY <1>3, <1>5 DEF End
<1> QED BY <1>1, <1>2, <1>4, <1>5

(* The intent is sent, and for nobody else to send again.                  *)
LEMMA ExecPlaceSchedule ==
    ASSUME IInv, ScheduleInv, NEW p \in Procs, ExecPlace(p)
    PROVE  ScheduleInv'
<1> DEFINE i == proc[p].intent
<1>1. proc[p].pc = "exec_place" /\ proc[p] \in Locals /\ UNCHANGED db
  BY OfTypes DEF ExecPlace, At
<1>2. i \in Intent
  BY <1>1 DEF IInv, LocalInv, Grounded, Sending
<1>3. Scheduled(proc[p], db.claims, Sent(broker)) /\ proc[p].pc \in Executing
      /\ proc[p].pc \notin Planning
  BY <1>1 DEF ScheduleInv, Executing, Planning
<1>4. /\ i \notin Sent(broker) \cup proc[p].todo /\ SlotOf(i) = Slot(proc[p])
      /\ proc[p].cmd = "tick" /\ Owner(proc[p])
      /\ Slot(proc[p]) \in db.claims
      /\ \A j \in proc[p].todo : SlotOf(j) = Slot(proc[p])
      /\ proc[p].todo \cap Sent(broker) = {}
  BY <1>1, <1>3 DEF Scheduled, Owner
<1>5. \/ CanAccept /\ broker' = Accepted(broker, i)
      \/ broker' = [broker EXCEPT !.inflight = @ \cup {i}]
      \/ broker' = broker
  BY PlaceOutcomes
<1>6. /\ Unique(broker') /\ Sent(broker) \subseteq Sent(broker')
      /\ Sent(broker') \subseteq Sent(broker) \cup {i}
  BY <1>2, <1>4, <1>5, SentGrows
<1>7. \A j \in Sent(broker') :
          \/ j \in Sent(broker)
          \/ Owner(proc[p]) /\ SlotOf(j) = Slot(proc[p])
  BY <1>4, <1>6
<1>8. CASE End(p)
  <2>1. Others(p) /\ proc'[p] = Fresh
    BY <1>8 DEF End, Others, IInv
  <2>2. Scheduled(Fresh, db'.claims, Sent(broker')) /\ ~Owner(Fresh)
    BY RestingFresh, RestingScheduled
  <2> QED BY <1>1, <1>6, <1>7, <2>1, <2>2, OwnSchedule
<1>9. CASE ~End(p)
  <2>1. \E order, label :
           /\ label \in {"exec_record", "exec_unknown"}
           /\ proc' = [proc EXCEPT ![p].order = order, ![p].pc = label]
    <3>1. \/ proc' = [proc EXCEPT ![p].order = Len(broker.orders) + 1, ![p].pc = "exec_record"]
          \/ proc' = [proc EXCEPT ![p].pc = "exec_unknown"]
      BY <1>9, PlaceOutcomes
    <3>2. [proc EXCEPT ![p].pc = "exec_unknown"]
             = [proc EXCEPT ![p].order = proc[p].order, ![p].pc = "exec_unknown"]
      BY <1>1 DEF Locals, IInv
    <3> QED BY <3>1, <3>2
  <2>2. PICK order, label :
           /\ label \in {"exec_record", "exec_unknown"}
           /\ proc' = [proc EXCEPT ![p].order = order, ![p].pc = label]
    BY <2>1
  <2>3. /\ Others(p) /\ SameJob(proc[p], proc'[p]) /\ proc'[p].pc = label
        /\ proc'[p].todo = proc[p].todo
    BY <2>2, OfTypes DEF Others, SameJob, Locals
  <2>4. /\ proc'[p].pc \in Executing /\ proc'[p].pc \notin Planning \cup {"exec_place", "claim"}
        /\ proc'[p].cmd = "tick" /\ Slot(proc'[p]) = Slot(proc[p]) /\ Owner(proc'[p])
    BY <1>4, <2>2, <2>3 DEF Executing, Planning, SameJob, Slot, Owner
  <2>5. proc'[p].todo \cap Sent(broker') = {}
    BY <1>4, <1>6, <2>3
  <2>6. Scheduled(proc'[p], db'.claims, Sent(broker'))
    BY <1>1, <1>4, <2>3, <2>4, <2>5 DEF Scheduled
  <2> QED BY <1>1, <1>4, <1>6, <1>7, <2>3, <2>4, <2>6, OwnSchedule
<1> QED BY <1>8, <1>9

(* The order is recorded, or the command fails.                            *)
LEMMA ExecRecordSchedule ==
    ASSUME IInv, ScheduleInv, NEW p \in Procs, ExecRecord(p)
    PROVE  ScheduleInv'
<1>0. proc[p].pc = "exec_record" /\ SameRequests(broker, broker') /\ proc[p].pc \in Executing
  BY SameBroker DEF ExecRecord, At, Executing
<1>1. CASE CanRecordOrder(db, proc[p].order, proc[p].intent)
  <2>1. proc' = [proc EXCEPT ![p].submitted = TRUE, ![p].intent = NoIntent,
                             ![p].order = 0, ![p].pc = "exec_check"]
    BY <1>1 DEF ExecRecord
  <2>2. db'.claims = db.claims
    BY <1>1 DEF ExecRecord, RecordBrokerOrder, IInv, BooksOK, Database
  <2>3. /\ Others(p) /\ proc'[p].cmd = proc[p].cmd /\ proc'[p].day = proc[p].day
        /\ proc'[p].phase = proc[p].phase /\ proc'[p].pc = "exec_check"
        /\ proc'[p].todo = proc[p].todo
    BY <2>1, OfTypes DEF Others, Locals
  <2>4. proc'[p].pc \in Executing
    BY <2>3 DEF Executing
  <2> QED BY <1>0, <2>2, <2>3, <2>4, ExecutingSchedule
<1>2. CASE ~CanRecordOrder(db, proc[p].order, proc[p].intent)
  BY <1>0, <1>2, EndSchedule DEF ExecRecord
<1> QED BY <1>1, <1>2

(* The intent is marked UNKNOWN and the run is over.                       *)
LEMMA ExecUnknownSchedule ==
    ASSUME IInv, ScheduleInv, NEW p \in Procs, ExecUnknown(p)
    PROVE  ScheduleInv'
<1>1. db'.claims = db.claims /\ SameRequests(broker, broker')
  BY SameBroker DEF ExecUnknown, MarkIntentUnknown, IInv, BooksOK, Database
<1> QED BY <1>1, EndSchedule DEF ExecUnknown

(* The run reconciles after what it submitted, or ends.                    *)
LEMMA ExecDoneSchedule ==
    ASSUME IInv, ScheduleInv, NEW p \in Procs, ExecDone(p)
    PROVE  ScheduleInv'
<1>0. proc[p].pc = "exec_check" /\ db'.claims = db.claims /\ SameRequests(broker, broker')
  BY SameBroker DEF ExecDone, At
<1>1. CASE proc[p].submitted
  <2>1. proc' = [proc EXCEPT ![p] = Keep(proc[p], "rec_state")]
    BY <1>1 DEF ExecDone, Enter
  <2>2. Others(p) /\ proc'[p] = Keep(proc[p], "rec_state")
    BY <2>1 DEF IInv, Others
  <2>3. SameJob(proc[p], proc'[p]) /\ proc'[p].pc = "rec_state"
    BY <2>2 DEF SameJob, Keep, Fresh
  <2>4. Scheduled(proc[p], db.claims, Sent(broker)) /\ proc[p].pc \in Executing
    BY <1>0 DEF ScheduleInv, Executing
  <2>5. Owner(proc[p]) /\ Slot(proc[p]) \in db.claims /\ proc[p].cmd = "tick"
    BY <1>0, <2>4 DEF Scheduled, Owner
  <2>6. Slot(proc'[p]) = Slot(proc[p]) /\ proc'[p].submitted /\ proc'[p].cmd = "tick"
    BY <1>1, <2>3, <2>5 DEF SameJob, Slot
  <2>7. proc'[p].pc \notin Planning \cup Executing \cup {"exec_gate", "exec_place"}
    BY <2>3 DEF Planning, Executing
  <2>8. Scheduled(proc'[p], db.claims, Sent(broker))
    BY <2>5, <2>6, <2>7 DEF Scheduled
  <2> QED BY <1>0, <2>2, <2>5, <2>6, <2>8, QuietSchedule
<1>2. CASE ~proc[p].submitted
  BY <1>0, <1>2, EndSchedule DEF ExecDone
<1> QED BY <1>1, <1>2

(* No process is asked to run a phase by hand.                             *)
OnlyScheduledRuns == \A p \in Procs : "run" \notin CommandsOf[p]

(* Every step of a tick keeps the schedule.                                *)
LEMMA RunSchedule ==
    ASSUME IInv, ScheduleInv, OnlyScheduledRuns, NEW p \in Procs, RunStep(p)
    PROVE  ScheduleInv'
<1>1. ~ \E phase \in Phase : StartRun(p, phase)
  BY DEF OnlyScheduledRuns, StartRun, MayStart
<1> QED BY <1>1, StartTickSchedule, ClaimSchedule, ReadProfileSchedule, PlanReadSchedule,
           PlanSaveSchedule, PlanRecordSchedule, ExecPendingSchedule, ExecGateSchedule,
           ExecCheckSchedule, ExecPlaceSchedule, ExecRecordSchedule, ExecUnknownSchedule,
           ExecDoneSchedule DEF RunStep

(* Without a step of a process, what was sent may only be forgotten.       *)
LEMMA SentShrinks ==
    ASSUME ScheduleInv, UNCHANGED <<db, proc>>,
           Sent(broker') \subseteq Sent(broker), Unique(broker')
    PROVE  ScheduleInv'
<1>1. ASSUME NEW p \in Procs
      PROVE  Scheduled(proc[p], db.claims, Sent(broker'))
  <2>1. Scheduled(proc[p], db.claims, Sent(broker))
    BY DEF ScheduleInv
  <2>2. proc[p].intent \notin Sent(broker) => proc[p].intent \notin Sent(broker')
    OBVIOUS
  <2>3. proc[p].todo \cap Sent(broker) = {} => proc[p].todo \cap Sent(broker') = {}
    OBVIOUS
  <2> QED BY <2>1, <2>2, <2>3 DEF Scheduled
<1>2. \A i \in Sent(broker') : SlotOf(i) \in db.claims
  BY DEF ScheduleInv
<1> QED BY <1>1, <1>2 DEF ScheduleInv

(* The broker moves requests that are under way to its orders, once, and   *)
(* forgets what is lost overnight.                                         *)
LEMMA BrokerSchedule ==
    ASSUME IInv, ScheduleInv, BrokerNext, UNCHANGED <<db, proc>>
    PROVE  ScheduleInv'
<1>0. /\ broker \in Account /\ broker.orders \in Seq(BrokerOrder)
      /\ Len(broker.orders) \in Nat /\ Unique(broker)
  BY DEF IInv, BooksOK, Account, ScheduleInv
<1>1. ASSUME SameRequests(broker, broker') PROVE ScheduleInv'
  BY <1>1, SameSent, SentShrinks
<1>2. ASSUME NEW n \in 1..Len(broker.orders), NEW o, o.intent = broker.orders[n].intent,
             broker'.orders = [broker.orders EXCEPT ![n] = o],
             broker'.inflight = broker.inflight
      PROVE  ScheduleInv'
  <2>1. SameRequests(broker, broker')
    BY <1>0, <1>2 DEF SameRequests
  <2> QED BY <1>1, <2>1
<1>3. ASSUME NEW n \in 1..Len(broker.orders), NEW q, Execute(n, q)
      PROVE  ScheduleInv'
  <2>1. PICK o, execs, holding :
           /\ o = [broker.orders[n] EXCEPT !.filled = @ + q]
           /\ broker' = [broker EXCEPT !.orders = [broker.orders EXCEPT ![n] = o],
                                       !.execs = execs, !.holding = holding]
    BY <1>3 DEF Execute
  <2>2. o.intent = broker.orders[n].intent
    BY <1>0, <2>1 DEF BrokerOrder
  <2>3. broker'.orders = [broker.orders EXCEPT ![n] = o] /\ broker'.inflight = broker.inflight
    BY <1>0, <2>1 DEF Account
  <2> QED BY <1>2, <2>2, <2>3
<1>4. ASSUME NEW n \in 1..Len(broker.orders), CancelTakesEffect(n) \/ Reject(n)
      PROVE  ScheduleInv'
  <2>1. PICK st : broker' = [broker EXCEPT !.orders[n].status = st]
    BY <1>4 DEF CancelTakesEffect, Reject
  <2>2. PICK o : o = [broker.orders[n] EXCEPT !.status = st]
    OBVIOUS
  <2>3. o.intent = broker.orders[n].intent
    BY <1>0, <2>2 DEF BrokerOrder
  <2>4. broker' = [broker EXCEPT !.orders = [broker.orders EXCEPT ![n] = o]]
    BY <2>1, <2>2
  <2>5. broker'.orders = [broker.orders EXCEPT ![n] = o] /\ broker'.inflight = broker.inflight
    BY <1>0, <2>4 DEF Account
  <2> QED BY <1>2, <2>3, <2>5
<1>5. ASSUME NEW i \in broker.inflight, LateArrival(i)
      PROVE  ScheduleInv'
  <2>1. CanAccept /\ i \in Intent
        /\ broker' = [Accepted(broker, i) EXCEPT !.inflight = @ \ {i}]
    BY <1>0, <1>5 DEF LateArrival, Account
  <2>2. Accepted(broker, i) \in Account /\ Accepted(broker, i).inflight = broker.inflight
    BY <2>1, AcceptedAccount
  <2>3. /\ broker'.orders = Accepted(broker, i).orders
        /\ broker'.inflight = broker.inflight \ {i}
    BY <2>1, <2>2 DEF Account
  <2>4. broker'.orders = Append(broker.orders, NewOrder(i))
    BY <1>0, <2>3 DEF Accepted, Account
  <2> DEFINE k == Len(broker.orders) + 1
             D == 1..Len(broker.orders)
  <2>5. /\ 1..Len(broker'.orders) = D \cup {k} /\ k \notin D
        /\ broker'.orders[k].intent = i
        /\ \A n \in D : broker'.orders[n].intent = broker.orders[n].intent
    <3>1. Len(broker'.orders) = k /\ broker'.orders[k] = NewOrder(i)
          /\ \A n \in D : broker'.orders[n] = broker.orders[n]
      BY <1>0, <2>4
    <3> QED BY <1>0, <3>1 DEF NewOrder
  <2>6. /\ Sent(broker) = {broker.orders[n].intent : n \in D} \cup broker.inflight
        /\ \A n \in D : /\ broker.orders[n].intent \notin broker.inflight
                        /\ \A m \in D : m # n => broker.orders[m].intent # broker.orders[n].intent
    BY <1>0 DEF Sent, Unique
  <2> HIDE DEF k, D
  <2>7. Unique(broker')
    BY <2>3, <2>5, <2>6 DEF Unique
  <2>8. Sent(broker') = {broker'.orders[n].intent : n \in D \cup {k}} \cup broker'.inflight
    BY <2>5 DEF Sent
  <2>9. Sent(broker') \subseteq Sent(broker)
    BY <2>3, <2>5, <2>6, <2>8
  <2> QED BY <2>7, <2>9, SentShrinks
<1>6. CASE WindowPasses
  BY <1>1, <1>6, SameBroker DEF WindowPasses
<1>7. CASE NextDay
  <2>1. PICK st : broker' = [broker EXCEPT
            !.orders = [n \in DOMAIN broker.orders |-> Expired(broker.orders[n], st)],
            !.inflight = {}]
    BY <1>7 DEF NextDay
  <2> DEFINE orders == [n \in DOMAIN broker.orders |-> Expired(broker.orders[n], st)]
  <2>2. broker'.orders = orders /\ broker'.inflight = {}
    BY <1>0, <2>1 DEF Account
  <2>3. /\ DOMAIN orders = 1..Len(broker.orders)
        /\ \A n \in 1..Len(broker.orders) : orders[n].intent = broker.orders[n].intent
    BY <1>0 DEF Expired, BrokerOrder
  <2>4. Len(orders) = Len(broker.orders)
    BY <1>0, <2>3, NextDayStep, <1>7, <2>2 DEF KeepsIntents, Grows, IInv, BooksOK, Account
  <2> HIDE DEF orders
  <2>5. Unique(broker') /\ Sent(broker') \subseteq Sent(broker)
    BY <1>0, <2>2, <2>3, <2>4 DEF Unique, Sent
  <2> QED BY <2>5, SentShrinks
<1> QED BY <1>3, <1>4, <1>5, <1>6, <1>7 DEF BrokerNext

(* Every step keeps the schedule.                                          *)
LEMMA NextSchedule ==
    ASSUME IInv, ScheduleInv, OnlyScheduledRuns, [Next]_vars
    PROVE  ScheduleInv'
<1>1. CASE UNCHANGED vars
  <2>1. UNCHANGED <<db, proc>> /\ SameRequests(broker, broker')
    BY <1>1, SameBroker DEF vars
  <2> QED BY <2>1, SameSent, SentShrinks
<1>2. CASE BrokerNext /\ UNCHANGED <<db, proc>>
  BY <1>2, BrokerSchedule
<1>3. ASSUME NEW p \in Procs, ProcessNext(p) PROVE ScheduleInv'
  <2>1. CASE RunStep(p)
    BY <2>1, RunSchedule
  <2>2. CASE ReconcileStep(p)
    BY <2>2, RecReturns, ReturnsSchedule
  <2>3. CASE CommandStep(p)
    <3>1. CASE Aside(p)
      BY <3>1, AsideSchedule
    <3>2. CASE UNCHANGED <<proc, broker>> /\ db'.claims = db.claims
      <4>1. SameRequests(broker, broker') /\ Scheduled(proc[p], db.claims, Sent(broker))
            /\ Others(p)
        BY <3>2, SameBroker DEF ScheduleInv, Others
      <4> QED BY <3>2, <4>1, QuietSchedule
    <3> QED BY <2>3, <3>1, <3>2, CommandsAside
  <2>4. CASE Crash(p)
    BY <2>4, SameBroker, EndSchedule DEF Crash, Abort
  <2> QED BY <1>3, <2>1, <2>2, <2>3, <2>4 DEF ProcessNext
<1> QED BY <1>1, <1>2, <1>3 DEF Next

(* At first nothing is claimed, owned or sent.                             *)
LEMMA InitSchedule == Init => ScheduleInv
<1> SUFFICES ASSUME Init PROVE ScheduleInv
  OBVIOUS
<1>1. ASSUME NEW p \in Procs PROVE Resting(proc[p])
  <2>1. proc[p] \in {Fresh, Absent}
    BY DEF Init, ProcessInit
  <2>2. Resting(Absent)
    BY Labels DEF Resting, Absent, Fresh
  <2> QED BY <2>1, <2>2, RestingFresh
<1>2. Len(broker.orders) = 0 /\ broker.inflight = {}
  BY DEF Init, BrokerInit
<1>3. Sent(broker) = {} /\ Unique(broker)
  BY <1>2 DEF Sent, Unique
<1> QED BY <1>1, <1>3, RestingScheduled DEF ScheduleInv

(* claim_automation, execute_intents and mark_intent_unknown: when the     *)
(* phases are run by automation tick only, an intent reaches the broker at *)
(* most once, for any number of processes, with crashes and with requests  *)
(* that arrive late.                                                       *)
THEOREM NoDuplicateFromTicks ==
    ASSUME OnlyScheduledRuns
    PROVE  Spec => []NoDuplicateSubmission
<1>1. Init => ScheduleInv
  BY InitSchedule
<1>2. IInv /\ ScheduleInv /\ [Next]_vars => ScheduleInv'
  BY NextSchedule
<1>3. ScheduleInv => NoDuplicateSubmission
  BY DEF ScheduleInv, Unique, NoDuplicateSubmission
<1> QED BY <1>1, <1>2, <1>3, Invariance, PTL DEF Spec

-----------------------------------------------------------------------------
(***************************************************************************)
(* Commands one at a time: at most one process is deployed.  SoleInv says  *)
(* what the gates of execute_intents guarantee until the order is sent: a  *)
(* profile that was ON when it was read and that a reconciliation did not  *)
(* lock is still ON, a state copy knows whether a reconciliation is        *)
(* required, and an UNKNOWN intent always requires one.                    *)
(***************************************************************************)
(* Labels after the history of a reconciliation was fetched.              *)
Seen == {"rec_row", "rec_fill", "rec_lock", "rec_apply", "rec_holding", "rec_flag",
         "rec_quit", "rec_unknown", "rec_clear"}
(* Labels at which the local state is a copy of the row, or may be stored. *)
Held == Seen \cup {"rec_orders", "rec_history", "plan_save", "lock_save"}
(* Labels from which a run may still come to send an order.                *)
Armed == Seen \cup {"rec_state", "rec_orders", "rec_history", "plan_read", "plan_save",
                    "plan_record", "exec_pending", "exec_gate", "exec_check",
                    "exec_place", "exec_record"}
(* Labels at which a run has passed the gates.                             *)
Firing == {"exec_check", "exec_place", "exec_record"}
(* Labels of automation off and orders cancel.                             *)
Off == {"off_orders", "off_cancel", "off_mark"}
(* Labels of a run whose reconciliation found nothing to explain.          *)
Cleared == {"plan_read", "plan_save", "plan_record", "exec_pending", "exec_gate"}

(* What a process has in hand agrees with the database: flag, status,      *)
(* gates.                                                                  *)
Guarded(l, d) ==
    /\ l.alien => l.pc \in Seen /\ l.state.required
    /\ l.pc = "rec_lock" => l.alien
    /\ l.pc = "rec_clear" => ~l.alien /\ ~HasUnknownIntents(d)
    /\ l.pc \in Held => l.state.required = d.state.required
    /\ l.pc \in Armed /\ l.on => d.status = "ON" \/ l.alien
    /\ l.pc \in Firing => l.on /\ ~d.emergency /\ ~d.state.required
    /\ l.pc \in Off => ~l.on
    /\ l.pc \in Cleared => ~d.state.required

(* At most one process is deployed.                                        *)
Alone == \A p, q \in Procs : ~At(p, "absent") /\ ~At(q, "absent") => p = q

(* mark_intent_unknown: an unknown intent requires a reconciliation.       *)
Halted(d) == HasUnknownIntents(d) => d.state.required

(* The invariant of commands that run one at a time.                       *)
SoleInv == Alone /\ Halted(db) /\ \A p \in Procs : Guarded(proc[p], db)

(* Every deployment has one process: each command ends, or its process     *)
(* dies, before the next one starts.                                       *)
OneAtATime == \A d \in Deployments : \A p, q \in d.procs : p = q

(* A step of the one process keeps SoleInv if its own part is kept.        *)
LEMMA SoleStep ==
    ASSUME SoleInv, NEW p \in Procs, proc[p].pc # "absent", Others(p),
           Halted(db'), Guarded(proc'[p], db')
    PROVE  SoleInv'
<1>1. ASSUME NEW q \in Procs, q # p
      PROVE  proc'[q] = proc[q] /\ proc[q].pc = "absent" /\ Guarded(proc'[q], db')
  <2>1. proc'[q] = proc[q] /\ proc[q].pc = "absent"
    BY <1>1 DEF SoleInv, Alone, At, Others
  <2>2. "absent" \notin Seen \cup Held \cup Armed \cup Firing \cup Off
                       \cup Cleared \cup {"rec_lock", "rec_clear"}
    BY DEF Seen, Held, Armed, Firing, Off, Cleared
  <2> QED BY <2>1, <2>2 DEF SoleInv, Guarded
<1>2. Alone'
  BY <1>1 DEF Alone, At
<1> QED BY <1>1, <1>2 DEF SoleInv

(* An idle or absent process has nothing in hand.                          *)
LEMMA GuardedFresh ==
    ASSUME NEW d PROVE Guarded(Fresh, d) /\ Guarded(Absent, d)
BY DEF Guarded, Fresh, Absent, Seen, Held, Armed, Firing, Off, Cleared

(* A command that moves on with Keep has only its ON in hand.              *)
LEMMA GuardedKeep ==
    ASSUME NEW l, NEW d, NEW label, label \notin Held \cup Firing \cup Off,
           label \in Armed /\ l.on => d.status = "ON",
           label \in Cleared => ~d.state.required
    PROVE  Guarded(Keep(l, label), d)
<1> DEFINE m == Keep(l, label)
<1>1. m.pc = label /\ m.on = l.on /\ ~m.alien
  BY DEF Keep, Fresh
<1>2. label \notin {"rec_lock", "rec_clear"} \cup Seen
  BY DEF Held, Seen
<1> HIDE DEF m
<1>3. Guarded(m, d)
  BY <1>1, <1>2 DEF Guarded
<1> QED BY <1>3 DEF m

(* A command that ends keeps SoleInv.                                      *)
LEMMA EndSole ==
    ASSUME IInv, SoleInv, NEW p \in Procs, proc[p].pc # "absent", End(p), Halted(db')
    PROVE  SoleInv'
<1>1. Others(p) /\ proc'[p] = Fresh
  BY DEF IInv, End, Others
<1> QED BY <1>1, GuardedFresh, SoleStep

(* So does one that moves on with Keep.                                    *)
LEMMA KeepSole ==
    ASSUME IInv, SoleInv, NEW p \in Procs, proc[p].pc # "absent",
           NEW label, label \notin Held \cup Firing \cup Off,
           proc' = [proc EXCEPT ![p] = Keep(proc[p], label)], Halted(db'),
           label \in Armed /\ proc[p].on => db'.status = "ON",
           label \in Cleared => ~db'.state.required
    PROVE  SoleInv'
<1>1. Others(p) /\ proc'[p] = Keep(proc[p], label)
  BY DEF IInv, Others
<1> QED BY <1>1, GuardedKeep, SoleStep

(* Nothing the gates look at changes, and no intent becomes unknown.       *)
Alike(d, d2) ==
    /\ d2.status = d.status /\ d2.emergency = d.emergency
    /\ d2.state.required = d.state.required
    /\ HasUnknownIntents(d2) => HasUnknownIntents(d)

(* A database that does not change is alike.                               *)
LEMMA SameAlike == ASSUME db' = db PROVE Alike(db, db')
BY DEF Alike

(* A database alike in these is halted alike.                              *)
LEMMA AlikeHalted ==
    ASSUME SoleInv, Alike(db, db') PROVE Halted(db')
BY DEF SoleInv, Halted, Alike

(* A step that changes the locals as little.                               *)
LEMMA AlikeSole ==
    ASSUME SoleInv, NEW p \in Procs, proc[p].pc # "absent", Others(p), Alike(db, db'),
           Guarded(proc[p], db) => Guarded(proc'[p], db')
    PROVE  SoleInv'
BY AlikeHalted, SoleStep DEF SoleInv

(* The label sets, written out.                                            *)
LEMMA LabelSets ==
    /\ Seen = {"rec_row", "rec_fill", "rec_lock", "rec_apply", "rec_holding", "rec_flag",
               "rec_quit", "rec_unknown", "rec_clear"}
    /\ Held = {"rec_row", "rec_fill", "rec_lock", "rec_apply", "rec_holding", "rec_flag",
               "rec_quit", "rec_unknown", "rec_clear",
               "rec_orders", "rec_history", "plan_save", "lock_save"}
    /\ Armed = {"rec_row", "rec_fill", "rec_lock", "rec_apply", "rec_holding", "rec_flag",
                "rec_quit", "rec_unknown", "rec_clear",
                "rec_state", "rec_orders", "rec_history", "plan_read", "plan_save",
                "plan_record", "exec_pending", "exec_gate", "exec_check",
                "exec_place", "exec_record"}
    /\ Firing = {"exec_check", "exec_place", "exec_record"}
    /\ Off = {"off_orders", "off_cancel", "off_mark"}
    /\ Cleared = {"plan_read", "plan_save", "plan_record", "exec_pending", "exec_gate"}
BY DEF Seen, Held, Armed, Firing, Off, Cleared

(* A step within the reconciliation that changes neither flag nor state.   *)
LEMMA SeenSole ==
    ASSUME SoleInv, NEW p \in Procs, Others(p), Alike(db, db'), proc[p].pc \in Seen,
           proc'[p].pc \in Seen \ {"rec_lock", "rec_clear"},
           proc'[p].on = proc[p].on, proc'[p].alien = proc[p].alien,
           proc'[p].state = proc[p].state
    PROVE  SoleInv'
<1>1. proc[p].pc # "absent" /\ proc'[p].pc \notin Firing \cup Off \cup Cleared
      /\ proc[p].pc \in Held /\ proc[p].pc \in Armed
  BY LabelSets
<1>2. Guarded(proc[p], db) => Guarded(proc'[p], db')
  BY <1>1 DEF Guarded, Alike
<1> QED BY <1>1, <1>2, AlikeSole

(* The caller of a reconciliation goes on.                                 *)
LEMMA ResumeSole ==
    ASSUME IInv, SoleInv, NEW p \in Procs, proc[p].pc # "absent", NEW required,
           Resume(p, required), Halted(db'),
           ~required /\ proc[p].on => db'.status = "ON",
           ~required => ~db'.state.required
    PROVE  SoleInv'
<1>1. PICK m : /\ proc' = [proc EXCEPT ![p] = m]
               /\ m = CASE proc[p].cmd \in {"run", "tick"} /\ ~proc[p].submitted /\ ~required
                                                    -> Keep(proc[p], "plan_read")
                        [] proc[p].cmd = "on" /\ ~required -> Keep(proc[p], "on_set")
                        [] proc[p].cmd = "off" -> Keep(proc[p], IF required THEN "lock_status"
                                                                            ELSE "off_check")
                        [] OTHER -> Fresh
  BY DEF Resume
<1>2. \/ m = Fresh
      \/ \E label \in {"on_set", "lock_status", "off_check"} : m = Keep(proc[p], label)
      \/ ~required /\ m = Keep(proc[p], "plan_read")
  BY <1>1
<1>3. CASE m = Fresh
  BY <1>1, <1>3, EndSole DEF End
<1>4. ASSUME NEW label \in {"on_set", "lock_status", "off_check"}, m = Keep(proc[p], label)
      PROVE  SoleInv'
  <2>1. label \notin Held \cup Firing \cup Off \cup Cleared \cup Armed
    BY LabelSets
  <2> QED BY <1>1, <1>4, <2>1, KeepSole
<1>5. CASE ~required /\ m = Keep(proc[p], "plan_read")
  <2>1. "plan_read" \notin Held \cup Firing \cup Off
    BY LabelSets
  <2> QED BY <1>1, <1>5, <2>1, KeepSole
<1> QED BY <1>2, <1>3, <1>4, <1>5

(* A broker error ends the command or locks the profile.                   *)
LEMMA BrokerFailsSole ==
    ASSUME IInv, SoleInv, NEW p \in Procs, proc[p].pc # "absent", BrokerFails(p)
    PROVE  SoleInv'
<1>1. "lock_status" \notin Held \cup Firing \cup Off \cup Cleared \cup Armed /\ Halted(db')
  BY LabelSets, SameAlike, AlikeHalted DEF BrokerFails
<1> QED BY <1>1, EndSole, KeepSole DEF BrokerFails, Enter

(* The steps of reconcile_dbsec keep SoleInv.                              *)
LEMMA RecSole ==
    ASSUME IInv, SoleInv, NEW p \in Procs, ReconcileStep(p)
    PROVE  SoleInv'
<1>0. /\ proc \in [Procs -> Locals] /\ proc[p] \in Locals /\ db \in Database
      /\ Guarded(proc[p], db) /\ Halted(db) /\ db.state \in StateRow
      /\ proc[p].state \in StateRow
  BY DEF IInv, BooksOK, SoleInv, Database, Locals
<1>1. CASE RecState(p)
  <2>1. /\ Others(p) /\ proc[p].pc = "rec_state" /\ proc'[p].pc = "rec_orders"
        /\ proc'[p].on = proc[p].on /\ proc'[p].alien = proc[p].alien
        /\ proc'[p].state = db.state
    BY <1>0, <1>1 DEF RecState, At, Locals, Others
  <2>2. Guarded(proc[p], db) => Guarded(proc'[p], db')
    BY <1>1, <2>1, LabelSets DEF Guarded, RecState
  <2> QED BY <1>1, <2>1, <2>2, SameAlike, AlikeSole DEF RecState
<1>2. CASE RecOrders(p)
  <2>1. /\ Others(p) /\ proc[p].pc = "rec_orders" /\ proc'[p].pc = "rec_history"
        /\ proc'[p].on = proc[p].on /\ proc'[p].alien = proc[p].alien
        /\ proc'[p].state = proc[p].state
    BY <1>0, <1>2 DEF RecOrders, At, Locals, Others
  <2>2. Guarded(proc[p], db) => Guarded(proc'[p], db')
    BY <1>2, <2>1, LabelSets DEF Guarded, RecOrders
  <2> QED BY <1>2, <2>1, <2>2, SameAlike, AlikeSole DEF RecOrders
<1>3. CASE RecHistory(p)
  <2>0. proc[p].pc = "rec_history"
    BY <1>3 DEF RecHistory, At
  <2>1. CASE BrokerFails(p)
    BY <2>0, <2>1, BrokerFailsSole
  <2>2. CASE ~BrokerFails(p)
    <3>1. /\ Others(p) /\ proc'[p].pc = "rec_row"
          /\ proc'[p].on = proc[p].on /\ proc'[p].alien = proc[p].alien
          /\ proc'[p].state = proc[p].state /\ UNCHANGED db
      BY <1>0, <1>3, <2>2 DEF RecHistory, Locals, Others
    <3>2. Guarded(proc[p], db) => Guarded(proc'[p], db')
      BY <2>0, <3>1, LabelSets DEF Guarded
    <3> QED BY <2>0, <3>1, <3>2, SameAlike, AlikeSole
  <2> QED BY <2>1, <2>2
<1>4. CASE RecRow(p)
  <2>0. proc[p].pc = "rec_row"
    BY <1>4 DEF RecRow, At
  <2>1. ASSUME NEW row, RecKnownRow(p, row) PROVE SoleInv'
    <3>1. /\ Others(p) /\ proc'[p].pc \in {"rec_row", "rec_fill"}
          /\ proc'[p].on = proc[p].on /\ proc'[p].alien = proc[p].alien
          /\ proc'[p].state = proc[p].state
      BY <1>0, <2>1 DEF RecKnownRow, Locals, Others
    <3>2. Alike(db, db')
      BY <1>0, <2>1 DEF RecKnownRow, UpdateOrderStatus, Database, Alike, HasUnknownIntents
    <3>3. proc'[p].pc \in Seen \ {"rec_lock", "rec_clear"} /\ proc[p].pc \in Seen
      BY <2>0, <3>1, LabelSets
    <3> QED BY <3>1, <3>2, <3>3, SeenSole
  <2>2. ASSUME NEW row, RecAlienRow(p, row) PROVE SoleInv'
    <3> DEFINE l == [proc[p] EXCEPT !.rows = @ \ {row}, !.alien = TRUE, !.pc = "rec_lock"]
    <3>0. l.state = proc[p].state /\ l \in Locals
      BY <1>0 DEF Locals, Label
    <3>1. CASE End(p) /\ UNCHANGED db
      BY <2>0, <3>1, EndSole, SameAlike, AlikeHalted
    <3>2. CASE proc[p].state.required /\ proc' = [proc EXCEPT ![p] = l] /\ UNCHANGED db
      <4>1. /\ Others(p) /\ proc'[p].pc = "rec_lock"
            /\ proc'[p].on = proc[p].on /\ proc'[p].alien = TRUE
            /\ proc'[p].state = proc[p].state
        BY <1>0, <3>2 DEF Locals, Others
      <4>0. UNCHANGED db /\ proc[p].state.required
        BY <3>2
      <4>2. Guarded(proc[p], db) => Guarded(proc'[p], db')
        BY <2>0, <4>0, <4>1, LabelSets DEF Guarded
      <4> QED BY <2>0, <3>2, <4>1, <4>2, SameAlike, AlikeSole
    <3>3. CASE /\ db' = SaveState(db, Flag(l.state, TRUE))
               /\ proc' = [proc EXCEPT ![p] = [l EXCEPT !.state = Flag(l.state, TRUE)]]
      <4>1. PICK s : s = Flag(proc[p].state, TRUE)
        OBVIOUS
      <4>2. s.required = TRUE
        BY <1>0, <4>1 DEF Flag, StateRow
      <4>3. /\ Others(p) /\ proc'[p].pc = "rec_lock"
            /\ proc'[p].on = proc[p].on /\ proc'[p].alien = TRUE
            /\ proc'[p].state = s
        BY <1>0, <3>0, <3>3, <4>1 DEF Locals, Others
      <4>4. db'.state = s /\ db'.status = db.status
        BY <1>0, <3>0, <3>3, <4>1 DEF SaveState, Database
      <4>5. Guarded(proc'[p], db') /\ Halted(db')
        BY <2>0, <4>2, <4>3, <4>4, LabelSets DEF Guarded, Halted
      <4> QED BY <2>0, <4>3, <4>5, SoleStep
    <3> HIDE DEF l
    <3> QED BY <2>2, <3>0, <3>1, <3>2, <3>3 DEF RecAlienRow, l
  <2> QED BY <1>4, <2>1, <2>2 DEF RecRow
<1>5. CASE RecFill(p)
  <2>1. /\ Others(p) /\ proc[p].pc = "rec_fill" /\ proc'[p].pc = "rec_row"
        /\ proc'[p].on = proc[p].on /\ proc'[p].alien = proc[p].alien
        /\ proc'[p].state = proc[p].state
    BY <1>0, <1>5 DEF RecFill, At, Locals, Others
  <2>2. Alike(db, db')
    BY <1>0, <1>5 DEF RecFill, AddFill, Database, Alike, HasUnknownIntents
  <2>3. Guarded(proc[p], db) => Guarded(proc'[p], db')
    BY <2>1, <2>2, LabelSets DEF Guarded, Alike
  <2> QED BY <2>1, <2>2, <2>3, AlikeSole
<1>6. CASE RecLock(p)
  <2>1. /\ Others(p) /\ proc[p].pc = "rec_lock" /\ proc'[p].pc = "rec_row"
        /\ proc'[p].on = proc[p].on /\ proc'[p].alien = proc[p].alien
        /\ proc'[p].state = proc[p].state
    BY <1>0, <1>6 DEF RecLock, Goto, At, Locals, Others
  <2>2. db'.state = db.state /\ db'.intents = db.intents
    BY <1>0, <1>6 DEF RecLock, SetProfileStatus, Database
  <2>3. Guarded(proc'[p], db') /\ Halted(db')
    BY <1>0, <2>1, <2>2, LabelSets DEF Guarded, Halted, HasUnknownIntents
  <2> QED BY <2>1, <2>3, SoleStep
<1>7. CASE RecPending(p)
  <2>1. /\ Others(p) /\ proc[p].pc = "rec_row" /\ proc'[p].pc \in {"rec_holding", "rec_apply"}
        /\ proc'[p].on = proc[p].on /\ proc'[p].alien = proc[p].alien
        /\ proc'[p].state = proc[p].state
    BY <1>0, <1>7 DEF RecPending, At, Locals, Others
  <2>2. proc'[p].pc \in Seen \ {"rec_lock", "rec_clear"} /\ proc[p].pc \in Seen
    BY <2>1, LabelSets
  <2> QED BY <1>7, <2>1, <2>2, SameAlike, SeenSole DEF RecPending
<1>8. CASE RecFold(p)
  <2>0. proc[p].pc = "rec_apply" /\ UNCHANGED db
    BY <1>8 DEF RecFold, At
  <2>1. CASE End(p)
    BY <2>0, <2>1, EndSole, SameAlike, AlikeHalted
  <2>2. CASE ~End(p)
    <3>1. PICK f : proc' = [proc EXCEPT ![p].state = Fold(@, f), ![p].pend = @ \ {f},
                                         ![p].done = @ \cup {f}]
      BY <1>8, <2>2 DEF RecFold
    <3>2. Fold(proc[p].state, f).required = proc[p].state.required
      BY <1>0 DEF Fold, StateRow
    <3>3. PICK s : s = Fold(proc[p].state, f)
      OBVIOUS
    <3>4. /\ Others(p) /\ proc'[p].pc = "rec_apply"
          /\ proc'[p].on = proc[p].on /\ proc'[p].alien = proc[p].alien
          /\ proc'[p].state = s
      BY <1>0, <2>0, <3>1, <3>3 DEF Locals, Others
    <3>5. Guarded(proc[p], db) => Guarded(proc'[p], db')
      BY <2>0, <3>2, <3>3, <3>4, LabelSets DEF Guarded
    <3> QED BY <2>0, <3>4, <3>5, SameAlike, AlikeSole
  <2> QED BY <2>1, <2>2
<1>9. CASE RecSave(p)
  <2>0. proc[p].pc = "rec_apply"
    BY <1>9 DEF RecSave, At
  <2>1. CASE CanSave(db, proc[p].base)
    <3>1. /\ Others(p) /\ proc'[p].pc = "rec_holding"
          /\ proc'[p].on = proc[p].on /\ proc'[p].alien = proc[p].alien
          /\ proc'[p].state = proc[p].state
      BY <1>0, <1>9, <2>1 DEF RecSave, Locals, Others
    <3>2. /\ db'.state = proc[p].state /\ db'.intents = db.intents
          /\ db'.status = db.status /\ db'.emergency = db.emergency
      BY <1>0, <1>9, <2>1 DEF RecSave, SaveReconciledState, Database
    <3>3. Alike(db, db')
      BY <1>0, <2>0, <3>2, LabelSets DEF Guarded, Alike, HasUnknownIntents
    <3>4. Guarded(proc[p], db) => Guarded(proc'[p], db')
      BY <2>0, <3>1, <3>3, LabelSets DEF Guarded, Alike
    <3> QED BY <2>0, <3>1, <3>3, <3>4, AlikeSole
  <2>2. CASE ~CanSave(db, proc[p].base)
    BY <1>9, <2>0, <2>2, EndSole, SameAlike, AlikeHalted DEF RecSave
  <2> QED BY <2>1, <2>2
<1>10. CASE RecHolding(p)
  <2>0. proc[p].pc = "rec_holding"
    BY <1>10 DEF RecHolding, At
  <2>1. CASE BrokerFails(p)
    BY <2>0, <2>1, BrokerFailsSole
  <2>2. CASE ~BrokerFails(p)
    <3>1. PICK label \in {"rec_unknown", "rec_quit", "rec_flag"} : Goto(p, label)
      BY <1>10, <2>2 DEF RecHolding
    <3>2. UNCHANGED db
      BY <1>10, <2>2 DEF RecHolding
    <3>3. /\ Others(p) /\ proc'[p].pc = label
          /\ proc'[p].on = proc[p].on /\ proc'[p].alien = proc[p].alien
          /\ proc'[p].state = proc[p].state
      BY <1>0, <3>1 DEF Goto, Locals, Others
    <3>4. Guarded(proc[p], db) => Guarded(proc'[p], db')
      BY <2>0, <3>2, <3>3, LabelSets DEF Guarded
    <3> QED BY <2>0, <3>2, <3>3, <3>4, SameAlike, AlikeSole
  <2> QED BY <2>1, <2>2
<1>11. CASE RecFlag(p)
  <2>1. PICK s : s = Flag(proc[p].state, TRUE)
    OBVIOUS
  <2>2. s.required = TRUE
    BY <1>0, <2>1 DEF Flag, StateRow
  <2>3. proc[p].pc = "rec_flag" /\ SaveOrAbort(p, s, proc[p].state.version, "rec_quit")
    BY <1>11, <2>1 DEF RecFlag, At
  <2>4. CASE CanSave(db, proc[p].state.version)
    <3>1. /\ Others(p) /\ proc'[p].pc = "rec_quit"
          /\ proc'[p].on = proc[p].on /\ proc'[p].alien = proc[p].alien
          /\ proc'[p].state = s
      BY <1>0, <2>3, <2>4 DEF SaveOrAbort, Locals, Others
    <3>2. db'.state = s /\ db'.status = db.status
      BY <1>0, <2>3, <2>4 DEF SaveOrAbort, SaveState, Database
    <3>3. Guarded(proc'[p], db') /\ Halted(db')
      BY <1>0, <2>2, <2>3, <3>1, <3>2, LabelSets DEF Guarded, Halted
    <3> QED BY <2>3, <3>1, <3>3, SoleStep
  <2>5. CASE ~CanSave(db, proc[p].state.version)
    BY <2>3, <2>5, EndSole, SameAlike, AlikeHalted DEF SaveOrAbort
  <2> QED BY <2>4, <2>5
<1>12. CASE RecQuit(p)
  <2>1. db'.state = db.state /\ db'.intents = db.intents
    BY <1>0, <1>12 DEF RecQuit, SetProfileStatus, Database
  <2>2. Halted(db') /\ proc[p].pc # "absent"
    BY <1>0, <1>12, <2>1 DEF Halted, HasUnknownIntents, RecQuit, At
  <2> QED BY <1>12, <2>2, ResumeSole DEF RecQuit
<1>13. CASE RecUnknown(p)
  <2>0. proc[p].pc = "rec_unknown" /\ UNCHANGED db
    BY <1>13 DEF RecUnknown, At
  <2>1. CASE proc[p].alien \/ HasUnknownIntents(db) \/ ~proc[p].state.required
    <3>1. Resume(p, proc[p].state.required)
      BY <1>13, <2>1 DEF RecUnknown
    <3>2. ~proc[p].state.required /\ proc[p].on => db'.status = "ON"
      BY <1>0, <2>0, LabelSets DEF Guarded
    <3>3. ~proc[p].state.required => ~db'.state.required
      BY <1>0, <2>0, LabelSets DEF Guarded
    <3> QED BY <2>0, <3>1, <3>2, <3>3, ResumeSole, SameAlike, AlikeHalted
  <2>2. CASE ~(proc[p].alien \/ HasUnknownIntents(db) \/ ~proc[p].state.required)
    <3>1. Goto(p, "rec_clear")
      BY <1>13, <2>2 DEF RecUnknown
    <3>2. /\ Others(p) /\ proc'[p].pc = "rec_clear"
          /\ proc'[p].on = proc[p].on /\ proc'[p].alien = proc[p].alien
          /\ proc'[p].state = proc[p].state
      BY <1>0, <3>1 DEF Goto, Locals, Others
    <3>3. Guarded(proc[p], db) => Guarded(proc'[p], db')
      BY <2>0, <2>2, <3>2, LabelSets DEF Guarded
    <3> QED BY <2>0, <3>2, <3>3, SameAlike, AlikeSole
  <2> QED BY <2>1, <2>2
<1>14. CASE RecClear(p)
  <2>0. proc[p].pc = "rec_clear"
    BY <1>14 DEF RecClear, At
  <2>1. CASE CanSave(db, proc[p].state.version)
    <3>1. Resume(p, FALSE) /\ db'.intents = db.intents /\ db'.status = db.status
      BY <1>0, <1>14, <2>1 DEF RecClear, SaveState, Database
    <3>2. Halted(db') /\ (proc[p].on => db'.status = "ON")
      BY <1>0, <2>0, <3>1, LabelSets DEF Guarded, Halted, HasUnknownIntents
    <3>3. ~db'.state.required
      <4>1. ~Flag(proc[p].state, FALSE).required
        BY <1>0 DEF Flag, StateRow
      <4> QED BY <1>0, <1>14, <2>1, <4>1 DEF RecClear, SaveState, Database
    <3> QED BY <2>0, <3>1, <3>2, <3>3, ResumeSole
  <2>2. CASE ~CanSave(db, proc[p].state.version)
    BY <1>14, <2>0, <2>2, EndSole, SameAlike, AlikeHalted DEF RecClear
  <2> QED BY <2>1, <2>2
<1> QED BY <1>1, <1>2, <1>3, <1>4, <1>5, <1>6, <1>7, <1>8, <1>9, <1>10, <1>11, <1>12,
           <1>13, <1>14 DEF ReconcileStep

(* A command that starts has nothing in hand.                              *)
LEMMA StartSole ==
    ASSUME IInv, SoleInv, NEW p \in Procs, proc[p].pc = "idle",
           NEW cmd, NEW phase, NEW day, NEW label, label \notin Held \cup Firing \cup Cleared,
           proc' = [proc EXCEPT ![p] = Started(cmd, phase, day, label)], Halted(db')
    PROVE  SoleInv'
<1> DEFINE m == Started(cmd, phase, day, label)
<1>1. Others(p) /\ proc'[p] = m
  BY DEF IInv, Others
<1>2. m.pc = label /\ ~m.on /\ ~m.alien
  BY DEF Started, Fresh
<1>3. label \notin {"rec_lock", "rec_clear"} \cup Seen
  BY LabelSets
<1> HIDE DEF m
<1>4. Guarded(m, db')
  BY <1>2, <1>3 DEF Guarded
<1> QED BY <1>1, <1>4, SoleStep

(* Labels at which a command starts or ends.                               *)
LEMMA OffStart ==
    {"claim", "profile", "rec_state", "off_orders", "off_cancel", "off_mark", "off_unknown", "off_check", "lock_status", "lock_read", "on_set"}
        \cap (Held \cup Firing \cup Cleared) = {}
BY LabelSets

(* Labels at which nothing is claimed of the locals.                       *)
LEMMA FreeLabels ==
    /\ {"claim", "profile", "off_orders", "off_cancel", "off_mark", "off_unknown",
     "off_check", "lock_status", "lock_read", "on_set", "exec_unknown", "idle"}
        \cap (Held \cup Firing \cup Armed \cup Seen \cup Cleared \cup {"rec_lock", "rec_clear"}) = {}
    /\ Off \cap {"off_unknown", "lock_status", "lock_read", "idle", "profile"} = {}
BY LabelSets

(* A step to a label of which nothing is said.                             *)
LEMMA FreeSole ==
    ASSUME SoleInv, NEW p \in Procs, proc[p].pc # "absent", Others(p),
           proc'[p].pc \notin Held \cup Firing \cup Armed \cup Seen \cup Cleared
                            \cup {"rec_lock", "rec_clear"},
           proc'[p].alien = proc[p].alien, proc[p].pc \notin Seen, Halted(db'),
           proc'[p].pc \in Off => ~proc'[p].on
    PROVE  SoleInv'
<1>1. Guarded(proc[p], db)
  BY DEF SoleInv
<1>2. Guarded(proc'[p], db')
  BY <1>1 DEF Guarded
<1> QED BY <1>2, SoleStep

(* Writing the status changes neither intents nor flag.                    *)
LEMMA StatusHalted ==
    ASSUME IInv, SoleInv, NEW st, db' = SetProfileStatus(db, st)
    PROVE  Halted(db')
BY DEF IInv, BooksOK, SoleInv, SetProfileStatus, Database, Halted, HasUnknownIntents

(* The steps of the other commands keep SoleInv.                           *)
LEMMA CommandsSole ==
    ASSUME IInv, SoleInv, NEW p \in Procs, CommandStep(p)
    PROVE  SoleInv'
<1>0. /\ proc \in [Procs -> Locals] /\ proc[p] \in Locals /\ db \in Database
      /\ Guarded(proc[p], db) /\ Halted(db) /\ db.state \in StateRow
      /\ proc[p].state \in StateRow
  BY DEF IInv, BooksOK, SoleInv, Database, Locals
<1>1. CASE StartReconcile(p)
  <2>1. proc[p].pc = "idle" /\ Halted(db')
    BY <1>1, SameAlike, AlikeHalted DEF StartReconcile, MayStart, At
  <2>2. PICK day : proc' = [proc EXCEPT ![p] = Started("reconcile", "SELL", day, "rec_state")]
    BY <1>1 DEF StartReconcile
  <2> QED BY <2>1, <2>2, OffStart, StartSole
<1>2. CASE StartOn(p)
  <2>1. proc[p].pc = "idle" /\ Halted(db')
    BY <1>2, SameAlike, AlikeHalted DEF StartOn, MayStart, At
  <2>2. PICK day : proc' = [proc EXCEPT ![p] = Started("on", "SELL", day, "rec_state")]
    BY <1>2 DEF StartOn
  <2> QED BY <2>1, <2>2, OffStart, StartSole
<1>3. CASE StartOff(p)
  <2>1. proc[p].pc = "idle" /\ Halted(db')
    BY <1>3, StatusHalted DEF StartOff, MayStart, At
  <2>2. PICK day : proc' = [proc EXCEPT ![p] = Started("off", "SELL", day, "off_orders")]
    BY <1>3 DEF StartOff
  <2> QED BY <2>1, <2>2, OffStart, StartSole
<1>4. CASE StartCancel(p)
  <2>1. proc[p].pc = "idle" /\ Halted(db')
    BY <1>4, SameAlike, AlikeHalted DEF StartCancel, MayStart, At
  <2>2. PICK n : proc' = [proc EXCEPT ![p] =
                   [Started("cancel", "SELL", clock.day, "off_cancel") EXCEPT !.cancel = {n}]]
    BY <1>4 DEF StartCancel
  <2>3. /\ Others(p) /\ proc'[p].pc = "off_cancel" /\ proc'[p].alien = FALSE
        /\ proc'[p].on = FALSE
    BY <1>0, <2>2 DEF Others, Started, Fresh
  <2>4. proc[p].alien = FALSE /\ proc[p].pc \notin Seen
    <3>1. proc[p].pc \notin Seen /\ proc[p].alien \in BOOLEAN
      BY <1>0, <2>1, FreeLabels DEF Locals
    <3> QED BY <1>0, <3>1 DEF Guarded
  <2> QED BY <2>1, <2>3, <2>4, FreeLabels, FreeSole
<1>5. CASE OnSet(p)
  <2>1. proc[p].pc # "absent"
    BY <1>5 DEF OnSet, At
  <2>2. Halted(db')
    BY <1>5, StatusHalted, SameAlike, AlikeHalted DEF OnSet
  <2> QED BY <1>5, <2>1, <2>2, EndSole DEF OnSet
<1>6. CASE OffOrders(p)
  <2>1. /\ Others(p) /\ proc[p].pc = "off_orders" /\ proc'[p].pc \in {"off_cancel", "off_unknown"}
        /\ proc'[p].alien = proc[p].alien /\ proc'[p].on = proc[p].on
    BY <1>0, <1>6 DEF OffOrders, At, Locals, Others
  <2>2. Halted(db')
    BY <1>6, SameAlike, AlikeHalted DEF OffOrders
  <2>3. ~proc'[p].on
    BY <1>0, <2>1, LabelSets DEF Guarded
  <2> QED BY <2>1, <2>2, <2>3, FreeLabels, FreeSole
<1>7. CASE OffCancel(p)
  <2>1. proc[p].pc = "off_cancel" /\ Halted(db')
    BY <1>7, SameAlike, AlikeHalted DEF OffCancel, At
  <2>2. CASE CancelFails(p)
    <3>1. "lock_status" \notin Held \cup Firing \cup Off \cup Cleared \cup Armed
      BY FreeLabels
    <3> QED BY <2>1, <2>2, <3>1, EndSole, KeepSole DEF CancelFails, Enter
  <2>3. CASE ~CancelFails(p)
    <3>1. PICK n : proc' = [proc EXCEPT ![p].cancel = @ \ {n}, ![p].order = n,
                                         ![p].pc = "off_mark"]
      BY <1>7, <2>3 DEF OffCancel
    <3>2. Others(p) /\ proc'[p].pc = "off_mark" /\ proc'[p].alien = proc[p].alien
          /\ proc'[p].on = proc[p].on
      BY <1>0, <3>1 DEF Others, Locals
    <3>3. ~proc'[p].on
      BY <1>0, <2>1, <3>2, LabelSets DEF Guarded
    <3> QED BY <2>1, <3>2, <3>3, FreeLabels, FreeSole
  <2> QED BY <2>2, <2>3
<1>8. CASE OffMark(p)
  <2>1. proc[p].pc = "off_mark"
    BY <1>8 DEF OffMark, At
  <2>2. Alike(db, db')
    BY <1>0, <1>8 DEF OffMark, UpdateOrderStatus, Database, Alike, HasUnknownIntents
  <2>3. Halted(db')
    BY <2>2, AlikeHalted
  <2>4. CASE End(p)
    BY <2>1, <2>3, <2>4, EndSole
  <2>5. CASE Goto(p, "off_cancel")
    <3>1. Others(p) /\ proc'[p].pc = "off_cancel" /\ proc'[p].alien = proc[p].alien
          /\ proc'[p].on = proc[p].on
      BY <1>0, <2>5 DEF Goto, Others, Locals
    <3>2. ~proc'[p].on
      BY <1>0, <2>1, <3>1, LabelSets DEF Guarded
    <3> QED BY <2>1, <2>3, <3>1, <3>2, FreeLabels, FreeSole
  <2> QED BY <1>8, <2>4, <2>5 DEF OffMark
<1>9. CASE OffCancelled(p)
  <2>1. proc[p].pc = "off_cancel" /\ Halted(db') /\ UNCHANGED db
        /\ proc' = [proc EXCEPT ![p] = Keep(proc[p], "rec_state")]
    BY <1>9, SameAlike, AlikeHalted DEF OffCancelled, At, Enter
  <2>2. ~proc[p].on
    BY <1>0, <2>1, LabelSets DEF Guarded
  <2>3. "rec_state" \notin Held \cup Firing \cup Off \cup Cleared
    BY LabelSets
  <2> QED BY <2>1, <2>2, <2>3, KeepSole
<1>10. CASE OffCheck(p)
  <2>1. PICK label \in {"off_unknown", "lock_status"} : Goto(p, label)
    BY <1>10 DEF OffCheck
  <2>2. proc[p].pc = "off_check" /\ Halted(db')
    BY <1>10, SameAlike, AlikeHalted DEF OffCheck, At
  <2>3. Others(p) /\ proc'[p].pc = label /\ proc'[p].alien = proc[p].alien
    BY <1>0, <2>1 DEF Goto, Others, Locals
  <2> QED BY <2>2, <2>3, FreeLabels, FreeSole
<1>11. CASE OffUnknown(p)
  <2>1. proc[p].pc # "absent"
    BY <1>11 DEF OffUnknown, At
  <2>2. Halted(db')
    BY <1>11, StatusHalted, SameAlike, AlikeHalted DEF OffUnknown
  <2> QED BY <1>11, <2>1, <2>2, EndSole DEF OffUnknown
<1>12. CASE LockStatus(p)
  <2>1. /\ Others(p) /\ proc[p].pc = "lock_status" /\ proc'[p].pc = "lock_read"
        /\ proc'[p].alien = proc[p].alien
    BY <1>0, <1>12 DEF LockStatus, At, Goto, Locals, Others
  <2>2. Halted(db')
    BY <1>12, StatusHalted DEF LockStatus
  <2> QED BY <2>1, <2>2, FreeLabels, FreeSole
<1>13. CASE LockRead(p)
  <2>1. proc[p].pc = "lock_read" /\ UNCHANGED db /\ Halted(db')
    BY <1>13, SameAlike, AlikeHalted DEF LockRead, At
  <2>2. CASE End(p)
    BY <2>1, <2>2, EndSole
  <2>3. CASE proc' = [proc EXCEPT ![p].state = db.state, ![p].pc = "lock_save"]
    <3>1. /\ Others(p) /\ proc'[p].pc = "lock_save" /\ proc'[p].alien = proc[p].alien
          /\ proc'[p].state = db.state
      BY <1>0, <2>3 DEF Locals, Others
    <3>2. Guarded(proc'[p], db')
      BY <1>0, <2>1, <3>1, LabelSets DEF Guarded
    <3> QED BY <2>1, <3>1, <3>2, SoleStep
  <2> QED BY <1>13, <2>2, <2>3 DEF LockRead
<1>14. CASE LockSave(p)
  <2>1. proc[p].pc # "absent"
    BY <1>14 DEF LockSave, At
  <2>2. Halted(db')
    <3>1. CASE UNCHANGED db
      BY <3>1, SameAlike, AlikeHalted
    <3>2. CASE db' = SaveState(db, Flag(proc[p].state, TRUE))
      <4>1. Flag(proc[p].state, TRUE).required
        BY <1>0 DEF Flag, StateRow
      <4> QED BY <1>0, <3>2, <4>1 DEF SaveState, Database, Halted
    <3> QED BY <1>14, <3>1, <3>2 DEF LockSave
  <2> QED BY <1>14, <2>1, <2>2, EndSole DEF LockSave
<1>15. CASE EmergencyStop(p)
  <2>1. /\ Others(p) /\ proc'[p] = proc[p] /\ proc[p].pc = "idle"
        /\ db'.state = db.state /\ db'.intents = db.intents
    BY <1>0, <1>15 DEF EmergencyStop, SetEmergency, Database, Others, At
  <2>2. Halted(db')
    BY <1>0, <2>1 DEF Halted, HasUnknownIntents
  <2> QED BY <2>1, <2>2, FreeLabels, FreeSole
<1> QED BY <1>1, <1>2, <1>3, <1>4, <1>5, <1>6, <1>7, <1>8, <1>9, <1>10, <1>11,
           <1>12, <1>13, <1>14, <1>15 DEF CommandStep

(* A run before it executes moves on with nothing held.                    *)
LEMMA ArmedSole ==
    ASSUME SoleInv, NEW p \in Procs, Others(p), Alike(db, db'),
           proc'[p].pc \notin Held, proc[p].pc \in Cleared, proc'[p].pc \in Cleared,
           proc'[p].on = proc[p].on, proc'[p].alien = proc[p].alien
    PROVE  SoleInv'
<1>1. proc[p].pc # "absent"
  BY LabelSets
<1>2. proc[p].pc \in Armed \ Seen /\ proc'[p].pc \in Armed \ (Firing \cup Off)
      /\ proc'[p].pc \notin {"rec_lock", "rec_clear"} \cup Seen
  BY LabelSets
<1>3. Guarded(proc[p], db) => Guarded(proc'[p], db')
  BY <1>2 DEF Guarded, Alike
<1> QED BY <1>1, <1>3, AlikeSole

(* A run that executes goes on with its gates open.                        *)
LEMMA FiringSole ==
    ASSUME SoleInv, NEW p \in Procs, Others(p), Alike(db, db'),
           proc[p].pc \in Firing, proc'[p].pc \in Firing,
           proc'[p].on = proc[p].on, proc'[p].alien = proc[p].alien
    PROVE  SoleInv'
<1>1. proc[p].pc # "absent" /\ proc[p].pc \in Armed /\ proc[p].pc \notin Seen
      /\ proc'[p].pc \notin {"rec_lock", "rec_clear"} \cup Held \cup Off \cup Cleared
  BY LabelSets
<1>2. Guarded(proc[p], db) => Guarded(proc'[p], db')
  BY <1>1 DEF Guarded, Alike
<1> QED BY <1>1, <1>2, AlikeSole

(* Moving intents to another status makes none unknown.                    *)
LEMMA UnknownShrinks ==
    ASSUME NEW d \in Database, NEW S, NEW st, st # "UNKNOWN", NEW d2,
           d2.intents = Moved(d.intents, S, st)
    PROVE  HasUnknownIntents(d2) => HasUnknownIntents(d)
<1>1. "UNKNOWN" \in IntentStatus
  BY DEF IntentStatus
<1>2. d2.intents["UNKNOWN"] = d.intents["UNKNOWN"] \ S
  BY <1>1 DEF Moved
<1> QED BY <1>2 DEF HasUnknownIntents

(* The steps of _run_phase keep SoleInv.                                   *)
LEMMA RunSole ==
    ASSUME IInv, SoleInv, NEW p \in Procs, RunStep(p)
    PROVE  SoleInv'
<1>0. /\ proc \in [Procs -> Locals] /\ proc[p] \in Locals /\ db \in Database
      /\ Guarded(proc[p], db) /\ Halted(db) /\ db.state \in StateRow
      /\ proc[p].state \in StateRow
  BY DEF IInv, BooksOK, SoleInv, Database, Locals
<1>1. ASSUME NEW phase, StartRun(p, phase) PROVE SoleInv'
  <2>1. proc[p].pc = "idle" /\ Halted(db')
    BY <1>1, SameAlike, AlikeHalted DEF StartRun, MayStart, At
  <2>2. PICK day : proc' = [proc EXCEPT ![p] = Started("run", phase, day, "profile")]
    BY <1>1 DEF StartRun
  <2> QED BY <2>1, <2>2, OffStart, StartSole
<1>2. CASE StartTick(p)
  <2>1. proc[p].pc = "idle" /\ Halted(db')
    BY <1>2, SameAlike, AlikeHalted DEF StartTick, MayStart, At
  <2> QED BY <1>2, <2>1, OffStart, StartSole DEF StartTick
<1>3. CASE Claim(p)
  <2>1. proc[p].pc = "claim"
    BY <1>3 DEF Claim, At
  <2>2. Alike(db, db')
    BY <1>0, <1>3, SameAlike DEF Claim, ClaimAutomation, Database, Alike, HasUnknownIntents
  <2>3. Halted(db')
    BY <2>2, AlikeHalted
  <2>4. CASE End(p)
    BY <2>1, <2>3, <2>4, EndSole
  <2>5. CASE Goto(p, "profile")
    <3>1. Others(p) /\ proc'[p].pc = "profile" /\ proc'[p].alien = proc[p].alien
      BY <1>0, <2>5 DEF Goto, Others, Locals
    <3> QED BY <2>1, <2>3, <3>1, FreeLabels, FreeSole
  <2> QED BY <1>3, <2>4, <2>5 DEF Claim
<1>4. CASE ReadProfile(p)
  <2>1. PICK on : on = (db.status = "ON")
    OBVIOUS
  <2>2. /\ Others(p) /\ proc[p].pc = "profile" /\ proc'[p].pc = "rec_state"
        /\ proc'[p].on = on /\ proc'[p].alien = proc[p].alien
        /\ UNCHANGED db
    BY <1>0, <1>4, <2>1 DEF ReadProfile, At, Locals, Others
  <2>3. ~proc'[p].alien
    BY <1>0, <2>2, LabelSets DEF Guarded
  <2>4. Guarded(proc'[p], db')
    BY <2>1, <2>2, <2>3, LabelSets DEF Guarded
  <2>5. Halted(db')
    BY <2>2, SameAlike, AlikeHalted
  <2> QED BY <2>2, <2>4, <2>5, SoleStep
<1>5. CASE PlanRead(p)
  <2>0. proc[p].pc = "plan_read" /\ UNCHANGED db /\ Alike(db, db') /\ Halted(db')
    BY <1>5, SameAlike, AlikeHalted DEF PlanRead, Abort, At
  <2>1. CASE End(p)
    BY <2>0, <2>1, EndSole
  <2>2. CASE ~End(p)
    <3>1. PICK s : s = Prepared(db.state, proc[p].day)
      OBVIOUS
    <3>2. s.required = db.state.required
      BY <1>0, <3>1 DEF Prepared, StateRow
    <3>3. PICK todo, label :
             /\ proc' = [proc EXCEPT ![p].state = s, ![p].base = db.state.version,
                                     ![p].todo = todo, ![p].pc = label]
             /\ label \in {"plan_record", "plan_save"}
      BY <1>5, <2>2, <3>1 DEF PlanRead, Abort
    <3>4. /\ Others(p) /\ proc'[p].pc = label
          /\ proc'[p].on = proc[p].on /\ proc'[p].alien = proc[p].alien
          /\ proc'[p].state = s
      BY <1>0, <3>3 DEF Locals, Others
    <3>5. proc[p].pc \in (Armed \cap Cleared) \ Seen
          /\ label \in Armed \ (Seen \cup Firing \cup Off \cup {"rec_lock", "rec_clear"})
      BY <2>0, <3>3, LabelSets
    <3>6. Guarded(proc[p], db) => Guarded(proc'[p], db')
      BY <2>0, <3>2, <3>4, <3>5 DEF Guarded
    <3> QED BY <2>0, <3>4, <3>6, AlikeSole
  <2> QED BY <2>1, <2>2
<1>6. CASE PlanSave(p)
  <2>0. proc[p].pc = "plan_save"
    BY <1>6 DEF PlanSave, At
  <2>1. PICK s, base : SaveOrAbort(p, s, base, "plan_record") /\ s = proc[p].state
    BY <1>6 DEF PlanSave
  <2>2. CASE CanSave(db, base)
    <3>1. proc' = [proc EXCEPT ![p].pc = "plan_record", ![p].state = s]
          /\ db' = SaveState(db, s)
      BY <2>1, <2>2 DEF SaveOrAbort
    <3>2. /\ Others(p) /\ proc'[p].pc = "plan_record"
          /\ proc'[p].on = proc[p].on /\ proc'[p].alien = proc[p].alien
      BY <1>0, <3>1 DEF Locals, Others
    <3>3. s.required = db.state.required
      BY <1>0, <2>0, <2>1, LabelSets DEF Guarded
    <3>4. Alike(db, db')
      BY <1>0, <3>1, <3>3 DEF SaveState, Database, Alike, HasUnknownIntents
    <3> QED BY <2>0, <3>2, <3>4, LabelSets, ArmedSole
  <2>3. CASE ~CanSave(db, base)
    BY <2>0, <2>1, <2>3, EndSole, SameAlike, AlikeHalted DEF SaveOrAbort
  <2> QED BY <2>2, <2>3
<1>7. CASE PlanRecord(p)
  <2>1. proc[p].pc = "plan_record"
        /\ proc' = [proc EXCEPT ![p] = Keep(proc[p], "exec_pending")]
    BY <1>7 DEF PlanRecord, At, Enter
  <2>2. Alike(db, db')
    <3>1. PICK S, T : db'.intents = Moved(Moved(db.intents, S, "STALE"), T, "PENDING")
      BY <1>0, <1>7 DEF PlanRecord, RecordDecision, Database
    <3>2. db'.status = db.status /\ db'.emergency = db.emergency /\ db'.state = db.state
      BY <1>0, <1>7 DEF PlanRecord, RecordDecision, Database
    <3>3. "UNKNOWN" \in IntentStatus
      BY DEF IntentStatus
    <3>4. db'.intents["UNKNOWN"] \subseteq db.intents["UNKNOWN"]
      BY <3>1, <3>3 DEF Moved
    <3> QED BY <3>2, <3>4 DEF Alike, HasUnknownIntents
  <2>3. Halted(db')
    BY <2>2, AlikeHalted
  <2>4. "exec_pending" \notin Held \cup Firing \cup Off
    BY LabelSets
  <2>6. ~db'.state.required
    BY <1>0, <2>1, <2>2, LabelSets DEF Guarded, Alike
  <2>5. proc[p].on => db'.status = "ON"
    BY <1>0, <2>1, <2>2, LabelSets DEF Guarded, Alike
  <2> QED BY <2>1, <2>3, <2>4, <2>5, <2>6, KeepSole
<1>8. CASE ExecPending(p)
  <2>1. PICK todo : proc' = [proc EXCEPT ![p].todo = todo, ![p].pc = "exec_gate"]
    BY <1>8 DEF ExecPending
  <2>2. /\ Others(p) /\ proc[p].pc = "exec_pending" /\ proc'[p].pc = "exec_gate"
        /\ proc'[p].on = proc[p].on /\ proc'[p].alien = proc[p].alien
    BY <1>0, <1>8, <2>1 DEF ExecPending, At, Locals, Others
  <2>3. Alike(db, db')
    BY <1>8, SameAlike DEF ExecPending
  <2> QED BY <2>2, <2>3, LabelSets, ArmedSole
<1>9. CASE ExecGate(p)
  <2>0. proc[p].pc = "exec_gate" /\ UNCHANGED db /\ Alike(db, db') /\ Halted(db')
    BY <1>9, SameAlike, AlikeHalted DEF ExecGate, At
  <2>1. CASE End(p)
    BY <2>0, <2>1, EndSole
  <2>2. CASE GatesPass(p) /\ Goto(p, "exec_check")
    <3>1. /\ Others(p) /\ proc'[p].pc = "exec_check"
          /\ proc'[p].on = proc[p].on /\ proc'[p].alien = proc[p].alien
      BY <1>0, <2>2 DEF Goto, Locals, Others
    <3>2. proc[p].on /\ ~db.emergency /\ ~db.state.required
      BY <2>2 DEF GatesPass
    <3>3. Guarded(proc[p], db) => Guarded(proc'[p], db')
      BY <2>0, <3>1, <3>2, LabelSets DEF Guarded
    <3> QED BY <2>0, <3>1, <3>3, AlikeSole
  <2> QED BY <1>9, <2>1, <2>2 DEF ExecGate
<1>10. CASE ExecCheck(p)
  <2>0. proc[p].pc = "exec_check" /\ Alike(db, db') /\ Halted(db')
    BY <1>10, SameAlike, AlikeHalted DEF ExecCheck, At
  <2>1. CASE End(p)
    BY <2>0, <2>1, EndSole
  <2>2. CASE ~End(p)
    <3>1. PICK todo, intent, label :
             /\ proc' = [proc EXCEPT ![p].todo = todo, ![p].intent = intent, ![p].pc = label]
             /\ label \in {"exec_check", "exec_place"}
      BY <1>10, <2>2 DEF ExecCheck
    <3>2. /\ Others(p) /\ proc'[p].pc \in Firing
          /\ proc'[p].on = proc[p].on /\ proc'[p].alien = proc[p].alien
      BY <1>0, <3>1 DEF Locals, Others, Firing
    <3> QED BY <2>0, <3>2, FiringSole DEF Firing
  <2> QED BY <2>1, <2>2
<1>11. CASE ExecPlace(p)
  <2>0. proc[p].pc = "exec_place" /\ Alike(db, db') /\ Halted(db')
    BY <1>11, SameAlike, AlikeHalted DEF ExecPlace, At
  <2>1. CASE End(p)
    BY <2>0, <2>1, EndSole
  <2>2. CASE proc' = [proc EXCEPT ![p].order = Len(broker.orders) + 1, ![p].pc = "exec_record"]
    <3>1. /\ Others(p) /\ proc'[p].pc = "exec_record"
          /\ proc'[p].on = proc[p].on /\ proc'[p].alien = proc[p].alien
      BY <1>0, <2>2 DEF Locals, Others
    <3> QED BY <2>0, <3>1, FiringSole DEF Firing
  <2>3. CASE proc' = [proc EXCEPT ![p].pc = "exec_unknown"]
    <3>1. Others(p) /\ proc'[p].pc = "exec_unknown" /\ proc'[p].alien = proc[p].alien
      BY <1>0, <2>3 DEF Locals, Others
    <3>2. "exec_unknown" \notin Off
      BY LabelSets
    <3>3. proc[p].pc # "absent" /\ proc[p].pc \notin Seen
      BY <2>0, LabelSets
    <3> QED BY <2>0, <3>1, <3>2, <3>3, FreeLabels, FreeSole
  <2> QED BY <1>11, <2>1, <2>2, <2>3, PlaceOutcomes
<1>12. CASE ExecRecord(p)
  <2>0. proc[p].pc = "exec_record"
    BY <1>12 DEF ExecRecord, At
  <2>1. CASE CanRecordOrder(db, proc[p].order, proc[p].intent)
    <3>1. /\ proc' = [proc EXCEPT ![p].submitted = TRUE, ![p].intent = NoIntent,
                                  ![p].order = 0, ![p].pc = "exec_check"]
          /\ db' = RecordBrokerOrder(db, proc[p].order, proc[p].intent)
      BY <1>12, <2>1 DEF ExecRecord
    <3>2. /\ Others(p) /\ proc'[p].pc = "exec_check"
          /\ proc'[p].on = proc[p].on /\ proc'[p].alien = proc[p].alien
      BY <1>0, <3>1 DEF Locals, Others
    <3>3. /\ db'.status = db.status /\ db'.emergency = db.emergency /\ db'.state = db.state
          /\ db'.intents = Moved(db.intents, {proc[p].intent}, "SUBMITTED")
      BY <1>0, <3>1 DEF RecordBrokerOrder, Database
    <3>4. Alike(db, db')
      BY <1>0, <3>3, UnknownShrinks DEF Alike
    <3> QED BY <2>0, <3>2, <3>4, FiringSole DEF Firing
  <2>2. CASE ~CanRecordOrder(db, proc[p].order, proc[p].intent)
    BY <1>12, <2>0, <2>2, EndSole, SameAlike, AlikeHalted DEF ExecRecord
  <2> QED BY <2>1, <2>2
<1>13. CASE ExecUnknown(p)
  <2>1. proc[p].pc = "exec_unknown" /\ End(p)
    BY <1>13 DEF ExecUnknown, At
  <2>2. PICK s : s = IF db.state.required THEN db.state ELSE Flag(db.state, TRUE)
    OBVIOUS
  <2>3. s.required
    BY <1>0, <2>2 DEF Flag, StateRow
  <2>4. db'.state = s
    BY <1>0, <1>13, <2>2 DEF ExecUnknown, MarkIntentUnknown, Database
  <2>5. Halted(db')
    BY <2>3, <2>4 DEF Halted
  <2> QED BY <2>1, <2>5, EndSole
<1>14. CASE ExecDone(p)
  <2>0. proc[p].pc = "exec_check" /\ UNCHANGED db /\ Halted(db')
    BY <1>14, SameAlike, AlikeHalted DEF ExecDone, At
  <2>1. CASE End(p)
    BY <2>0, <2>1, EndSole
  <2>2. CASE proc' = [proc EXCEPT ![p] = Keep(proc[p], "rec_state")]
    <3>1. "rec_state" \notin Held \cup Firing \cup Off \cup Cleared
      BY LabelSets
    <3>2. proc[p].on => db'.status = "ON"
      BY <1>0, <2>0, LabelSets DEF Guarded
    <3> QED BY <2>0, <2>2, <3>1, <3>2, KeepSole
  <2> QED BY <1>14, <2>1, <2>2 DEF ExecDone, Enter
<1> QED BY <1>1, <1>2, <1>3, <1>4, <1>5, <1>6, <1>7, <1>8, <1>9, <1>10, <1>11, <1>12,
           <1>13, <1>14 DEF RunStep

(* SoleInv is inductive.                                                   *)
LEMMA NextSole ==
    ASSUME IInv, SoleInv, [Next]_vars
    PROVE  SoleInv'
<1>1. CASE UNCHANGED <<db, proc>>
  BY <1>1 DEF SoleInv, Alone, At, Halted, HasUnknownIntents, Guarded
<1>2. ASSUME NEW p \in Procs, ProcessNext(p) PROVE SoleInv'
  <2>1. CASE Crash(p)
    <3>1. proc[p].pc # "absent" /\ End(p) /\ UNCHANGED db
      BY <2>1 DEF Crash, Abort, Busy, At
    <3> QED BY <3>1, EndSole, SameAlike, AlikeHalted
  <2> QED BY <1>2, <2>1, RunSole, RecSole, CommandsSole DEF ProcessNext
<1> QED BY <1>1, <1>2 DEF Next, vars

(* SoleInv holds at first.                                                 *)
LEMMA InitSole == OneAtATime /\ Init => SoleInv
<1> SUFFICES ASSUME OneAtATime, Init PROVE SoleInv
  OBVIOUS
<1>1. PICK d \in Deployments : proc = [p \in Procs |-> IF p \in d.procs THEN Fresh ELSE Absent]
  BY DEF Init, ProcessInit
<1>2. \A p \in Procs : proc[p].pc # "absent" => p \in d.procs
  BY <1>1 DEF Absent, Fresh
<1>3. Alone
  BY <1>2 DEF Alone, At, OneAtATime
<1>4. "UNKNOWN" \in IntentStatus
  BY DEF IntentStatus
<1>5. Halted(db)
  BY <1>4 DEF Init, StoreInit, Halted, HasUnknownIntents
<1>6. \A p \in Procs : Guarded(proc[p], db)
  BY <1>1, GuardedFresh
<1> QED BY <1>3, <1>5, <1>6 DEF SoleInv

(* SoleInv is an invariant when commands run one at a time.                *)
LEMMA SoleInvariance ==
    ASSUME OneAtATime PROVE Spec => [](IInv /\ SoleInv)
<1>1. Init => SoleInv
  BY InitSole
<1>2. IInv /\ SoleInv /\ [Next]_vars => SoleInv'
  BY NextSole
<1> QED BY <1>1, <1>2, Invariance, PTL DEF Spec

(* mark_intent_unknown: when commands run one at a time, no order is sent  *)
(* while the fate of another is unknown.                                   *)
THEOREM UnknownStopsSending ==
    ASSUME OneAtATime PROVE Spec => NoOrderWhileUnknown
<1>1. IInv /\ SoleInv => (Sends => ~HasUnknownIntents(db))
  <2> SUFFICES ASSUME IInv, SoleInv, NEW p \in Procs, At(p, "exec_place")
               PROVE  ~HasUnknownIntents(db)
    BY DEF Sends, SendsOrder
  <2> QED BY LabelSets DEF SoleInv, Guarded, Halted, At
<1>2. IInv /\ SoleInv /\ [Next]_vars => [Sends => ~HasUnknownIntents(db)]_vars
  BY <1>1
<1> QED BY <1>2, SoleInvariance, PTL DEF Spec, NoOrderWhileUnknown

-----------------------------------------------------------------------------
(***************************************************************************)
(* What the database knows of the broker when an order is sent.  Before a  *)
(* run plans, its reconciliation has met a history row of every order of   *)
(* the session; InformedInv carries that from the request for the history  *)
(* to the order that is sent, along with the requests still under way.     *)
(* All of it is said of runs whose session date the broker's date has not  *)
(* passed yet (Current), and as long as the broker lists every order under *)
(* the session date of its intent (Dated).                                 *)
(***************************************************************************)
(* A run that has not submitted anything.                                  *)
Unsent(l) == l.cmd \in {"run", "tick"} /\ ~l.submitted
(* The session of the process is not behind the broker's date.             *)
Current(l, c) == c.day <= l.day
(* Labels after the last row of the history was taken.                     *)
Folded == {"rec_apply", "rec_holding", "rec_flag", "rec_quit", "rec_unknown", "rec_clear"}

(* An intent is at the broker once, and a request of the day that is still *)
(* under way is for another.                                               *)
NoRepeat(b, c) ==
    \A n \in 1..Len(b.orders) :
        /\ \A m \in 1..Len(b.orders) : m # n => b.orders[m].intent # b.orders[n].intent
        /\ \A i \in b.inflight : i.day = c.day => b.orders[n].intent # i

(* The books: orders are placed on the day of their intent, not in the     *)
(* future, each execution has a row, an intent is at the broker once, and  *)
(* a recorded order is the broker's.                                       *)
Listed(d, b, c) ==
    /\ \A n \in 1..Len(b.orders) :
          /\ b.orders[n].intent.day = b.orders[n].day
          /\ b.orders[n].day <= c.day
          /\ b.orders[n].filled > 0 => \E f \in 1..Len(b.execs) : b.execs[f].order = n
    /\ NoRepeat(b, c)
    /\ \A n \in OrderNo : Recorded(d, n) => /\ n <= Len(b.orders)
                                            /\ d.orders[n].intent = b.orders[n].intent
    /\ LateRequests = {} => b.inflight = {}

(* The orders the broker has from the session of the process on.           *)
Today(l, b) == {n \in 1..Len(b.orders) : b.orders[n].day >= l.day}

(* What process l knows: nothing under way without an unknown intent; once *)
(* the history is there, every order of the session is recorded, has a row *)
(* to come, or has been flagged; and the intent it sends is of its session *)
(* and has no order.                                                       *)
Informed(l, d, b, c) ==
    /\ l.pc \notin {"absent", "exec_unknown"} /\ b.inflight # {} => HasUnknownIntents(d)
    /\ l.pc \in Off => l.cmd \notin {"run", "tick"}
    /\ Current(l, c) /\ l.pc = "rec_history" => l.from <= l.day
    /\ Current(l, c) /\ Unsent(l) /\ l.pc \in Seen =>
          \/ l.alien \/ HasUnknownIntents(d)
          \/ \A n \in Today(l, b) : Recorded(d, n) \/ \E row \in l.rows : row.order = n
    /\ l.pc \in Folded => l.rows = {}
    /\ Current(l, c) /\ l.pc \in Cleared \cup {"exec_check", "exec_place"} =>
          \A n \in Today(l, b) : Recorded(d, n)
    /\ l.pc \in {"exec_gate"} \cup Firing => \A i \in l.todo : i.day = l.day
    /\ l.pc \in {"exec_place", "exec_record", "exec_unknown"} => l.intent.day = l.day
    /\ l.pc = "exec_place" => ~HasOrderFor(d, l.intent)
    /\ l.pc = "exec_record" =>
          /\ l.order \in 1..Len(b.orders) /\ b.orders[l.order].intent = l.intent
          /\ Current(l, c) => \A n \in Today(l, b) : Recorded(d, n) \/ n = l.order

(* The invariant of what a run knows of the broker.                        *)
InformedInv ==
    /\ Listed(db, broker, clock)
    /\ \A p \in Procs : Informed(proc[p], db, broker, clock)

(* Requests that may still arrive leave an unknown intent behind: the loss *)
(* of their answer is caught, and nobody dies before it is noted.          *)
LateMeansUnknown == "raised" \notin LateRequests /\ (LateRequests # {} => ~Crashes)

(* The label sets, written out.                                            *)
LEMMA InformedSets ==
    /\ Seen = {"rec_row", "rec_fill", "rec_lock", "rec_apply", "rec_holding", "rec_flag",
               "rec_quit", "rec_unknown", "rec_clear"}
    /\ Folded = {"rec_apply", "rec_holding", "rec_flag", "rec_quit", "rec_unknown", "rec_clear"}
    /\ Firing = {"exec_check", "exec_place", "exec_record"}
    /\ Off = {"off_orders", "off_cancel", "off_mark"}
    /\ Cleared = {"plan_read", "plan_save", "plan_record", "exec_pending", "exec_gate"}
BY DEF Seen, Folded, Firing, Off, Cleared

(* The same orders are recorded, and unknown intents stay.                 *)
Keeps(d, d2) ==
    /\ \A n \in OrderNo : /\ Recorded(d2, n) <=> Recorded(d, n)
                          /\ Recorded(d, n) => d2.orders[n].intent = d.orders[n].intent
    /\ HasUnknownIntents(d) => HasUnknownIntents(d2)

(* The broker's orders keep days and fills, and no request is added.       *)
SameBook(b, b2) ==
    /\ SameRequests(b, b2) /\ b2.execs = b.execs
    /\ \A n \in 1..Len(b.orders) : /\ b2.orders[n].day = b.orders[n].day
                                   /\ b2.orders[n].filled = b.orders[n].filled

(* A database with the same orders and intents keeps them.                 *)
LEMMA SameKeeps ==
    ASSUME NEW d, NEW d2, d2.orders = d.orders, d2.intents = d.intents
    PROVE  Keeps(d, d2)
BY DEF Keeps, Recorded, HasUnknownIntents

(* An account that does not change is the same book.                       *)
LEMMA SameAccount == ASSUME broker' = broker PROVE SameBook(broker, broker')
BY SameBroker DEF SameBook

(* Listed depends on nothing else.                                         *)
LEMMA ListedKept ==
    ASSUME NEW d, NEW d2, NEW b, NEW b2, NEW c, Keeps(d, d2), SameBook(b, b2),
           Listed(d, b, c)
    PROVE  Listed(d2, b2, c)
<1>1. /\ Len(b2.orders) = Len(b.orders) /\ b2.inflight = b.inflight /\ b2.execs = b.execs
      /\ \A n \in 1..Len(b.orders) : /\ b2.orders[n].day = b.orders[n].day
                                     /\ b2.orders[n].filled = b.orders[n].filled
                                     /\ b2.orders[n].intent = b.orders[n].intent
  BY DEF SameBook, SameRequests
<1>2. NoRepeat(b2, c)
  BY <1>1 DEF NoRepeat, Listed
<1>3. \A n \in OrderNo : Recorded(d2, n) => /\ n <= Len(b2.orders)
                                            /\ d2.orders[n].intent = b2.orders[n].intent
  <2> SUFFICES ASSUME NEW n \in OrderNo, Recorded(d2, n)
               PROVE  n <= Len(b2.orders) /\ d2.orders[n].intent = b2.orders[n].intent
    OBVIOUS
  <2>1. n <= Len(b.orders) /\ d2.orders[n].intent = b.orders[n].intent
    BY DEF Keeps, Listed
  <2>2. n \in 1..Len(b.orders) \/ ~(Len(b.orders) \in Int)
    BY <2>1 DEF OrderNo
  <2>3. n \in 1..Len(b.orders)
    BY <2>1 DEF OrderNo
  <2> QED BY <1>1, <2>1, <2>3
<1> QED BY <1>1, <1>2, <1>3 DEF Listed

(* Nor does Informed.                                                      *)
LEMMA InformedKept ==
    ASSUME NEW l, NEW d, NEW d2, NEW b, NEW b2, NEW c, Keeps(d, d2), SameBook(b, b2),
           b.orders \in Seq(BrokerOrder), Len(b.orders) <= MaxOrders, Informed(l, d, b, c)
    PROVE  Informed(l, d2, b2, c)
<1>1. /\ Len(b2.orders) = Len(b.orders) /\ b2.inflight = b.inflight /\ b2.execs = b.execs
      /\ \A n \in 1..Len(b.orders) : /\ b2.orders[n].day = b.orders[n].day
                                     /\ b2.orders[n].filled = b.orders[n].filled
                                     /\ b2.orders[n].intent = b.orders[n].intent
  BY DEF SameBook, SameRequests
<1>2. Today(l, b2) = Today(l, b)
  BY <1>1 DEF Today
<1>3. Today(l, b) \subseteq OrderNo
  BY BoundsAssumption DEF Today, OrderNo
<1>4. HasOrderFor(d2, l.intent) <=> HasOrderFor(d, l.intent)
  BY DEF HasOrderFor, Keeps
<1>5. HasUnknownIntents(d) => HasUnknownIntents(d2)
  BY DEF Keeps
<1>6. \A n \in Today(l, b) : Recorded(d2, n) <=> Recorded(d, n)
  BY <1>3 DEF Keeps
<1>7. \A n \in OrderNo : Recorded(d2, n) <=> Recorded(d, n)
  BY DEF Keeps
<1>8. \A n \in OrderNo : Recorded(d2, n) => d2.orders[n].intent = d.orders[n].intent
  BY DEF Keeps
<1> QED BY <1>1, <1>2, <1>4, <1>5, <1>6, <1>7, <1>8 DEF Informed

(* An absent process is asked for nothing.                                 *)
LEMMA InformedAbsent ==
    ASSUME NEW l, l.pc = "absent", NEW d, NEW b, NEW c
    PROVE  Informed(l, d, b, c)
BY InformedSets DEF Informed

(* A step of the one process keeps InformedInv if its own part is kept.    *)
LEMMA InformedStep ==
    ASSUME SoleInv, InformedInv, NEW p \in Procs, proc[p].pc # "absent", Others(p),
           Listed(db', broker', clock'), Informed(proc'[p], db', broker', clock')
    PROVE  InformedInv'
<1>1. ASSUME NEW q \in Procs, q # p
      PROVE  Informed(proc'[q], db', broker', clock')
  <2>1. proc'[q] = proc[q] /\ proc[q].pc = "absent"
    BY <1>1 DEF SoleInv, Alone, At, Others
  <2> QED BY <2>1, InformedAbsent
<1> QED BY <1>1 DEF InformedInv

(* A step that leaves orders, unknown intents and broker alone.            *)
LEMMA QuietInformed ==
    ASSUME IInv, SoleInv, InformedInv, NEW p \in Procs, proc[p].pc # "absent", Others(p),
           Keeps(db, db'), SameBook(broker, broker'), clock' = clock,
           Informed(proc'[p], db, broker, clock)
    PROVE  InformedInv'
<1>1. Listed(db', broker', clock')
  BY ListedKept DEF InformedInv
<1>2. broker.orders \in Seq(BrokerOrder) /\ Len(broker.orders) <= MaxOrders
  BY DEF IInv, BooksOK, Account
<1>3. Informed(proc'[p], db', broker', clock')
  BY <1>2, InformedKept
<1> QED BY <1>1, <1>3, InformedStep

(* An idle process is only asked about the requests under way.             *)
LEMMA FreshInformed ==
    ASSUME NEW d, NEW b, NEW c, b.inflight # {} => HasUnknownIntents(d)
    PROVE  Informed(Fresh, d, b, c)
<1>1. Fresh.pc = "idle"
  BY DEF Fresh
<1> QED BY <1>1, InformedSets DEF Informed

(* A command that ends keeps InformedInv.                                  *)
LEMMA EndInformed ==
    ASSUME IInv, SoleInv, InformedInv, NEW p \in Procs,
           proc[p].pc \notin {"absent", "exec_unknown"}, End(p),
           Keeps(db, db'), SameBook(broker, broker'), clock' = clock
    PROVE  InformedInv'
<1>1. Others(p) /\ proc'[p] = Fresh
  BY DEF IInv, End, Others
<1>2. Informed(proc[p], db, broker, clock)
  BY DEF InformedInv
<1>3. Informed(Fresh, db, broker, clock)
  BY <1>2, FreshInformed DEF Informed
<1> QED BY <1>1, <1>3, QuietInformed

(* Labels outside of the run and of the reconciliation.                    *)
Outside == {"on_set", "off_orders", "off_cancel", "off_mark", "off_check", "off_unknown",
            "lock_status", "lock_read", "lock_save"}

(* A step within the other commands.                                       *)
LEMMA OutsideInformed ==
    ASSUME IInv, SoleInv, InformedInv, NEW p \in Procs, Others(p),
           proc[p].pc \notin {"idle", "absent", "exec_unknown"},
           proc'[p].day = proc[p].day, proc'[p].cmd = proc[p].cmd, proc'[p].pc \in Outside,
           proc'[p].pc \in Off => proc[p].cmd \notin {"run", "tick"},
           Keeps(db, db'), SameBook(broker, broker'), clock' = clock
    PROVE  InformedInv'
<1>1. Informed(proc[p], db, broker, clock)
  BY DEF InformedInv
<1>2. proc'[p].pc \notin {"idle", "absent", "exec_unknown", "rec_history", "exec_record",
                          "exec_place", "exec_check", "exec_gate"}
                        \cup Seen \cup Folded \cup Cleared \cup Firing
  BY InformedSets DEF Outside
<1>3. Informed(proc'[p], db, broker, clock)
  BY <1>1, <1>2 DEF Informed
<1> QED BY <1>3, QuietInformed

(* What Keep keeps.                                                        *)
LEMMA KeepFields ==
    ASSUME NEW l, NEW label
    PROVE  /\ Keep(l, label).pc = label /\ Keep(l, label).cmd = l.cmd
           /\ Keep(l, label).day = l.day /\ Keep(l, label).phase = l.phase
           /\ Keep(l, label).submitted = l.submitted
           /\ Keep(l, label).rows = {} /\ Keep(l, label).todo = {}
BY DEF Keep, Fresh

(* A command that moves on with Keep.                                      *)
LEMMA KeepInformed ==
    ASSUME IInv, SoleInv, InformedInv, NEW p \in Procs,
           proc[p].pc \notin {"idle", "absent", "exec_unknown"},
           NEW label,
           \/ label \in (Outside \ Off) \cup {"rec_state"}
           \/ /\ label \in {"plan_read", "exec_pending"}
              /\ Current(proc[p], clock) => \A n \in Today(proc[p], broker) : Recorded(db, n),
           proc' = [proc EXCEPT ![p] = Keep(proc[p], label)],
           Keeps(db, db'), SameBook(broker, broker'), clock' = clock
    PROVE  InformedInv'
<1>1. Informed(proc[p], db, broker, clock)
  BY DEF InformedInv
<1> DEFINE m == Keep(proc[p], label)
<1>2. Others(p) /\ proc'[p] = m
  BY DEF IInv, Others
<1>3. /\ m.pc = label /\ m.cmd = proc[p].cmd /\ m.day = proc[p].day
      /\ m.submitted = proc[p].submitted
  BY KeepFields
<1>4. /\ Today(m, broker) = Today(proc[p], broker) /\ (Unsent(m) <=> Unsent(proc[p]))
      /\ Current(m, clock) <=> Current(proc[p], clock)
  BY <1>3 DEF Today, Unsent, Current
<1> HIDE DEF m
<1>5. CASE label \in Outside \ Off
  BY <1>2, <1>3, <1>5, OutsideInformed
<1>6. CASE /\ label \in {"plan_read", "exec_pending"}
           /\ Current(proc[p], clock) => \A n \in Today(proc[p], broker) : Recorded(db, n)
  <2>1. /\ label \in Cleared
        /\ label \notin {"idle", "absent", "exec_unknown", "rec_history", "exec_record",
                         "exec_place", "exec_check", "exec_gate"}
                        \cup Off \cup Seen \cup Folded \cup Firing
    BY <1>6, InformedSets
  <2>2. Informed(m, db, broker, clock)
    BY <1>1, <1>3, <1>4, <1>6, <2>1 DEF Informed
  <2> QED BY <1>2, <2>2, QuietInformed
<1>7. CASE label = "rec_state"
  <2>1. label \notin {"idle", "absent", "exec_unknown", "rec_history", "exec_record",
                         "exec_place", "exec_check", "exec_gate"}
                        \cup Off \cup Cleared \cup Seen \cup Folded \cup Firing
    BY <1>7, InformedSets
  <2>2. Informed(m, db, broker, clock)
    BY <1>1, <1>3, <1>4, <1>7, <2>1 DEF Informed
  <2> QED BY <1>2, <2>2, QuietInformed
<1> QED BY <1>5, <1>6, <1>7

(* A broker error keeps InformedInv.                                       *)
LEMMA BrokerFailsInformed ==
    ASSUME IInv, SoleInv, InformedInv, NEW p \in Procs,
           proc[p].pc \notin {"idle", "absent", "exec_unknown"}, BrokerFails(p)
    PROVE  InformedInv'
<1>1. "lock_status" \in Outside \ Off
  BY DEF Outside, Off
<1>2. Keeps(db, db') /\ SameBook(broker, broker') /\ clock' = clock
  BY SameKeeps, SameAccount DEF BrokerFails
<1> QED BY <1>1, <1>2, EndInformed, KeepInformed DEF BrokerFails, Enter

(* The caller of a reconciliation goes on: to a plan only with every order *)
(* of the session recorded.                                                *)
LEMMA ResumeInformed ==
    ASSUME IInv, SoleInv, InformedInv, NEW p \in Procs,
           proc[p].pc \notin {"idle", "absent", "exec_unknown"}, NEW required,
           Resume(p, required),
           ~required /\ Unsent(proc[p]) /\ Current(proc[p], clock) =>
              \A n \in Today(proc[p], broker) : Recorded(db, n),
           Keeps(db, db'), SameBook(broker, broker'), clock' = clock
    PROVE  InformedInv'
<1>1. PICK m : /\ proc' = [proc EXCEPT ![p] = m]
               /\ m = CASE proc[p].cmd \in {"run", "tick"} /\ ~proc[p].submitted /\ ~required
                                                    -> Keep(proc[p], "plan_read")
                        [] proc[p].cmd = "on" /\ ~required -> Keep(proc[p], "on_set")
                        [] proc[p].cmd = "off" -> Keep(proc[p], IF required THEN "lock_status"
                                                                            ELSE "off_check")
                        [] OTHER -> Fresh
  BY DEF Resume
<1>2. \/ m = Fresh
      \/ \E label \in {"on_set", "lock_status", "off_check"} : m = Keep(proc[p], label)
      \/ ~required /\ Unsent(proc[p]) /\ m = Keep(proc[p], "plan_read")
  BY <1>1 DEF Unsent
<1>3. CASE m = Fresh
  BY <1>1, <1>3, EndInformed DEF End
<1>4. ASSUME NEW label \in {"on_set", "lock_status", "off_check"}, m = Keep(proc[p], label)
      PROVE  InformedInv'
  <2>1. label \in Outside \ Off
    BY DEF Outside, Off
  <2> QED BY <1>1, <1>4, <2>1, KeepInformed
<1>5. CASE ~required /\ Unsent(proc[p]) /\ m = Keep(proc[p], "plan_read")
  BY <1>1, <1>5, KeepInformed
<1> QED BY <1>2, <1>3, <1>4, <1>5

(* A step within the reconciliation that takes only rows of recorded       *)
(* orders or flags the row.                                                *)
LEMMA SeenInformed ==
    ASSUME IInv, SoleInv, InformedInv, NEW p \in Procs, Others(p),
           proc[p].pc \in Seen, proc'[p].pc \in Seen,
           proc'[p].day = proc[p].day, proc'[p].cmd = proc[p].cmd,
           proc'[p].submitted = proc[p].submitted, proc[p].alien => proc'[p].alien,
           \A row \in proc[p].rows :
              row \in proc'[p].rows \/ Recorded(db, row.order) \/ proc'[p].alien,
           proc'[p].pc \in Folded => proc'[p].rows = {},
           Keeps(db, db'), SameBook(broker, broker'), clock' = clock
    PROVE  InformedInv'
<1>1. Informed(proc[p], db, broker, clock)
  BY DEF InformedInv
<1>2. /\ proc[p].pc \notin {"idle", "absent", "exec_unknown"}
      /\ proc'[p].pc \notin {"idle", "absent", "exec_unknown", "rec_history", "exec_record",
                             "exec_place", "exec_check", "exec_gate"}
                        \cup Cleared \cup Firing \cup Off
  BY InformedSets
<1>3. /\ Today(proc'[p], broker) = Today(proc[p], broker)
      /\ Unsent(proc'[p]) <=> Unsent(proc[p])
      /\ Current(proc'[p], clock) <=> Current(proc[p], clock)
  BY DEF Today, Unsent, Current
<1>4. Current(proc'[p], clock) /\ Unsent(proc'[p]) =>
          \/ proc'[p].alien \/ HasUnknownIntents(db)
          \/ \A n \in Today(proc'[p], broker) : Recorded(db, n) \/ \E row \in proc'[p].rows : row.order = n
  BY <1>1, <1>3 DEF Informed
<1>5. Informed(proc'[p], db, broker, clock)
  BY <1>1, <1>2, <1>3, <1>4 DEF Informed
<1> QED BY <1>2, <1>5, QuietInformed

(* The window of a reconciliation starts at its session at the latest.     *)
LEMMA WindowReachesBack ==
    ASSUME NEW d \in Database, NEW session \in Nat,
           \A n \in OrderNo : Recorded(d, n) => d.orders[n].intent.day <= session
    PROVE  WindowStart(d, session) <= session
<1> DEFINE days == {d.orders[n].intent.day : n \in UnresolvedOrders(d)}
<1>1. \A x \in days : x \in Nat /\ x <= session
  <2> SUFFICES ASSUME NEW n \in UnresolvedOrders(d)
               PROVE  d.orders[n].intent.day \in Nat /\ d.orders[n].intent.day <= session
    OBVIOUS
  <2>1. n \in OrderNo /\ Recorded(d, n)
    BY DEF UnresolvedOrders
  <2>2. d.orders[n].intent \in Intent
    BY <2>1 DEF Database, OrderRow, Recorded
  <2> QED BY <2>1, <2>2, BoundsAssumption DEF Intent, Day
<1>2. CASE days = {}
  BY <1>2 DEF WindowStart
<1>3. CASE days # {}
  <2>1. \E x \in days : \A y \in days : x <= y
    BY <1>1, <1>3, LeastExists
  <2>2. (CHOOSE x \in days : \A y \in days : x <= y) \in days
    BY <2>1
  <2> QED BY <1>1, <1>3, <2>2 DEF WindowStart
<1> QED BY <1>2, <1>3

(* No order is of a later day than a session that is current.              *)
LEMMA CurrentOrders ==
    ASSUME IInv, Listed(db, broker, clock), NEW p \in Procs, Current(proc[p], clock)
    PROVE  /\ \A n \in 1..Len(broker.orders) : broker.orders[n].day <= proc[p].day
           /\ \A n \in OrderNo : Recorded(db, n) => db.orders[n].intent.day <= proc[p].day
<1>1. /\ broker.orders \in Seq(BrokerOrder) /\ clock \in Clock /\ proc[p] \in Locals
  BY DEF IInv, BooksOK, Account
<1>2. clock.day \in Nat /\ proc[p].day \in Nat
  BY <1>1, BoundsAssumption DEF Clock, Locals, Day
<1>3. ASSUME NEW n \in 1..Len(broker.orders) PROVE broker.orders[n].day <= proc[p].day
  <2>1. broker.orders[n] \in BrokerOrder
    BY <1>1, SeqElement
  <2>2. broker.orders[n].day \in Nat
    BY <2>1, BoundsAssumption DEF BrokerOrder, Day
  <2>3. broker.orders[n].day <= clock.day
    BY DEF Listed
  <2> QED BY <1>2, <2>2, <2>3 DEF Current
<1>4. ASSUME NEW n \in OrderNo, Recorded(db, n) PROVE db.orders[n].intent.day <= proc[p].day
  <2>1. n \in 1..Len(broker.orders) /\ db.orders[n].intent = broker.orders[n].intent
    BY <1>4 DEF Listed, OrderNo
  <2>2. broker.orders[n].intent.day = broker.orders[n].day
    BY <2>1 DEF Listed
  <2> QED BY <1>3, <2>1, <2>2
<1> QED BY <1>3, <1>4

(* The history from the window's start to its session has a row for every  *)
(* order of the session.                                                   *)
LEMMA HistoryCovers ==
    ASSUME Listed(db, broker, clock), broker \in Account, NEW from \in Int, NEW session \in Int,
           from <= session, NEW n \in 1..Len(broker.orders), broker.orders[n].day = session,
           NEW rows, rows = History(from, session)
    PROVE  \E row \in rows : row.order = n
<1> DEFINE row(m, f) == [order |-> m, day |-> broker.orders[m].day, fill |-> f,
                      status |-> RowStatus(broker.orders[m])]
           inWindow == {m \in 1..Len(broker.orders) : broker.orders[m].day \in from..session}
<1>1. n \in inWindow
  OBVIOUS
<1>2. CASE broker.orders[n].filled = 0
  <2>1. row(n, 0) \in rows
    BY <1>1, <1>2 DEF History
  <2> QED BY <2>1
<1>3. CASE broker.orders[n].filled # 0
  <2>0. broker.orders \in Seq(BrokerOrder)
    BY DEF Account
  <2>3. broker.orders[n] \in BrokerOrder
    BY <2>0, SeqElement
  <2>4. broker.orders[n].filled \in Nat
    BY <2>3 DEF BrokerOrder
  <2>1. broker.orders[n].filled > 0
    BY <1>3, <2>4
  <2>2. PICK f \in 1..Len(broker.execs) : broker.execs[f].order = n
    BY <2>1 DEF Listed
  <2>5. row(broker.execs[f].order, f) \in rows
    BY <1>1, <2>2 DEF History
  <2> QED BY <2>2, <2>5
<1> QED BY <1>2, <1>3

(* Overwriting the status of a recorded order keeps the orders.            *)
LEMMA StatusKeeps ==
    ASSUME NEW d \in Database, NEW n \in OrderNo, Recorded(d, n), NEW st, st \in OrderStatus,
           NEW d2, d2 = UpdateOrderStatus(d, n, st)
    PROVE  Keeps(d, d2)
<1>1. d.orders[n] \in OrderRow
  BY DEF Database, Recorded
<1>2. /\ d2.orders = [d.orders EXCEPT ![n].status = st]
      /\ d2.intents = d.intents
  BY DEF UpdateOrderStatus, Database
<1>3. \A m \in OrderNo : m # n => d2.orders[m] = d.orders[m]
  BY <1>2 DEF Database
<1>4. d2.orders[n].intent = d.orders[n].intent /\ d2.orders[n].status = st
  BY <1>1, <1>2 DEF Database, OrderRow
<1>5. d2.orders[n] # NoRow
  BY <1>4 DEF NoRow, OrderStatus
<1> QED BY <1>2, <1>3, <1>4, <1>5 DEF Keeps, Recorded, HasUnknownIntents

(* The steps of reconcile_dbsec keep InformedInv.                          *)
LEMMA RecInformed ==
    ASSUME IInv, SoleInv, InformedInv, NEW p \in Procs, ReconcileStep(p)
    PROVE  InformedInv'
<1>0. /\ proc \in [Procs -> Locals] /\ proc[p] \in Locals /\ db \in Database
      /\ Guarded(proc[p], db) /\ Halted(db) /\ db.state \in StateRow
      /\ proc[p].state \in StateRow /\ broker \in Account
      /\ broker.orders \in Seq(BrokerOrder)
      /\ Informed(proc[p], db, broker, clock) /\ Listed(db, broker, clock)
      /\ proc[p].day \in Nat
  <2>1. /\ proc \in [Procs -> Locals] /\ db \in Database /\ broker \in Account
    BY DEF IInv, BooksOK
  <2>2. /\ proc[p] \in Locals /\ db.state \in StateRow
        /\ broker.orders \in Seq(BrokerOrder)
    BY <2>1 DEF Database, Account
  <2>3. proc[p].state \in StateRow /\ proc[p].day \in Nat
    BY <2>2, BoundsAssumption DEF Locals, Day
  <2>4. /\ Guarded(proc[p], db) /\ Halted(db)
        /\ Informed(proc[p], db, broker, clock) /\ Listed(db, broker, clock)
    BY DEF SoleInv, InformedInv
  <2> QED BY <2>1, <2>2, <2>3, <2>4
<1>01. UNCHANGED <<broker, clock>> => SameBook(broker, broker') /\ clock' = clock
  BY SameAccount
<1>02. UNCHANGED <<db, broker, clock>> =>
         Keeps(db, db') /\ SameBook(broker, broker') /\ clock' = clock
  BY SameKeeps, SameAccount
<1>1. CASE RecState(p)
  <2>1. PICK s : proc' = [proc EXCEPT ![p].state = s, ![p].pc = "rec_orders"]
    BY <1>1 DEF RecState
  <2>2. /\ Others(p) /\ proc[p].pc = "rec_state" /\ proc'[p].pc = "rec_orders"
        /\ proc'[p].day = proc[p].day /\ proc'[p].cmd = proc[p].cmd
        /\ proc'[p].submitted = proc[p].submitted
    BY <1>0, <1>1, <2>1 DEF RecState, At, Locals, Others
  <2>4. Informed(proc'[p], db, broker, clock)
    BY <1>0, <2>2, InformedSets DEF Informed
  <2> QED BY <1>1, <1>02, <2>2, <2>4, QuietInformed DEF RecState
<1>2. CASE RecOrders(p)
  <2>1. PICK from : /\ from = WindowStart(db, proc[p].day)
                    /\ proc' = [proc EXCEPT ![p].from = from, ![p].pc = "rec_history"]
    BY <1>2 DEF RecOrders
  <2>2. /\ Others(p) /\ proc[p].pc = "rec_orders" /\ proc'[p].pc = "rec_history"
        /\ proc'[p].day = proc[p].day /\ proc'[p].cmd = proc[p].cmd
        /\ proc'[p].submitted = proc[p].submitted /\ proc'[p].from = from
    BY <1>0, <1>2, <2>1 DEF RecOrders, At, Locals, Others
  <2>3. Current(proc'[p], clock) <=> Current(proc[p], clock)
    BY <2>2 DEF Current
  <2>5. Current(proc[p], clock) => from <= proc[p].day
    BY <1>0, <2>1, CurrentOrders, WindowReachesBack
  <2>6. Informed(proc'[p], db, broker, clock)
    BY <1>0, <2>2, <2>3, <2>5, InformedSets DEF Informed
  <2> QED BY <1>2, <1>02, <2>2, <2>6, QuietInformed DEF RecOrders
<1>3. CASE RecHistory(p)
  <2>0. proc[p].pc = "rec_history"
    BY <1>3 DEF RecHistory, At
  <2>1. CASE BrokerFails(p)
    BY <2>0, <2>1, BrokerFailsInformed
  <2>2. CASE ~BrokerFails(p)
    <3>1. PICK rows : /\ rows = History(proc[p].from, proc[p].day)
                      /\ proc' = [proc EXCEPT ![p].rows = rows, ![p].from = 1, ![p].pc = "rec_row"]
                      /\ UNCHANGED <<db, broker, clock>>
      BY <1>3, <2>2 DEF RecHistory
    <3>2. /\ Others(p) /\ proc'[p].pc = "rec_row"
          /\ proc'[p].day = proc[p].day /\ proc'[p].cmd = proc[p].cmd
          /\ proc'[p].submitted = proc[p].submitted /\ proc'[p].rows = rows
      BY <1>0, <3>1 DEF Locals, Others
    <3>3. Current(proc'[p], clock) => Current(proc[p], clock)
      BY <3>2 DEF Current
    <3>4. proc[p].from \in Int /\ (Current(proc[p], clock) => proc[p].from <= proc[p].day)
      BY <1>0, <2>0, BoundsAssumption DEF Locals, Day, Informed
    <3>5. ASSUME Current(proc'[p], clock), NEW n \in Today(proc'[p], broker)
          PROVE  \E row \in proc'[p].rows : row.order = n
      <4>1. n \in 1..Len(broker.orders) /\ broker.orders[n].day >= proc[p].day
        BY <3>2, <3>5 DEF Today
      <4>2. broker.orders[n].day <= proc[p].day
        BY <1>0, <3>3, <3>5, <4>1, CurrentOrders
      <4>3. broker.orders[n] \in BrokerOrder
        BY <1>0, <4>1, SeqElement
      <4>4. broker.orders[n].day \in Nat
        BY <4>3, BoundsAssumption DEF BrokerOrder, Day
      <4>5. broker.orders[n].day = proc[p].day
        BY <1>0, <4>1, <4>2, <4>4
      <4> QED BY <1>0, <3>1, <3>2, <3>3, <3>4, <3>5, <4>1, <4>5, HistoryCovers
    <3>6. Informed(proc'[p], db, broker, clock)
      BY <1>0, <2>0, <3>2, <3>5, InformedSets DEF Informed
    <3> QED BY <1>02, <2>0, <3>1, <3>2, <3>6, QuietInformed
  <2> QED BY <2>1, <2>2
<1>4. CASE RecRow(p)
  <2>0. proc[p].pc = "rec_row"
    BY <1>4 DEF RecRow, At
  <2>1. ASSUME NEW row \in proc[p].rows, RecKnownRow(p, row) PROVE InformedInv'
    <3>1. PICK label : /\ proc' = [proc EXCEPT ![p].rows = @ \ {row}, ![p].fill = row.fill,
                                               ![p].pc = label]
                       /\ label \in {"rec_row", "rec_fill"}
      BY <2>1 DEF RecKnownRow
    <3>2. /\ Others(p) /\ proc'[p].pc \in {"rec_row", "rec_fill"}
          /\ proc'[p].rows = proc[p].rows \ {row} /\ proc'[p].alien = proc[p].alien
          /\ proc'[p].day = proc[p].day /\ proc'[p].cmd = proc[p].cmd
          /\ proc'[p].submitted = proc[p].submitted
      BY <1>0, <3>1 DEF Locals, Others
    <3>3. row \in HistoryRow /\ Recorded(db, row.order)
      BY <1>0, <2>1 DEF Locals, RecKnownRow, LocalOrder
    <3>4. Keeps(db, db')
      BY <1>0, <2>1, <3>3, StatusKeeps DEF RecKnownRow, HistoryRow
    <3>5. proc'[p].pc \in Seen \ Folded /\ proc[p].pc \in Seen
      BY <2>0, <3>2, InformedSets
    <3>6. \A r \in proc[p].rows : r \in proc'[p].rows \/ Recorded(db, r.order)
      BY <3>2, <3>3
    <3> QED BY <1>01, <2>1, <3>2, <3>4, <3>5, <3>6, SeenInformed DEF RecKnownRow
  <2>2. ASSUME NEW row \in proc[p].rows, RecAlienRow(p, row) PROVE InformedInv'
    <3> DEFINE l == [proc[p] EXCEPT !.rows = @ \ {row}, !.alien = TRUE, !.pc = "rec_lock"]
    <3>0. l.state = proc[p].state
      BY <1>0 DEF Locals
    <3>1. UNCHANGED <<broker, clock>> /\ Keeps(db, db')
      <4>1. UNCHANGED db \/ \E s : db' = SaveState(db, s)
        BY <2>2 DEF RecAlienRow
      <4>2. db'.orders = db.orders /\ db'.intents = db.intents
        BY <1>0, <4>1 DEF SaveState, Database
      <4> QED BY <2>2, <4>2, SameKeeps DEF RecAlienRow
    <3>2. CASE End(p)
      BY <1>01, <2>0, <3>1, <3>2, EndInformed
    <3>3. ASSUME NEW s, proc' = [proc EXCEPT ![p] = [l EXCEPT !.state = s]]
          PROVE  InformedInv'
      <4>1. /\ Others(p) /\ proc'[p].pc = "rec_lock" /\ proc'[p].alien = TRUE
            /\ proc'[p].day = proc[p].day /\ proc'[p].cmd = proc[p].cmd
            /\ proc'[p].submitted = proc[p].submitted
        BY <1>0, <3>3 DEF Locals, Others
      <4>2. proc'[p].pc \in Seen \ Folded /\ proc[p].pc \in Seen
        BY <2>0, <4>1, InformedSets
      <4> QED BY <1>01, <3>1, <4>1, <4>2, SeenInformed
    <3>4. CASE proc' = [proc EXCEPT ![p] = l]
      <4>1. l = [l EXCEPT !.state = l.state]
        BY <1>0 DEF Locals
      <4> QED BY <3>3, <3>4, <4>1
    <3> HIDE DEF l
    <3> QED BY <2>2, <3>0, <3>2, <3>3, <3>4 DEF RecAlienRow, l
  <2> QED BY <1>4, <2>1, <2>2 DEF RecRow
<1>5. CASE RecFill(p)
  <2>1. /\ Others(p) /\ proc[p].pc = "rec_fill" /\ proc'[p].pc = "rec_row"
        /\ proc'[p].rows = proc[p].rows /\ proc'[p].alien = proc[p].alien
        /\ proc'[p].day = proc[p].day /\ proc'[p].cmd = proc[p].cmd
        /\ proc'[p].submitted = proc[p].submitted
    BY <1>0, <1>5 DEF RecFill, At, Locals, Others
  <2>2. db'.orders = db.orders /\ db'.intents = db.intents
    BY <1>0, <1>5 DEF RecFill, AddFill, Database
  <2>3. proc'[p].pc \in Seen \ Folded /\ proc[p].pc \in Seen
    BY <2>1, InformedSets
  <2> QED BY <1>01, <1>5, <2>1, <2>2, <2>3, SameKeeps, SeenInformed DEF RecFill
<1>6. CASE RecLock(p)
  <2>1. /\ Others(p) /\ proc[p].pc = "rec_lock" /\ proc'[p].pc = "rec_row"
        /\ proc'[p].rows = proc[p].rows /\ proc'[p].alien = proc[p].alien
        /\ proc'[p].day = proc[p].day /\ proc'[p].cmd = proc[p].cmd
        /\ proc'[p].submitted = proc[p].submitted
    BY <1>0, <1>6 DEF RecLock, Goto, At, Locals, Others
  <2>2. db'.orders = db.orders /\ db'.intents = db.intents
    BY <1>0, <1>6 DEF RecLock, SetProfileStatus, Database
  <2>3. proc'[p].pc \in Seen \ Folded /\ proc[p].pc \in Seen
    BY <2>1, InformedSets
  <2> QED BY <1>01, <1>6, <2>1, <2>2, <2>3, SameKeeps, SeenInformed DEF RecLock
<1>7. CASE RecPending(p)
  <2>1. PICK pend, base, label :
          /\ proc' = [proc EXCEPT ![p].pend = pend, ![p].done = {}, ![p].base = base,
                                  ![p].pc = label]
          /\ label \in {"rec_holding", "rec_apply"}
    BY <1>7 DEF RecPending
  <2>4. proc[p].pc = "rec_row" /\ proc[p].rows = {}
    BY <1>7 DEF RecPending, At
  <2>2. /\ Others(p) /\ proc'[p].pc \in {"rec_holding", "rec_apply"}
        /\ proc'[p].rows = proc[p].rows /\ proc'[p].alien = proc[p].alien
        /\ proc'[p].day = proc[p].day /\ proc'[p].cmd = proc[p].cmd
        /\ proc'[p].submitted = proc[p].submitted
    BY <1>0, <2>1 DEF Locals, Others
  <2>3. proc'[p].pc \in Seen /\ proc[p].pc \in Seen
    BY <2>2, <2>4, InformedSets
  <2> QED BY <1>02, <1>7, <2>2, <2>3, <2>4, SeenInformed DEF RecPending
<1>8. CASE RecFold(p)
  <2>0. proc[p].pc = "rec_apply" /\ UNCHANGED <<db, broker, clock>>
    BY <1>8 DEF RecFold, At
  <2>1. CASE End(p)
    BY <1>02, <2>0, <2>1, EndInformed
  <2>2. CASE ~End(p)
    <3>1. PICK f, s : proc' = [proc EXCEPT ![p].state = s, ![p].pend = @ \ {f},
                                           ![p].done = @ \cup {f}]
      BY <1>8, <2>2 DEF RecFold
    <3>2. /\ Others(p) /\ proc'[p].pc = "rec_apply"
          /\ proc'[p].rows = proc[p].rows /\ proc'[p].alien = proc[p].alien
          /\ proc'[p].day = proc[p].day /\ proc'[p].cmd = proc[p].cmd
          /\ proc'[p].submitted = proc[p].submitted
      BY <1>0, <2>0, <3>1 DEF Locals, Others
    <3>3. proc[p].pc \in Seen \cap Folded
      BY <2>0, InformedSets
    <3>4. proc[p].rows = {}
      BY <1>0, <3>3 DEF Informed
    <3> QED BY <1>02, <2>0, <3>2, <3>3, <3>4, SeenInformed
  <2> QED BY <2>1, <2>2
<1>9. CASE RecSave(p)
  <2>0. proc[p].pc = "rec_apply" /\ UNCHANGED <<broker, clock>>
    BY <1>9 DEF RecSave, At
  <2>1. CASE CanSave(db, proc[p].base)
    <3>1. /\ Others(p) /\ proc'[p].pc = "rec_holding"
          /\ proc'[p].rows = proc[p].rows /\ proc'[p].alien = proc[p].alien
          /\ proc'[p].day = proc[p].day /\ proc'[p].cmd = proc[p].cmd
          /\ proc'[p].submitted = proc[p].submitted
      BY <1>0, <1>9, <2>1 DEF RecSave, Locals, Others
    <3>2. db'.orders = db.orders /\ db'.intents = db.intents
      BY <1>0, <1>9, <2>1 DEF RecSave, SaveReconciledState, Database
    <3>3. proc[p].pc \in Seen \cap Folded /\ proc'[p].pc \in Seen
      BY <2>0, <3>1, InformedSets
    <3>4. proc[p].rows = {}
      BY <1>0, <3>3 DEF Informed
    <3> QED BY <1>01, <2>0, <3>1, <3>2, <3>3, <3>4, SameKeeps, SeenInformed
  <2>2. CASE ~CanSave(db, proc[p].base)
    BY <1>9, <1>02, <2>0, <2>2, EndInformed DEF RecSave
  <2> QED BY <2>1, <2>2
<1>10. CASE RecHolding(p)
  <2>0. proc[p].pc = "rec_holding"
    BY <1>10 DEF RecHolding, At
  <2>1. CASE BrokerFails(p)
    BY <2>0, <2>1, BrokerFailsInformed
  <2>2. CASE ~BrokerFails(p)
    <3>1. PICK label \in {"rec_unknown", "rec_quit", "rec_flag"} :
             Goto(p, label) /\ UNCHANGED <<db, broker, clock>>
      BY <1>10, <2>2 DEF RecHolding
    <3>2. /\ Others(p) /\ proc'[p].pc = label
          /\ proc'[p].rows = proc[p].rows /\ proc'[p].alien = proc[p].alien
          /\ proc'[p].day = proc[p].day /\ proc'[p].cmd = proc[p].cmd
          /\ proc'[p].submitted = proc[p].submitted
      BY <1>0, <3>1 DEF Goto, Locals, Others
    <3>3. proc[p].pc \in Seen \cap Folded /\ proc'[p].pc \in Seen
      BY <2>0, <3>1, <3>2, InformedSets
    <3>4. proc[p].rows = {}
      BY <1>0, <3>3 DEF Informed
    <3> QED BY <1>02, <3>1, <3>2, <3>3, <3>4, SeenInformed
  <2> QED BY <2>1, <2>2
<1>11. CASE RecFlag(p)
  <2>0. proc[p].pc = "rec_flag"
    BY <1>11 DEF RecFlag, At
  <2>1. PICK s, expected : SaveOrAbort(p, s, expected, "rec_quit")
    BY <1>11 DEF RecFlag
  <2>2. CASE CanSave(db, expected)
    <3>1. /\ proc' = [proc EXCEPT ![p].pc = "rec_quit", ![p].state = s]
          /\ db' = SaveState(db, s) /\ UNCHANGED <<broker, clock>>
      BY <2>1, <2>2 DEF SaveOrAbort
    <3>2. /\ Others(p) /\ proc'[p].pc = "rec_quit"
          /\ proc'[p].rows = proc[p].rows /\ proc'[p].alien = proc[p].alien
          /\ proc'[p].day = proc[p].day /\ proc'[p].cmd = proc[p].cmd
          /\ proc'[p].submitted = proc[p].submitted
      BY <1>0, <3>1 DEF Locals, Others
    <3>3. db'.orders = db.orders /\ db'.intents = db.intents
      BY <1>0, <3>1 DEF SaveState, Database
    <3>4. proc[p].pc \in Seen \cap Folded /\ proc'[p].pc \in Seen
      BY <2>0, <3>2, InformedSets
    <3>5. proc[p].rows = {}
      BY <1>0, <3>4 DEF Informed
    <3> QED BY <1>01, <3>1, <3>2, <3>3, <3>4, <3>5, SameKeeps, SeenInformed
  <2>3. CASE ~CanSave(db, expected)
    BY <1>02, <2>0, <2>1, <2>3, EndInformed DEF SaveOrAbort
  <2> QED BY <2>2, <2>3
<1>12. CASE RecQuit(p)
  <2>1. db'.orders = db.orders /\ db'.intents = db.intents
    BY <1>0, <1>12 DEF RecQuit, SetProfileStatus, Database
  <2>2. proc[p].pc = "rec_quit" /\ Resume(p, TRUE)
    BY <1>12 DEF RecQuit, At
  <2> QED BY <1>01, <1>12, <2>1, <2>2, SameKeeps, ResumeInformed DEF RecQuit
<1>13. CASE RecUnknown(p)
  <2>0. proc[p].pc = "rec_unknown" /\ UNCHANGED <<db, broker, clock>>
    BY <1>13 DEF RecUnknown, At
  <2>1. CASE Goto(p, "rec_clear")
    <3>1. /\ Others(p) /\ proc'[p].pc = "rec_clear"
          /\ proc'[p].rows = proc[p].rows /\ proc'[p].alien = proc[p].alien
          /\ proc'[p].day = proc[p].day /\ proc'[p].cmd = proc[p].cmd
          /\ proc'[p].submitted = proc[p].submitted
      BY <1>0, <2>1 DEF Goto, Locals, Others
    <3>2. proc[p].pc \in Seen \cap Folded /\ proc'[p].pc \in Seen
      BY <2>0, <3>1, InformedSets
    <3>3. proc[p].rows = {}
      BY <1>0, <3>2 DEF Informed
    <3> QED BY <1>02, <2>0, <3>1, <3>2, <3>3, SeenInformed
  <2>2. CASE Resume(p, proc[p].state.required)
    <3>1. ASSUME ~proc[p].state.required, Unsent(proc[p]), Current(proc[p], clock)
          PROVE  \A n \in Today(proc[p], broker) : Recorded(db, n)
      <4>1. ~proc[p].alien /\ ~HasUnknownIntents(db)
        BY <1>0, <2>0, <3>1, LabelSets DEF Guarded, Halted
      <4>2. proc[p].pc \in Seen \cap Folded
        BY <2>0, InformedSets
      <4> QED BY <1>0, <3>1, <4>1, <4>2 DEF Informed
    <3> QED BY <1>02, <2>0, <2>2, <3>1, ResumeInformed
  <2> QED BY <1>13, <2>1, <2>2 DEF RecUnknown
<1>14. CASE RecClear(p)
  <2>0. proc[p].pc = "rec_clear" /\ UNCHANGED <<broker, clock>>
    BY <1>14 DEF RecClear, At
  <2>1. CASE CanSave(db, proc[p].state.version)
    <3>1. db' = SaveState(db, Flag(proc[p].state, FALSE)) /\ Resume(p, FALSE)
      BY <1>14, <2>1 DEF RecClear
    <3>2. db'.orders = db.orders /\ db'.intents = db.intents
      BY <1>0, <3>1 DEF SaveState, Database
    <3>3. ASSUME Unsent(proc[p]), Current(proc[p], clock)
          PROVE  \A n \in Today(proc[p], broker) : Recorded(db, n)
      <4>1. ~proc[p].alien /\ ~HasUnknownIntents(db)
        BY <1>0, <2>0 DEF Guarded
      <4>2. proc[p].pc \in Seen \cap Folded
        BY <2>0, InformedSets
      <4> QED BY <1>0, <3>3, <4>1, <4>2 DEF Informed
    <3> QED BY <1>01, <2>0, <3>1, <3>2, <3>3, SameKeeps, ResumeInformed
  <2>2. CASE ~CanSave(db, proc[p].state.version)
    BY <1>14, <1>02, <2>0, <2>2, EndInformed DEF RecClear
  <2> QED BY <2>1, <2>2
<1> QED BY <1>1, <1>2, <1>3, <1>4, <1>5, <1>6, <1>7, <1>8, <1>9, <1>10, <1>11, <1>12,
           <1>13, <1>14 DEF ReconcileStep

(* A command that starts knows nothing.                                    *)
LEMMA StartInformed ==
    ASSUME IInv, SoleInv, InformedInv, NEW p \in Procs, proc[p].pc = "idle", Others(p),
           NEW cmd, NEW label, proc'[p].pc = label, proc'[p].cmd = cmd,
           \/ label \in {"claim", "profile"}
           \/ label \in {"rec_state", "off_orders", "off_cancel"} /\ cmd \notin {"run", "tick"},
           Keeps(db, db'), SameBook(broker, broker'), clock' = clock
    PROVE  InformedInv'
<1>1. Informed(proc[p], db, broker, clock)
  BY DEF InformedInv
<1>2. /\ label \notin {"idle", "absent", "exec_unknown", "rec_history", "exec_record",
                         "exec_place", "exec_check", "exec_gate"}
                        \cup Cleared \cup Seen \cup Folded \cup Firing
      /\ label \in Off => cmd \notin {"run", "tick"}
  BY InformedSets
<1>3. Informed(proc'[p], db, broker, clock)
  BY <1>1, <1>2 DEF Informed
<1> QED BY <1>3, QuietInformed

(* The steps of the other commands keep InformedInv.                       *)
LEMMA CommandsInformed ==
    ASSUME IInv, SoleInv, InformedInv, NEW p \in Procs, CommandStep(p)
    PROVE  InformedInv'
<1>0. /\ proc \in [Procs -> Locals] /\ proc[p] \in Locals /\ db \in Database
      /\ Guarded(proc[p], db) /\ Halted(db) /\ db.state \in StateRow
      /\ proc[p].state \in StateRow /\ broker \in Account
      /\ broker.orders \in Seq(BrokerOrder)
      /\ Informed(proc[p], db, broker, clock) /\ Listed(db, broker, clock)
      /\ LocalInv(proc[p], db, broker)
  BY BoundsAssumption DEF IInv, BooksOK, SoleInv, Database, Locals, Account, InformedInv, Day
<1>01. UNCHANGED <<broker, clock>> => SameBook(broker, broker') /\ clock' = clock
  BY SameAccount
<1>02. UNCHANGED <<db, broker, clock>> =>
         Keeps(db, db') /\ SameBook(broker, broker') /\ clock' = clock
  BY SameKeeps, SameAccount
<1>03. \A st : db' = SetProfileStatus(db, st) => Keeps(db, db')
  <2> SUFFICES ASSUME NEW st, db' = SetProfileStatus(db, st) PROVE Keeps(db, db')
    OBVIOUS
  <2>1. db'.orders = db.orders /\ db'.intents = db.intents
    BY <1>0 DEF SetProfileStatus, Database
  <2> QED BY <2>1, SameKeeps
<1>04. UNCHANGED db => Keeps(db, db')
  BY SameKeeps
<1>1. CASE StartReconcile(p)
  <2>1. PICK day, m : /\ m = Started("reconcile", "SELL", day, "rec_state")
                     /\ proc' = [proc EXCEPT ![p] = m]
    BY <1>1 DEF StartReconcile
  <2>2. m.pc = "rec_state" /\ m.cmd = "reconcile"
    BY <2>1 DEF Started, Fresh
  <2>3. proc[p].pc = "idle" /\ Others(p) /\ proc'[p] = m
    BY <1>0, <1>1, <2>1 DEF StartReconcile, MayStart, At, Others
  <2> QED BY <1>1, <1>02, <2>2, <2>3, StartInformed DEF StartReconcile
<1>2. CASE StartOn(p)
  <2>1. PICK day, m : /\ m = Started("on", "SELL", day, "rec_state")
                     /\ proc' = [proc EXCEPT ![p] = m]
    BY <1>2 DEF StartOn
  <2>2. m.pc = "rec_state" /\ m.cmd = "on"
    BY <2>1 DEF Started, Fresh
  <2>3. proc[p].pc = "idle" /\ Others(p) /\ proc'[p] = m
    BY <1>0, <1>2, <2>1 DEF StartOn, MayStart, At, Others
  <2> QED BY <1>2, <1>02, <2>2, <2>3, StartInformed DEF StartOn
<1>3. CASE StartOff(p)
  <2>1. PICK day, m : /\ m = Started("off", "SELL", day, "off_orders")
                     /\ proc' = [proc EXCEPT ![p] = m]
    BY <1>3 DEF StartOff
  <2>2. m.pc = "off_orders" /\ m.cmd = "off"
    BY <2>1 DEF Started, Fresh
  <2>3. proc[p].pc = "idle" /\ Others(p) /\ proc'[p] = m
    BY <1>0, <1>3, <2>1 DEF StartOff, MayStart, At, Others
  <2> QED BY <1>3, <1>01, <1>03, <2>2, <2>3, StartInformed DEF StartOff
<1>4. CASE StartCancel(p)
  <2>1. PICK n, m : /\ m = [Started("cancel", "SELL", clock.day, "off_cancel")
                               EXCEPT !.cancel = {n}]
                    /\ proc' = [proc EXCEPT ![p] = m]
    BY <1>4 DEF StartCancel
  <2>2. m.pc = "off_cancel" /\ m.cmd = "cancel"
    BY <2>1 DEF Started, Fresh
  <2>3. proc[p].pc = "idle" /\ Others(p) /\ proc'[p] = m
    BY <1>0, <1>4, <2>1 DEF StartCancel, MayStart, At, Others
  <2> QED BY <1>4, <1>02, <2>2, <2>3, StartInformed DEF StartCancel
<1>5. CASE OnSet(p)
  <2>1. proc[p].pc = "on_set"
    BY <1>5 DEF OnSet, At
  <2> QED BY <1>5, <1>01, <1>03, <1>04, <2>1, EndInformed DEF OnSet
<1>6. CASE OffOrders(p)
  <2>1. PICK cancel, label : /\ proc' = [proc EXCEPT ![p].cancel = cancel, ![p].pc = label]
                             /\ label \in {"off_unknown", "off_cancel"}
    BY <1>6 DEF OffOrders
  <2>2. /\ Others(p) /\ proc[p].pc = "off_orders" /\ proc'[p].pc \in {"off_unknown", "off_cancel"}
        /\ proc'[p].day = proc[p].day /\ proc'[p].cmd = proc[p].cmd
    BY <1>0, <1>6, <2>1 DEF OffOrders, At, Locals, Others
  <2>3. proc[p].pc \in Off /\ proc'[p].pc \in Outside
    BY <2>2, InformedSets DEF Outside
  <2>4. proc[p].cmd \notin {"run", "tick"}
    BY <1>0, <2>3 DEF Informed
  <2> QED BY <1>6, <1>02, <2>2, <2>3, <2>4, OutsideInformed DEF OffOrders
<1>7. CASE OffCancel(p)
  <2>0. proc[p].pc = "off_cancel" /\ proc[p].cmd \notin {"run", "tick"}
    BY <1>0, <1>7, InformedSets DEF OffCancel, At, Informed
  <2>1. SameBook(broker, broker') /\ Keeps(db, db') /\ clock' = clock
    <3>1. CASE UNCHANGED broker
      BY <1>7, <1>04, <3>1, SameAccount DEF OffCancel
    <3>2. ASSUME NEW n, broker' = [broker EXCEPT !.orders[n].cancelling = TRUE]
          PROVE  SameBook(broker, broker')
      <4>1. broker.orders \in Seq(BrokerOrder)
        BY <1>0
      <4>2. broker'.orders = [broker.orders EXCEPT ![n].cancelling = TRUE]
            /\ broker'.execs = broker.execs /\ broker'.inflight = broker.inflight
        BY <1>0, <3>2 DEF Account
      <4>3. \A m \in 1..Len(broker.orders) : broker.orders[m] \in BrokerOrder
        BY <1>0, SeqElement
      <4>4. DOMAIN broker.orders = 1..Len(broker.orders) /\ Len(broker.orders) \in Nat
        BY <4>1
      <4>5. PICK e : e = [broker.orders[n] EXCEPT !.cancelling = TRUE]
        OBVIOUS
      <4>6. broker'.orders = [broker.orders EXCEPT ![n] = e]
        BY <4>2, <4>5
      <4>7. n \in DOMAIN broker.orders => e \in BrokerOrder
        BY <4>3, <4>4, <4>5 DEF BrokerOrder
      <4>8. Len(broker'.orders) = Len(broker.orders)
        BY <4>1, <4>6, <4>7, ReplaceInSeq
      <4>9. n \in DOMAIN broker.orders =>
               e.intent = broker.orders[n].intent /\ e.day = broker.orders[n].day
               /\ e.filled = broker.orders[n].filled
        BY <4>3, <4>4, <4>5 DEF BrokerOrder
      <4> QED BY <4>2, <4>4, <4>6, <4>8, <4>9 DEF SameBook, SameRequests
    <3> QED BY <1>7, <1>04, <3>1, <3>2 DEF OffCancel
  <2>2. CASE CancelFails(p)
    <3>1. CASE End(p)
      BY <2>0, <2>1, <3>1, EndInformed
    <3>2. CASE proc' = [proc EXCEPT ![p] = Keep(proc[p], "lock_status")]
      <4>1. "lock_status" \in Outside \ Off
        BY InformedSets DEF Outside
      <4> QED BY <2>0, <2>1, <3>2, <4>1, KeepInformed
    <3> QED BY <2>2, <3>1, <3>2 DEF CancelFails, Enter
  <2>3. CASE ~CancelFails(p)
    <3>1. PICK n, cancel : proc' = [proc EXCEPT ![p].cancel = cancel, ![p].order = n,
                                                ![p].pc = "off_mark"]
      BY <1>7, <2>3 DEF OffCancel
    <3>2. /\ Others(p) /\ proc'[p].pc = "off_mark"
          /\ proc'[p].day = proc[p].day /\ proc'[p].cmd = proc[p].cmd
      BY <1>0, <3>1 DEF Locals, Others
    <3>3. proc'[p].pc \in Outside
      BY <3>2 DEF Outside
    <3> QED BY <2>0, <2>1, <3>2, <3>3, OutsideInformed
  <2> QED BY <2>2, <2>3
<1>8. CASE OffMark(p)
  <2>0. proc[p].pc = "off_mark" /\ proc[p].cmd \notin {"run", "tick"}
    BY <1>0, <1>8, InformedSets DEF OffMark, At, Informed
  <2>1. proc[p].order \in OrderNo /\ Recorded(db, proc[p].order)
    BY <1>0, <2>0 DEF LocalInv, Grounded
  <2>2. Keeps(db, db')
    BY <1>0, <1>8, <2>1, StatusKeeps DEF OffMark, OrderStatus
  <2>3. CASE End(p)
    BY <1>8, <1>01, <2>0, <2>2, <2>3, EndInformed DEF OffMark
  <2>4. CASE Goto(p, "off_cancel")
    <3>1. /\ Others(p) /\ proc'[p].pc = "off_cancel"
          /\ proc'[p].day = proc[p].day /\ proc'[p].cmd = proc[p].cmd
      BY <1>0, <2>4 DEF Goto, Locals, Others
    <3>2. proc'[p].pc \in Outside
      BY <3>1 DEF Outside
    <3> QED BY <1>8, <1>01, <2>0, <2>2, <3>1, <3>2, OutsideInformed DEF OffMark
  <2> QED BY <1>8, <2>3, <2>4 DEF OffMark
<1>9. CASE OffCancelled(p)
  <2>1. proc[p].pc = "off_cancel"
    BY <1>9 DEF OffCancelled, At
  <2> QED BY <1>9, <1>02, <2>1, KeepInformed DEF OffCancelled, Enter
<1>10. CASE OffCheck(p)
  <2>1. PICK label \in {"off_unknown", "lock_status"} : Goto(p, label)
    BY <1>10 DEF OffCheck
  <2>2. /\ Others(p) /\ proc[p].pc = "off_check" /\ proc'[p].pc = label
        /\ proc'[p].day = proc[p].day /\ proc'[p].cmd = proc[p].cmd
    BY <1>0, <1>10, <2>1 DEF OffCheck, Goto, At, Locals, Others
  <2>3. label \in Outside \ Off
    BY InformedSets DEF Outside
  <2> QED BY <1>10, <1>02, <2>2, <2>3, OutsideInformed DEF OffCheck
<1>11. CASE OffUnknown(p)
  <2>1. proc[p].pc = "off_unknown"
    BY <1>11 DEF OffUnknown, At
  <2> QED BY <1>11, <1>01, <1>03, <1>04, <2>1, EndInformed DEF OffUnknown
<1>12. CASE LockStatus(p)
  <2>1. /\ Others(p) /\ proc[p].pc = "lock_status" /\ proc'[p].pc = "lock_read"
        /\ proc'[p].day = proc[p].day /\ proc'[p].cmd = proc[p].cmd
    BY <1>0, <1>12 DEF LockStatus, Goto, At, Locals, Others
  <2>2. proc'[p].pc \in Outside \ Off
    BY <2>1, InformedSets DEF Outside
  <2> QED BY <1>12, <1>01, <1>03, <2>1, <2>2, OutsideInformed DEF LockStatus
<1>13. CASE LockRead(p)
  <2>0. proc[p].pc = "lock_read" /\ UNCHANGED <<db, broker, clock>>
    BY <1>13 DEF LockRead, At
  <2>1. CASE End(p)
    BY <1>02, <2>0, <2>1, EndInformed
  <2>2. CASE ~End(p)
    <3>1. /\ Others(p) /\ proc'[p].pc = "lock_save"
          /\ proc'[p].day = proc[p].day /\ proc'[p].cmd = proc[p].cmd
      BY <1>0, <1>13, <2>2 DEF LockRead, Locals, Others
    <3>2. proc'[p].pc \in Outside \ Off
      BY <3>1, InformedSets DEF Outside
    <3> QED BY <1>02, <2>0, <3>1, <3>2, OutsideInformed
  <2> QED BY <2>1, <2>2
<1>14. CASE LockSave(p)
  <2>1. proc[p].pc = "lock_save"
    BY <1>14 DEF LockSave, At
  <2>2. UNCHANGED db \/ \E s : db' = SaveState(db, s)
    BY <1>14 DEF LockSave
  <2>3. db'.orders = db.orders /\ db'.intents = db.intents
    BY <1>0, <2>2 DEF SaveState, Database
  <2> QED BY <1>14, <1>01, <2>1, <2>3, SameKeeps, EndInformed DEF LockSave
<1>15. CASE EmergencyStop(p)
  <2>1. /\ Others(p) /\ proc'[p] = proc[p] /\ proc[p].pc = "idle"
        /\ db'.orders = db.orders /\ db'.intents = db.intents
    BY <1>0, <1>15 DEF EmergencyStop, SetEmergency, Database, Others, At
  <2>2. Informed(proc'[p], db, broker, clock)
    BY <1>0, <2>1
  <2> QED BY <1>15, <1>01, <2>1, <2>2, SameKeeps, QuietInformed DEF EmergencyStop
<1> QED BY <1>1, <1>2, <1>3, <1>4, <1>5, <1>6, <1>7, <1>8, <1>9, <1>10, <1>11,
           <1>12, <1>13, <1>14, <1>15 DEF CommandStep

(* The books after the broker accepted one more order.                     *)
LEMMA AcceptedBook ==
    ASSUME broker \in Account, NEW i, broker'.orders = Append(broker.orders, NewOrder(i))
    PROVE  /\ Len(broker.orders) \in Nat /\ Len(broker'.orders) = Len(broker.orders) + 1
           /\ \A n \in 1..Len(broker.orders) : broker'.orders[n] = broker.orders[n]
           /\ broker'.orders[Len(broker.orders) + 1] = NewOrder(i)
<1>1. broker.orders \in Seq(BrokerOrder)
  BY DEF Account
<1>2. PICK o : o = NewOrder(i)
  OBVIOUS
<1>3. broker'.orders = Append(broker.orders, o)
  BY <1>2
<1> QED BY <1>1, <1>2, <1>3

(* An order for an intent that was not at the broker keeps Listed.         *)
LEMMA AcceptedListed ==
    ASSUME Listed(db, broker, clock), broker \in Account, NEW i,
           i.day = clock.day, clock.day \in Nat,
           \A n \in 1..Len(broker.orders) : broker.orders[n].intent # i,
           broker'.orders = Append(broker.orders, NewOrder(i)), broker'.execs = broker.execs,
           broker'.inflight = broker.inflight \ {i}, db' = db, clock' = clock
    PROVE  Listed(db', broker', clock')
<1>1. /\ Len(broker.orders) \in Nat /\ Len(broker'.orders) = Len(broker.orders) + 1
      /\ \A n \in 1..Len(broker.orders) : broker'.orders[n] = broker.orders[n]
      /\ broker'.orders[Len(broker.orders) + 1] = NewOrder(i)
  BY AcceptedBook
<1>2. PICK o : o = NewOrder(i)
  OBVIOUS
<1>3. o.intent = i /\ o.day = clock.day /\ o.filled = 0
  BY <1>2 DEF NewOrder
<1>4. broker'.orders[Len(broker.orders) + 1] = o
  BY <1>1, <1>2
<1>5. \A n \in 1..Len(broker'.orders) :
         n \in 1..Len(broker.orders) \/ n = Len(broker.orders) + 1
  BY <1>1
<1>6. \A n \in 1..Len(broker'.orders) :
          /\ broker'.orders[n].intent.day = broker'.orders[n].day
          /\ broker'.orders[n].day <= clock.day
          /\ broker'.orders[n].filled > 0 => \E f \in 1..Len(broker.execs) : broker.execs[f].order = n
  BY <1>1, <1>3, <1>4, <1>5 DEF Listed
<1>7. NoRepeat(broker', clock')
  BY <1>1, <1>3, <1>4, <1>5 DEF Listed, NoRepeat
<1>8. \A n \in OrderNo : Recorded(db, n) => /\ n <= Len(broker'.orders)
                                            /\ db.orders[n].intent = broker'.orders[n].intent
  <2> SUFFICES ASSUME NEW n \in OrderNo, Recorded(db, n)
               PROVE  /\ n <= Len(broker'.orders)
                      /\ db.orders[n].intent = broker'.orders[n].intent
    OBVIOUS
  <2>1. n \in 1..Len(broker.orders) /\ db.orders[n].intent = broker.orders[n].intent
    BY <1>1 DEF Listed, OrderNo
  <2> QED BY <1>1, <2>1
<1>9. LateRequests = {} => broker'.inflight = {}
  BY DEF Listed
<1>10. \A n \in 1..Len(broker'.orders) :
          /\ broker'.orders[n].intent.day = broker'.orders[n].day
          /\ broker'.orders[n].day <= clock'.day
          /\ broker'.orders[n].filled > 0 =>
                \E f \in 1..Len(broker'.execs) : broker'.execs[f].order = n
  BY <1>6
<1>11. \A n \in OrderNo : Recorded(db', n) => /\ n <= Len(broker'.orders)
                                             /\ db'.orders[n].intent = broker'.orders[n].intent
  BY <1>8
<1> QED BY <1>7, <1>9, <1>10, <1>11 DEF Listed

(* A run between its reconciliation and its execution goes on.             *)
LEMMA ClearedInformed ==
    ASSUME IInv, SoleInv, InformedInv, NEW p \in Procs, Others(p),
           proc[p].pc \in Cleared, proc'[p].pc \in Cleared, proc'[p].day = proc[p].day,
           proc'[p].pc = "exec_gate" => \A i \in proc'[p].todo : i.day = proc[p].day,
           Keeps(db, db'), SameBook(broker, broker'), clock' = clock
    PROVE  InformedInv'
<1>1. Informed(proc[p], db, broker, clock)
  BY DEF InformedInv
<1>2. /\ proc[p].pc \notin {"idle", "absent", "exec_unknown"}
      /\ proc'[p].pc \notin {"idle", "absent", "exec_unknown", "rec_history", "exec_record",
                             "exec_place", "exec_check"}
                        \cup Seen \cup Folded \cup Firing \cup Off
  BY InformedSets
<1>3. /\ Today(proc'[p], broker) = Today(proc[p], broker)
      /\ Current(proc'[p], clock) <=> Current(proc[p], clock)
  BY DEF Today, Current
<1>4. Informed(proc'[p], db, broker, clock)
  BY <1>1, <1>2, <1>3 DEF Informed
<1> QED BY <1>2, <1>4, QuietInformed

(* Nothing is under way to the broker, and no intent is unknown, while a   *)
(* run submits.                                                            *)
LEMMA FiringQuiet ==
    ASSUME SoleInv, InformedInv, NEW p \in Procs, proc[p].pc \in Firing \cup Cleared
    PROVE  ~HasUnknownIntents(db) /\ broker.inflight = {}
<1>1. Guarded(proc[p], db) /\ Halted(db) /\ Informed(proc[p], db, broker, clock)
  BY DEF SoleInv, InformedInv
<1>2. ~db.state.required
  BY <1>1 DEF Guarded
<1>3. proc[p].pc \notin {"absent", "exec_unknown"}
  BY InformedSets
<1>4. ~HasUnknownIntents(db)
  BY <1>1, <1>2 DEF Halted
<1>5. broker.inflight # {} => HasUnknownIntents(db)
  BY <1>1, <1>3 DEF Informed
<1> QED BY <1>4, <1>5

(* The intent a run is about to place is not at the broker.                *)
LEMMA PlacedIsNew ==
    ASSUME IInv, InformedInv, NEW p \in Procs, proc[p].pc = "exec_place",
           Current(proc[p], clock)
    PROVE  \A n \in 1..Len(broker.orders) : broker.orders[n].intent # proc[p].intent
<1> SUFFICES ASSUME NEW n \in 1..Len(broker.orders), broker.orders[n].intent = proc[p].intent
             PROVE  FALSE
  OBVIOUS
<1>1. Informed(proc[p], db, broker, clock) /\ Listed(db, broker, clock)
  BY DEF InformedInv
<1>2. proc[p].intent.day = proc[p].day /\ ~HasOrderFor(db, proc[p].intent)
  BY <1>1 DEF Informed
<1>3. broker.orders[n].intent.day = broker.orders[n].day
  BY <1>1 DEF Listed
<1>5. broker.orders \in Seq(BrokerOrder) /\ Len(broker.orders) <= MaxOrders
  BY DEF IInv, BooksOK, Account
<1>6. broker.orders[n] \in BrokerOrder
  BY <1>5, SeqElement
<1>7. proc[p].day \in Nat /\ broker.orders[n].day \in Nat
  BY <1>6, BoundsAssumption DEF IInv, Locals, BrokerOrder, Day
<1>8. n \in Today(proc[p], broker)
  BY <1>2, <1>3, <1>7 DEF Today
<1>9. Recorded(db, n)
  BY <1>1, <1>8, InformedSets DEF Informed
<1>10. n \in OrderNo
  BY <1>5, BoundsAssumption DEF OrderNo
<1>11. db.orders[n].intent = proc[p].intent
  BY <1>1, <1>9, <1>10 DEF Listed
<1> QED BY <1>2, <1>9, <1>10, <1>11 DEF HasOrderFor

(* place_order_for_symbol keeps InformedInv.                               *)
LEMMA PlaceInformed ==
    ASSUME IInv, SoleInv, InformedInv, NEW p \in Procs, ExecPlace(p),
           LateMeansUnknown, Dated(broker')
    PROVE  InformedInv'
<1>0. /\ proc \in [Procs -> Locals] /\ proc[p] \in Locals /\ broker \in Account
      /\ proc[p].pc = "exec_place" /\ clock.day \in Nat /\ proc[p].day \in Nat
      /\ Informed(proc[p], db, broker, clock) /\ Listed(db, broker, clock)
      /\ Len(broker.orders) \in Nat /\ db' = db /\ clock' = clock
  <2>1. proc[p].pc = "exec_place" /\ db' = db /\ clock' = clock
    BY DEF ExecPlace, At
  <2>2. /\ proc \in [Procs -> Locals] /\ broker \in Account /\ clock \in Clock
    BY DEF IInv, BooksOK
  <2>3. proc[p] \in Locals /\ clock.day \in Nat
    BY <2>2, BoundsAssumption DEF Clock, Day
  <2>4. proc[p].day \in Nat
    BY <2>3, BoundsAssumption DEF Locals, Day
  <2>5. Len(broker.orders) \in Nat
    BY <2>2 DEF Account
  <2>6. Informed(proc[p], db, broker, clock) /\ Listed(db, broker, clock)
    BY DEF InformedInv
  <2> QED BY <2>1, <2>2, <2>3, <2>4, <2>5, <2>6
<1>1. /\ proc[p].intent.day = proc[p].day /\ ~HasOrderFor(db, proc[p].intent)
      /\ Current(proc[p], clock) => \A n \in Today(proc[p], broker) : Recorded(db, n)
  BY <1>0 DEF Informed
<1>2. ~HasUnknownIntents(db) /\ broker.inflight = {}
  BY <1>0, FiringQuiet, InformedSets
<1>3. proc[p].day = clock.day =>
         \A n \in 1..Len(broker.orders) : broker.orders[n].intent # proc[p].intent
  BY <1>0, PlacedIsNew DEF Current
<1> DEFINE answered == [proc EXCEPT ![p].order = Len(broker.orders) + 1,
                                    ![p].pc = "exec_record"]
           ambiguous == [proc EXCEPT ![p].pc = "exec_unknown"]
<1>4. /\ proc' = answered =>
             /\ Others(p) /\ proc'[p].pc = "exec_record" /\ proc'[p].day = proc[p].day
             /\ proc'[p].intent = proc[p].intent /\ proc'[p].order = Len(broker.orders) + 1
             /\ proc'[p].todo = proc[p].todo
      /\ proc' = ambiguous =>
             /\ Others(p) /\ proc'[p].pc = "exec_unknown" /\ proc'[p].day = proc[p].day
             /\ proc'[p].intent = proc[p].intent
      /\ End(p) => Others(p) /\ proc'[p] = Fresh
  BY <1>0 DEF Locals, Others, End
<1>5. \A b : proc' = ambiguous => Informed(proc'[p], db', b, clock')
  BY <1>0, <1>1, <1>4, InformedSets DEF Informed
<1>6. \A b : End(p) /\ b.inflight = {} => Informed(proc'[p], db', b, clock')
  BY <1>4, FreshInformed
<1>7. CASE broker' = broker /\ (End(p) \/ proc' = ambiguous)
  <2>1. Listed(db', broker', clock')
    BY <1>0, <1>7
  <2>2. Informed(proc'[p], db', broker', clock') /\ Others(p)
    BY <1>2, <1>4, <1>5, <1>6, <1>7
  <2> QED BY <1>0, <2>1, <2>2, InformedStep
<1>8. CASE /\ LateRequests # {} /\ broker' = [broker EXCEPT !.inflight = @ \cup {proc[p].intent}]
           /\ proc' = ambiguous
  <2>1. /\ broker'.orders = broker.orders /\ broker'.execs = broker.execs
        /\ broker'.inflight = {proc[p].intent}
    BY <1>0, <1>2, <1>8 DEF Account
  <2>2. NoRepeat(broker', clock)
    BY <1>0, <1>1, <1>3, <2>1 DEF Listed, NoRepeat
  <2>3. Listed(db', broker', clock')
    BY <1>0, <1>8, <2>1, <2>2 DEF Listed
  <2> QED BY <1>0, <1>4, <1>5, <1>8, <2>3, InformedStep
<1>9. CASE /\ broker' = Accepted(broker, proc[p].intent)
           /\ End(p) \/ proc' \in {answered, ambiguous}
  <2>1. PICK i : i = proc[p].intent
    OBVIOUS
  <2>2. /\ broker'.orders = Append(broker.orders, NewOrder(i)) /\ broker'.execs = broker.execs
        /\ broker'.inflight = {}
    BY <1>0, <1>2, <1>9, <2>1 DEF Accepted, Account
  <2>3. /\ Len(broker'.orders) = Len(broker.orders) + 1
        /\ \A n \in 1..Len(broker.orders) : broker'.orders[n] = broker.orders[n]
        /\ broker'.orders[Len(broker.orders) + 1] = NewOrder(i)
    BY <1>0, <2>2, AcceptedBook
  <2>4. NewOrder(i).intent = i /\ NewOrder(i).day = clock.day
    BY DEF NewOrder
  <2>5. Len(broker.orders) + 1 \in 1..Len(broker'.orders)
    BY <1>0, <2>3
  <2>6. i.day = clock.day /\ proc[p].day = clock.day
    BY <1>1, <2>1, <2>3, <2>4, <2>5 DEF Dated
  <2>7. Listed(db', broker', clock')
    BY <1>0, <1>2, <1>3, <2>1, <2>2, <2>6, AcceptedListed
  <2>8. CASE End(p)
    BY <1>0, <1>4, <1>6, <2>2, <2>7, <2>8, InformedStep
  <2>9. CASE proc' = ambiguous
    BY <1>0, <1>4, <1>5, <2>7, <2>9, InformedStep
  <2>10. CASE proc' = answered
    <3>1. /\ proc'[p].order \in 1..Len(broker'.orders)
          /\ broker'.orders[proc'[p].order].intent = proc'[p].intent
      BY <1>4, <2>1, <2>3, <2>4, <2>5, <2>10
    <3>2. \A n \in Today(proc'[p], broker') : Recorded(db, n) \/ n = proc'[p].order
      BY <1>0, <1>1, <1>4, <2>3, <2>6, <2>10 DEF Today, Current
    <3>3. Informed(proc'[p], db', broker', clock')
      BY <1>0, <1>1, <1>4, <2>2, <2>10, <3>1, <3>2, InformedSets DEF Informed
    <3> QED BY <1>0, <1>4, <2>7, <2>10, <3>3, InformedStep
  <2> QED BY <1>9, <2>8, <2>9, <2>10
<1> QED BY <1>7, <1>8, <1>9, PlaceOutcomes DEF LateMeansUnknown

(* record_broker_order keeps InformedInv.                                  *)
LEMMA RecordInformed ==
    ASSUME IInv, SoleInv, InformedInv, NEW p \in Procs, ExecRecord(p)
    PROVE  InformedInv'
<1>0. /\ proc \in [Procs -> Locals] /\ proc[p] \in Locals /\ broker \in Account
      /\ proc[p].pc = "exec_record" /\ clock.day \in Nat /\ proc[p].day \in Nat
      /\ Informed(proc[p], db, broker, clock) /\ Listed(db, broker, clock)
      /\ Len(broker.orders) \in Nat /\ UNCHANGED <<broker, clock>> /\ db \in Database
      /\ Len(broker.orders) <= MaxOrders
  <2>1. proc[p].pc = "exec_record" /\ UNCHANGED <<broker, clock>>
    BY DEF ExecRecord, At
  <2>2. /\ proc \in [Procs -> Locals] /\ broker \in Account /\ clock \in Clock
        /\ db \in Database /\ Len(broker.orders) <= MaxOrders
    BY DEF IInv, BooksOK
  <2>3. proc[p] \in Locals /\ clock.day \in Nat
    BY <2>2, BoundsAssumption DEF Clock, Day
  <2>4. proc[p].day \in Nat
    BY <2>3, BoundsAssumption DEF Locals, Day
  <2>5. Len(broker.orders) \in Nat
    BY <2>2 DEF Account
  <2>6. Informed(proc[p], db, broker, clock) /\ Listed(db, broker, clock)
    BY DEF InformedInv
  <2> QED BY <2>1, <2>2, <2>3, <2>4, <2>5, <2>6
<1>1. /\ proc[p].intent.day = proc[p].day
      /\ proc[p].order \in 1..Len(broker.orders)
      /\ broker.orders[proc[p].order].intent = proc[p].intent
      /\ Current(proc[p], clock) => \A n \in Today(proc[p], broker) : Recorded(db, n) \/ n = proc[p].order
      /\ \A i \in proc[p].todo : i.day = proc[p].day
  BY <1>0, InformedSets DEF Informed
<1>2. ~HasUnknownIntents(db) /\ broker.inflight = {}
  BY <1>0, FiringQuiet, InformedSets
<1>3. CASE End(p) /\ UNCHANGED db
  BY <1>0, <1>3, EndInformed, SameKeeps, SameAccount
<1>4. CASE /\ db' = RecordBrokerOrder(db, proc[p].order, proc[p].intent)
           /\ proc' = [proc EXCEPT ![p].submitted = TRUE, ![p].intent = NoIntent,
                                   ![p].order = 0, ![p].pc = "exec_check"]
  <2>1. /\ Others(p) /\ proc'[p].pc = "exec_check" /\ proc'[p].day = proc[p].day
        /\ proc'[p].todo = proc[p].todo
    BY <1>0, <1>4 DEF Locals, Others
  <2>2. PICK row : row = [intent |-> proc[p].intent, status |-> "ACCEPTED"]
    OBVIOUS
  <2>3. proc[p].order \in OrderNo
    BY <1>0, <1>1, BoundsAssumption DEF OrderNo
  <2>4. db'.orders = [db.orders EXCEPT ![proc[p].order] = row]
    BY <1>0, <1>4, <2>2 DEF RecordBrokerOrder, Database
  <2>5. row # NoRow /\ row.intent = proc[p].intent
    BY <2>2 DEF NoRow
  <2>6. /\ \A n \in OrderNo : n # proc[p].order => db'.orders[n] = db.orders[n]
        /\ db'.orders[proc[p].order] = row
    BY <1>0, <2>3, <2>4 DEF Database
  <2>7. \A n \in OrderNo : Recorded(db', n) <=> Recorded(db, n) \/ n = proc[p].order
    BY <2>3, <2>5, <2>6 DEF Recorded
  <2>8. \A n \in OrderNo : Recorded(db', n) => /\ n <= Len(broker.orders)
                                               /\ db'.orders[n].intent = broker.orders[n].intent
    BY <1>0, <1>1, <2>3, <2>5, <2>6, <2>7 DEF Listed
  <2>9. Listed(db', broker', clock')
    BY <1>0, <2>8 DEF Listed
  <2>11. Today(proc'[p], broker') \subseteq OrderNo
    BY <1>0, BoundsAssumption DEF Today, OrderNo
  <2>12. Current(proc'[p], clock') => \A n \in Today(proc'[p], broker') : Recorded(db', n)
    BY <1>0, <1>1, <2>1, <2>7, <2>11 DEF Today, Current
  <2>13. Informed(proc'[p], db', broker', clock')
    BY <1>0, <1>1, <1>2, <2>1, <2>12, InformedSets DEF Informed
  <2> QED BY <1>0, <2>1, <2>9, <2>13, InformedStep
<1> QED BY <1>0, <1>3, <1>4 DEF ExecRecord

(* has_order_for_intent keeps InformedInv.                                 *)
LEMMA CheckInformed ==
    ASSUME IInv, SoleInv, InformedInv, NEW p \in Procs, ExecCheck(p)
    PROVE  InformedInv'
<1>0. /\ proc \in [Procs -> Locals] /\ proc[p] \in Locals
      /\ proc[p].pc = "exec_check" /\ Informed(proc[p], db, broker, clock)
      /\ Keeps(db, db') /\ SameBook(broker, broker') /\ clock' = clock
  BY SameKeeps, SameAccount DEF IInv, InformedInv, ExecCheck, At
<1>1. /\ \A i \in proc[p].todo : i.day = proc[p].day
      /\ Current(proc[p], clock) => \A n \in Today(proc[p], broker) : Recorded(db, n)
  BY <1>0, InformedSets DEF Informed
<1>2. CASE End(p)
  BY <1>0, <1>2, EndInformed
<1>3. CASE ~End(p)
  <2>1. PICK i, intent, label :
           /\ i \in proc[p].todo
           /\ proc' = [proc EXCEPT ![p].todo = @ \ {i}, ![p].intent = intent, ![p].pc = label]
           /\ \/ label = "exec_check"
              \/ label = "exec_place" /\ intent = i /\ ~HasOrderFor(db, i)
    BY <1>3 DEF ExecCheck
  <2>2. /\ Others(p) /\ proc'[p].pc = label /\ proc'[p].day = proc[p].day
        /\ proc'[p].todo \subseteq proc[p].todo /\ proc'[p].intent = intent
    BY <1>0, <2>1 DEF Locals, Others
  <2>3. /\ Today(proc'[p], broker) = Today(proc[p], broker)
        /\ Current(proc'[p], clock) <=> Current(proc[p], clock)
    BY <2>2 DEF Today, Current
  <2>4. CASE label = "exec_check"
    <3>1. Informed(proc'[p], db, broker, clock)
      BY <1>0, <1>1, <2>2, <2>3, <2>4, InformedSets DEF Informed
    <3> QED BY <1>0, <2>2, <3>1, QuietInformed
  <2>5. CASE label = "exec_place" /\ intent = i /\ ~HasOrderFor(db, i)
    <3>1. proc'[p].pc = "exec_place" /\ proc'[p].intent.day = proc[p].day
          /\ ~HasOrderFor(db, proc'[p].intent)
      BY <1>1, <2>1, <2>2, <2>5
    <3>2. Informed(proc'[p], db, broker, clock)
      BY <1>0, <1>1, <2>2, <2>3, <3>1, InformedSets DEF Informed
    <3> QED BY <1>0, <2>2, <3>2, QuietInformed
  <2> QED BY <2>1, <2>4, <2>5
<1> QED BY <1>2, <1>3

(* The steps of _run_phase keep InformedInv.                               *)
LEMMA RunInformed ==
    ASSUME IInv, SoleInv, InformedInv, NEW p \in Procs, RunStep(p),
           LateMeansUnknown, Dated(broker')
    PROVE  InformedInv'
<1>0. /\ proc \in [Procs -> Locals] /\ proc[p] \in Locals /\ db \in Database
      /\ Informed(proc[p], db, broker, clock) /\ Listed(db, broker, clock)
  BY DEF IInv, BooksOK, InformedInv
<1>01. UNCHANGED <<broker, clock>> => SameBook(broker, broker') /\ clock' = clock
  BY SameAccount
<1>02. UNCHANGED <<db, broker, clock>> =>
         Keeps(db, db') /\ SameBook(broker, broker') /\ clock' = clock
  BY SameKeeps, SameAccount
<1>1. ASSUME NEW phase, StartRun(p, phase) PROVE InformedInv'
  <2>1. PICK day, m : /\ m = Started("run", phase, day, "profile")
                     /\ proc' = [proc EXCEPT ![p] = m]
    BY <1>1 DEF StartRun
  <2>2. m.pc = "profile" /\ m.cmd = "run"
    BY <2>1 DEF Started, Fresh
  <2>3. proc[p].pc = "idle" /\ Others(p) /\ proc'[p] = m
    BY <1>0, <1>1, <2>1 DEF StartRun, MayStart, At, Others
  <2> QED BY <1>1, <1>02, <2>2, <2>3, StartInformed DEF StartRun
<1>2. CASE StartTick(p)
  <2>1. PICK m : m = Started("tick", clock.window, clock.day, "claim")
    OBVIOUS
  <2>2. m.pc = "claim" /\ m.cmd = "tick"
    BY <2>1 DEF Started, Fresh
  <2>3. proc[p].pc = "idle" /\ Others(p) /\ proc'[p] = m
    BY <1>0, <1>2, <2>1 DEF StartTick, MayStart, At, Others
  <2> QED BY <1>2, <1>02, <2>2, <2>3, StartInformed DEF StartTick
<1>3. CASE Claim(p)
  <2>1. proc[p].pc = "claim" /\ UNCHANGED <<broker, clock>>
    BY <1>3 DEF Claim, At
  <2>2. db'.orders = db.orders /\ db'.intents = db.intents
    BY <1>0, <1>3 DEF Claim, ClaimAutomation, Database
  <2>3. CASE End(p)
    BY <1>01, <2>1, <2>2, <2>3, SameKeeps, EndInformed
  <2>4. CASE Goto(p, "profile")
    <3>1. /\ Others(p) /\ proc'[p].pc = "profile" /\ proc'[p].day = proc[p].day
          /\ proc'[p].cmd = proc[p].cmd /\ proc'[p].submitted = proc[p].submitted
      BY <1>0, <2>4 DEF Goto, Others, Locals
    <3>3. Informed(proc'[p], db, broker, clock)
      BY <1>0, <2>1, <3>1, InformedSets DEF Informed
    <3> QED BY <1>01, <2>1, <2>2, <3>1, <3>3, SameKeeps, QuietInformed
  <2> QED BY <1>3, <2>3, <2>4 DEF Claim
<1>4. CASE ReadProfile(p)
  <2>1. PICK on : proc' = [proc EXCEPT ![p].on = on, ![p].pc = "rec_state"]
    BY <1>4 DEF ReadProfile
  <2>0. proc[p].pc = "profile" /\ UNCHANGED <<db, broker, clock>>
    BY <1>4 DEF ReadProfile, At
  <2>2. /\ Others(p) /\ proc'[p].pc = "rec_state" /\ proc'[p].day = proc[p].day
        /\ proc'[p].cmd = proc[p].cmd /\ proc'[p].submitted = proc[p].submitted
    BY <1>0, <2>1 DEF Locals, Others
  <2>4. Informed(proc'[p], db, broker, clock)
    BY <1>0, <2>0, <2>2, InformedSets DEF Informed
  <2> QED BY <1>02, <2>0, <2>2, <2>4, QuietInformed
<1>5. CASE PlanRead(p)
  <2>0. proc[p].pc = "plan_read" /\ UNCHANGED <<db, broker, clock>>
    BY <1>5 DEF PlanRead, Abort, At
  <2>1. CASE End(p)
    BY <1>02, <2>0, <2>1, EndInformed
  <2>2. CASE ~End(p)
    <3>4. PICK s : s = Prepared(db.state, proc[p].day)
      OBVIOUS
    <3>1. PICK todo, label :
             /\ proc' = [proc EXCEPT ![p].state = s, ![p].base = db.state.version,
                                     ![p].todo = todo, ![p].pc = label]
             /\ label \in {"plan_record", "plan_save"}
      BY <1>5, <2>2, <3>4 DEF PlanRead, Abort
    <3>2. Others(p) /\ proc'[p].pc = label /\ proc'[p].day = proc[p].day
      BY <1>0, <3>1 DEF Locals, Others
    <3>3. proc[p].pc \in Cleared /\ label \in Cleared /\ label # "exec_gate"
      BY <2>0, <3>1, InformedSets
    <3> QED BY <1>02, <2>0, <3>2, <3>3, ClearedInformed
  <2> QED BY <2>1, <2>2
<1>6. CASE PlanSave(p)
  <2>0. proc[p].pc = "plan_save"
    BY <1>6 DEF PlanSave, At
  <2>1. PICK s, base : SaveOrAbort(p, s, base, "plan_record")
    BY <1>6 DEF PlanSave
  <2>2. CASE CanSave(db, base)
    <3>1. /\ proc' = [proc EXCEPT ![p].pc = "plan_record", ![p].state = s]
          /\ db' = SaveState(db, s) /\ UNCHANGED <<broker, clock>>
      BY <2>1, <2>2 DEF SaveOrAbort
    <3>2. Others(p) /\ proc'[p].pc = "plan_record" /\ proc'[p].day = proc[p].day
      BY <1>0, <3>1 DEF Locals, Others
    <3>3. db'.orders = db.orders /\ db'.intents = db.intents
      BY <1>0, <3>1 DEF SaveState, Database
    <3>4. proc[p].pc \in Cleared /\ proc'[p].pc \in Cleared /\ proc'[p].pc # "exec_gate"
      BY <2>0, <3>2, InformedSets
    <3> QED BY <1>01, <3>1, <3>2, <3>3, <3>4, SameKeeps, ClearedInformed
  <2>3. CASE ~CanSave(db, base)
    BY <1>02, <2>0, <2>1, <2>3, EndInformed DEF SaveOrAbort
  <2> QED BY <2>2, <2>3
<1>7. CASE PlanRecord(p)
  <2>1. /\ proc[p].pc = "plan_record" /\ UNCHANGED <<broker, clock>>
        /\ proc' = [proc EXCEPT ![p] = Keep(proc[p], "exec_pending")]
    BY <1>7 DEF PlanRecord, At, Enter
  <2>2. db'.orders = db.orders
    BY <1>0, <1>7 DEF PlanRecord, RecordDecision, Database
  <2>3. ~HasUnknownIntents(db)
    BY <2>1, InformedSets, FiringQuiet
  <2>4. Keeps(db, db')
    BY <2>2, <2>3 DEF Keeps, Recorded
  <2>5. Current(proc[p], clock) => \A n \in Today(proc[p], broker) : Recorded(db, n)
    BY <1>0, <2>1, InformedSets DEF Informed
  <2> QED BY <1>01, <2>1, <2>4, <2>5, KeepInformed
<1>8. CASE ExecPending(p)
  <2>0. proc[p].pc = "exec_pending" /\ UNCHANGED <<db, broker, clock>>
    BY <1>8 DEF ExecPending, At
  <2>1. PICK todo : /\ proc' = [proc EXCEPT ![p].todo = todo, ![p].pc = "exec_gate"]
                    /\ todo = PendingIntents(db, proc[p].day, proc[p].phase)
    BY <1>8 DEF ExecPending
  <2>2. /\ Others(p) /\ proc'[p].pc = "exec_gate" /\ proc'[p].day = proc[p].day
        /\ proc'[p].todo = todo
    BY <1>0, <2>1 DEF Locals, Others
  <2>3. \A i \in proc'[p].todo : i.day = proc[p].day
    BY <2>1, <2>2 DEF PendingIntents
  <2>4. proc[p].pc \in Cleared /\ proc'[p].pc \in Cleared
    BY <2>0, <2>2, InformedSets
  <2> QED BY <1>02, <2>0, <2>2, <2>3, <2>4, ClearedInformed
<1>9. CASE ExecGate(p)
  <2>0. proc[p].pc = "exec_gate" /\ UNCHANGED <<db, broker, clock>>
    BY <1>9 DEF ExecGate, At
  <2>1. CASE End(p)
    BY <1>02, <2>0, <2>1, EndInformed
  <2>2. CASE Goto(p, "exec_check")
    <3>1. /\ Others(p) /\ proc'[p].pc = "exec_check" /\ proc'[p].day = proc[p].day
          /\ proc'[p].todo = proc[p].todo
      BY <1>0, <2>2 DEF Goto, Locals, Others
    <3>2. /\ Today(proc'[p], broker) = Today(proc[p], broker)
          /\ Current(proc'[p], clock) <=> Current(proc[p], clock)
      BY <3>1 DEF Today, Current
    <3>3. Informed(proc'[p], db, broker, clock)
      BY <1>0, <2>0, <3>1, <3>2, InformedSets DEF Informed
    <3> QED BY <1>02, <2>0, <3>1, <3>3, QuietInformed
  <2> QED BY <1>9, <2>1, <2>2 DEF ExecGate
<1>10. CASE ExecUnknown(p)
  <2>1. proc[p].pc = "exec_unknown" /\ End(p) /\ UNCHANGED <<broker, clock>>
    BY <1>10 DEF ExecUnknown, At
  <2>2. db'.orders = db.orders /\ db'.intents = Moved(db.intents, {proc[p].intent}, "UNKNOWN")
    BY <1>0, <1>10 DEF ExecUnknown, MarkIntentUnknown, Database
  <2>3. HasUnknownIntents(db')
    BY <2>2 DEF Moved, HasUnknownIntents, IntentStatus
  <2>4. Keeps(db, db')
    BY <2>2, <2>3 DEF Keeps, Recorded
  <2>5. Listed(db', broker', clock')
    BY <1>0, <1>01, <2>1, <2>4, ListedKept
  <2>6. Others(p) /\ proc'[p] = Fresh
    BY <1>0, <2>1 DEF End, Others
  <2>7. Informed(proc'[p], db', broker', clock')
    BY <2>3, <2>6, FreshInformed
  <2> QED BY <2>1, <2>5, <2>6, <2>7, InformedStep
<1>11. CASE ExecDone(p)
  <2>0. proc[p].pc = "exec_check" /\ UNCHANGED <<db, broker, clock>>
    BY <1>11 DEF ExecDone, At
  <2>1. CASE End(p)
    BY <1>02, <2>0, <2>1, EndInformed
  <2>2. CASE proc[p].submitted /\ proc' = [proc EXCEPT ![p] = Keep(proc[p], "rec_state")]
    <3> QED BY <1>02, <2>0, <2>2, KeepInformed
  <2> QED BY <1>11, <2>1, <2>2 DEF ExecDone, Enter
<1> QED BY <1>1, <1>2, <1>3, <1>4, <1>5, <1>6, <1>7, <1>8, <1>9, <1>10, <1>11,
           CheckInformed, PlaceInformed, RecordInformed DEF RunStep

(* What a process knows does not depend on what has executed, and time     *)
(* only passes by dropping the requests under way.                         *)
LEMMA InformedDays ==
    ASSUME NEW l, NEW d, NEW b, NEW b2, NEW c, NEW c2,
           Len(b2.orders) = Len(b.orders), b2.inflight \subseteq b.inflight,
           \A n \in 1..Len(b.orders) : /\ b2.orders[n].day = b.orders[n].day
                                       /\ b2.orders[n].intent = b.orders[n].intent,
           l.day \in Nat, c.day \in Nat, c2.day \in Nat, c.day <= c2.day,
           Informed(l, d, b, c)
    PROVE  Informed(l, d, b2, c2)
<1> DEFINE Known(e) == l.order \in 1..Len(e.orders) /\ e.orders[l.order].intent = l.intent
<1>1. Today(l, b2) = Today(l, b)
  BY DEF Today
<1>2. Known(b) => Known(b2)
  OBVIOUS
<1>3. b.inflight = {} => b2.inflight = {}
  OBVIOUS
<1>4. Current(l, c2) => Current(l, c)
  BY DEF Current
<1>5. Informed(l, d, b, c)
  OBVIOUS
<1> QED BY <1>1, <1>2, <1>3, <1>4, <1>5 DEF Informed

(* The steps of broker and market keep InformedInv.                        *)
LEMMA BrokerInformed ==
    ASSUME IInv, SoleInv, InformedInv, BrokerNext, UNCHANGED <<db, proc>>, Dated(broker')
    PROVE  InformedInv'
<1>0. /\ proc \in [Procs -> Locals] /\ db \in Database /\ broker \in Account
      /\ broker.orders \in Seq(BrokerOrder) /\ clock \in Clock
      /\ Len(broker.orders) \in Nat /\ Len(broker.orders) <= MaxOrders
      /\ Listed(db, broker, clock) /\ \A q \in Procs : Informed(proc[q], db, broker, clock)
  BY DEF IInv, BooksOK, InformedInv, Account
<1>01. clock.day \in Nat /\ \A q \in Procs : proc[q].day \in Nat
  BY <1>0, BoundsAssumption DEF Clock, Locals, Day
<1>02. \A n \in 1..Len(broker.orders) : broker.orders[n] \in BrokerOrder
  BY <1>0, SeqElement
<1>03. DOMAIN broker.orders = 1..Len(broker.orders)
  BY <1>0
<1>1. CASE WindowPasses
  <2>1. clock'.day = clock.day /\ broker' = broker
    BY <1>0, <1>1 DEF WindowPasses, Clock
  <2>2. Listed(db', broker', clock')
    BY <1>0, <2>1 DEF Listed, NoRepeat
  <2>3. ASSUME NEW q \in Procs PROVE Informed(proc'[q], db', broker', clock')
    BY <1>0, <2>1 DEF Informed, Current
  <2> QED BY <2>2, <2>3 DEF InformedInv
<1>2. ASSUME NEW n \in 1..Len(broker.orders), NEW q, Execute(n, q) PROVE InformedInv'
  <2>1. PICK e : e = [order |-> n, qty |-> q]
    OBVIOUS
  <2>2. PICK o : o = [broker.orders[n] EXCEPT !.filled = @ + q]
    OBVIOUS
  <2>3. /\ broker'.orders = [broker.orders EXCEPT ![n] = o]
        /\ broker'.execs = Append(broker.execs, e)
        /\ broker'.inflight = broker.inflight /\ clock' = clock
    BY <1>0, <1>2, <2>1, <2>2 DEF Execute, Account
  <2>4. o.intent = broker.orders[n].intent /\ o.day = broker.orders[n].day
    BY <1>02, <2>2 DEF BrokerOrder
  <2>5. Len(broker'.orders) = Len(broker.orders)
        /\ \A m \in 1..Len(broker.orders) :
              broker'.orders[m] = IF m = n THEN o ELSE broker.orders[m]
    BY <1>0, <1>03, <2>3
  <2>6. /\ broker.execs \in Seq([order : OrderNo, qty : Nat \ {0}])
        /\ Len(broker.execs) \in Nat
    BY <1>0 DEF Account
  <2>7. /\ Len(broker'.execs) = Len(broker.execs) + 1
        /\ \A f \in 1..Len(broker.execs) : broker'.execs[f] = broker.execs[f]
        /\ broker'.execs[Len(broker.execs) + 1] = e
    BY <2>3, <2>6
  <2>8. \A m \in 1..Len(broker'.orders) :
           broker'.orders[m].filled > 0 => \E f \in 1..Len(broker'.execs) : broker'.execs[f].order = m
    <3> SUFFICES ASSUME NEW m \in 1..Len(broker'.orders), broker'.orders[m].filled > 0
                 PROVE  \E f \in 1..Len(broker'.execs) : broker'.execs[f].order = m
      OBVIOUS
    <3>1. CASE m = n
      <4>1. e.order = m
        BY <2>1, <3>1
      <4>2. Len(broker.execs) + 1 \in 1..Len(broker'.execs)
        BY <2>6, <2>7
      <4>3. broker'.execs[Len(broker.execs) + 1].order = m
        BY <2>7, <4>1
      <4> QED BY <4>2, <4>3
    <3>2. CASE m # n
      <4>1. PICK f \in 1..Len(broker.execs) : broker.execs[f].order = m
        BY <1>0, <2>5, <3>2 DEF Listed
      <4>2. f \in 1..Len(broker'.execs)
        BY <2>6, <2>7
      <4>3. broker'.execs[f] = broker.execs[f]
        BY <2>7
      <4>4. broker'.execs[f].order = m
        BY <4>1, <4>3
      <4> QED BY <4>2, <4>4
    <3> QED BY <3>1, <3>2
  <2>9. /\ \A m \in 1..Len(broker.orders) : /\ broker'.orders[m].intent = broker.orders[m].intent
                                            /\ broker'.orders[m].day = broker.orders[m].day
    BY <2>4, <2>5
  <2>10. NoRepeat(broker', clock)
    BY <1>0, <2>3, <2>5, <2>9 DEF Listed, NoRepeat
  <2>11. \A m \in OrderNo : Recorded(db, m) => /\ m <= Len(broker'.orders)
                                               /\ db.orders[m].intent = broker'.orders[m].intent
    <3> SUFFICES ASSUME NEW m \in OrderNo, Recorded(db, m)
                 PROVE  /\ m <= Len(broker'.orders)
                        /\ db.orders[m].intent = broker'.orders[m].intent
      OBVIOUS
    <3>1. m \in 1..Len(broker.orders) /\ db.orders[m].intent = broker.orders[m].intent
      BY <1>0 DEF Listed, OrderNo
    <3> QED BY <2>5, <2>9, <3>1
  <2>12. \A m \in 1..Len(broker'.orders) :
             /\ broker'.orders[m].intent.day = broker'.orders[m].day
             /\ broker'.orders[m].day <= clock.day
    BY <1>0, <2>5, <2>9 DEF Listed
  <2>13. Listed(db', broker', clock')
    BY <1>0, <2>3, <2>8, <2>10, <2>11, <2>12 DEF Listed
  <2>14. ASSUME NEW r \in Procs PROVE Informed(proc'[r], db', broker', clock')
    BY <1>0, <1>01, <2>3, <2>5, <2>9, InformedDays
  <2> QED BY <2>13, <2>14 DEF InformedInv
<1>3. ASSUME NEW n \in 1..Len(broker.orders), NEW st,
             broker' = [broker EXCEPT !.orders[n].status = st], UNCHANGED clock
      PROVE  InformedInv'
  <2>1. PICK o : o = [broker.orders[n] EXCEPT !.status = st]
    OBVIOUS
  <2>2. /\ broker'.orders = [broker.orders EXCEPT ![n] = o]
        /\ broker'.execs = broker.execs /\ broker'.inflight = broker.inflight
    BY <1>0, <1>3, <2>1 DEF Account
  <2>3. /\ o.intent = broker.orders[n].intent /\ o.day = broker.orders[n].day
        /\ o.filled = broker.orders[n].filled
    BY <1>02, <2>1 DEF BrokerOrder
  <2>4. Len(broker'.orders) = Len(broker.orders)
        /\ \A m \in 1..Len(broker.orders) :
              broker'.orders[m] = IF m = n THEN o ELSE broker.orders[m]
    BY <1>0, <1>03, <2>2
  <2>5. SameBook(broker, broker') /\ Keeps(db, db')
    BY <2>2, <2>3, <2>4, SameKeeps DEF SameBook, SameRequests
  <2>6. Listed(db', broker', clock')
    BY <1>0, <1>3, <2>5, ListedKept
  <2>7. ASSUME NEW q \in Procs PROVE Informed(proc'[q], db', broker', clock')
    BY <1>0, <1>3, <2>5, InformedKept
  <2> QED BY <2>6, <2>7 DEF InformedInv
<1>4. ASSUME NEW i \in broker.inflight, LateArrival(i) PROVE InformedInv'
  <2>1. /\ broker'.orders = Append(broker.orders, NewOrder(i)) /\ broker'.execs = broker.execs
        /\ broker'.inflight = broker.inflight \ {i} /\ clock' = clock
    BY <1>0, <1>4 DEF LateArrival, Accepted, Account
  <2>4. /\ Len(broker'.orders) = Len(broker.orders) + 1
        /\ \A n \in 1..Len(broker.orders) : broker'.orders[n] = broker.orders[n]
        /\ broker'.orders[Len(broker.orders) + 1] = NewOrder(i)
    BY <1>0, <2>1, AcceptedBook
  <2>5. NewOrder(i).day = clock.day /\ NewOrder(i).intent = i
    BY DEF NewOrder
  <2>7. Len(broker.orders) + 1 \in 1..Len(broker'.orders)
    BY <1>0, <2>4
  <2>8. i.day = clock.day
    BY <2>4, <2>5, <2>7 DEF Dated
  <2>2. \A n \in 1..Len(broker.orders) : broker.orders[n].intent # i
    BY <1>0, <2>8 DEF Listed, NoRepeat
  <2>3. Listed(db', broker', clock')
    BY <1>0, <1>01, <2>1, <2>2, <2>8, AcceptedListed
  <2>6. ASSUME NEW q \in Procs PROVE Informed(proc'[q], db', broker', clock')
    <3>1. CASE proc[q].pc = "absent"
      BY <3>1, InformedAbsent
    <3>2. CASE proc[q].pc = "exec_unknown"
      BY <1>0, <2>1, <3>2, InformedSets DEF Informed
    <3>3. CASE proc[q].pc \notin {"absent", "exec_unknown"}
      <4>1. HasUnknownIntents(db)
        BY <1>0, <3>3 DEF Informed
      <4>2. proc[q].pc \notin Firing \cup Cleared
        BY <1>4, FiringQuiet
      <4>4. proc[q].pc \notin {"exec_place", "exec_check", "exec_record"}
        BY <4>2, InformedSets
      <4> QED BY <1>0, <2>1, <3>3, <4>1, <4>2, <4>4 DEF Informed
    <3> QED BY <3>1, <3>2, <3>3
  <2> QED BY <2>3, <2>6 DEF InformedInv
<1>5. CASE NextDay
  <2>1. PICK st :
        /\ broker'.orders = [n \in DOMAIN broker.orders |-> Expired(broker.orders[n], st)]
        /\ broker'.execs = broker.execs /\ broker'.inflight = {}
        /\ clock'.day = clock.day + 1
    BY <1>0, <1>5 DEF NextDay, Account
  <2>2. \A n \in 1..Len(broker.orders) :
           /\ Expired(broker.orders[n], st).intent = broker.orders[n].intent
           /\ Expired(broker.orders[n], st).day = broker.orders[n].day
           /\ Expired(broker.orders[n], st).filled = broker.orders[n].filled
    BY <1>02 DEF Expired, BrokerOrder
  <2>3. /\ Len(broker'.orders) = Len(broker.orders)
        /\ \A n \in 1..Len(broker.orders) :
           /\ broker'.orders[n].intent = broker.orders[n].intent
           /\ broker'.orders[n].day = broker.orders[n].day
           /\ broker'.orders[n].filled = broker.orders[n].filled
    BY <1>0, <1>03, <2>1, <2>2
  <2>10. broker'.execs = broker.execs /\ broker'.inflight = {} /\ clock'.day = clock.day + 1
    BY <2>1
  <2>4. NoRepeat(broker', clock')
    BY <1>0, <2>3, <2>10 DEF Listed, NoRepeat
  <2>5. \A m \in OrderNo : Recorded(db, m) => /\ m <= Len(broker'.orders)
                                              /\ db.orders[m].intent = broker'.orders[m].intent
    <3> SUFFICES ASSUME NEW m \in OrderNo, Recorded(db, m)
                 PROVE  /\ m <= Len(broker'.orders)
                        /\ db.orders[m].intent = broker'.orders[m].intent
      OBVIOUS
    <3>1. m \in 1..Len(broker.orders) /\ db.orders[m].intent = broker.orders[m].intent
      BY <1>0 DEF Listed, OrderNo
    <3> QED BY <2>3, <3>1
  <2>6. \A n \in 1..Len(broker.orders) : broker.orders[n].day \in Nat
    BY <1>02, BoundsAssumption DEF BrokerOrder, Day
  <2>7. \A m \in 1..Len(broker'.orders) :
             /\ broker'.orders[m].intent.day = broker'.orders[m].day
             /\ broker'.orders[m].day <= clock'.day
             /\ broker'.orders[m].filled > 0 => \E f \in 1..Len(broker'.execs) : broker'.execs[f].order = m
    <3> SUFFICES ASSUME NEW m \in 1..Len(broker.orders)
                 PROVE  /\ broker'.orders[m].intent.day = broker'.orders[m].day
                        /\ broker'.orders[m].day <= clock'.day
                        /\ broker'.orders[m].filled > 0 =>
                              \E f \in 1..Len(broker'.execs) : broker'.execs[f].order = m
      BY <2>3
    <3>1. /\ broker.orders[m].intent.day = broker.orders[m].day
          /\ broker.orders[m].day <= clock.day
          /\ broker.orders[m].filled > 0 =>
                \E f \in 1..Len(broker.execs) : broker.execs[f].order = m
      BY <1>0 DEF Listed
    <3>2. broker.orders[m].day <= clock.day + 1
      BY <1>01, <2>6, <3>1
    <3> QED BY <2>3, <2>10, <3>1, <3>2
  <2>8. Listed(db', broker', clock')
    BY <2>4, <2>5, <2>7, <2>10 DEF Listed
  <2>9. ASSUME NEW q \in Procs PROVE Informed(proc'[q], db', broker', clock')
    <3>1. /\ clock'.day \in Nat /\ clock.day <= clock'.day
          /\ broker'.inflight \subseteq broker.inflight /\ proc'[q] = proc[q] /\ db' = db
      BY <1>01, <2>10
    <3> QED BY <1>0, <1>01, <2>3, <2>10, <3>1, InformedDays
  <2> QED BY <2>8, <2>9 DEF InformedInv
<1> QED BY <1>1, <1>2, <1>3, <1>4, <1>5 DEF BrokerNext, CancelTakesEffect, Reject

(* So does the death of a process, when nothing is under way.              *)
LEMMA CrashInformed ==
    ASSUME IInv, SoleInv, InformedInv, LateMeansUnknown, NEW p \in Procs, Crash(p)
    PROVE  InformedInv'
<1>0. /\ proc \in [Procs -> Locals] /\ proc[p].pc # "absent" /\ End(p)
      /\ UNCHANGED <<db, broker, clock>> /\ LateRequests = {}
  BY DEF IInv, Crash, Busy, At, Abort, LateMeansUnknown
<1>1. Others(p) /\ proc'[p] = Fresh
  BY <1>0 DEF End, Others
<1>2. Listed(db, broker, clock) /\ broker.inflight = {}
  BY <1>0 DEF InformedInv, Listed
<1>3. Informed(Fresh, db, broker, clock)
  BY <1>2, FreshInformed
<1> QED BY <1>0, <1>1, <1>3, SameKeeps, SameAccount, QuietInformed

(* The broker does not forget an order, nor its day or its intent.         *)
Remembers(b, b2) ==
    \A n \in 1..Len(b.orders) : /\ n \in 1..Len(b2.orders)
                                 /\ b2.orders[n].day = b.orders[n].day
                                 /\ b2.orders[n].intent = b.orders[n].intent

(* An order replaced by one of the same day and intent is remembered.      *)
LEMMA ReplacedRemembered ==
    ASSUME broker \in Account, NEW n \in 1..Len(broker.orders), NEW o,
           o.day = broker.orders[n].day, o.intent = broker.orders[n].intent,
           broker'.orders = [broker.orders EXCEPT ![n] = o]
    PROVE  Remembers(broker, broker')
<1>1. broker.orders \in Seq(BrokerOrder)
  BY DEF Account
<1>2. DOMAIN broker.orders = 1..Len(broker.orders) /\ Len(broker.orders) \in Nat
  BY <1>1
<1>3. Len(broker'.orders) = Len(broker.orders)
      /\ \A m \in 1..Len(broker.orders) :
            broker'.orders[m] = IF m = n THEN o ELSE broker.orders[m]
  BY <1>1, <1>2
<1> QED BY <1>3 DEF Remembers

(* Whatever happens.                                                       *)
LEMMA NextRemembers ==
    ASSUME IInv, [Next]_vars PROVE Remembers(broker, broker')
<1>0. /\ broker \in Account /\ broker.orders \in Seq(BrokerOrder)
      /\ Len(broker.orders) \in Nat
  BY DEF IInv, BooksOK, Account
<1>01. \A n \in 1..Len(broker.orders) : broker.orders[n] \in BrokerOrder
  BY <1>0, SeqElement
<1>02. broker'.orders = broker.orders => Remembers(broker, broker')
  BY DEF Remembers
<1>03. ASSUME NEW i, broker'.orders = Append(broker.orders, NewOrder(i))
       PROVE  Remembers(broker, broker')
  BY <1>0, <1>03, AcceptedBook DEF Remembers
<1>1. ASSUME NEW n \in 1..Len(broker.orders), NEW q, Execute(n, q)
      PROVE  Remembers(broker, broker')
  <2>1. PICK o : o = [broker.orders[n] EXCEPT !.filled = @ + q]
    OBVIOUS
  <2>2. broker'.orders = [broker.orders EXCEPT ![n] = o]
    BY <1>0, <1>1, <2>1 DEF Execute, Account
  <2>3. o.day = broker.orders[n].day /\ o.intent = broker.orders[n].intent
    BY <1>01, <2>1 DEF BrokerOrder
  <2> QED BY <1>0, <2>2, <2>3, ReplacedRemembered
<1>2. ASSUME NEW n \in 1..Len(broker.orders), NEW st,
             broker' = [broker EXCEPT !.orders[n].status = st]
      PROVE  Remembers(broker, broker')
  <2>1. PICK o : o = [broker.orders[n] EXCEPT !.status = st]
    OBVIOUS
  <2>2. broker'.orders = [broker.orders EXCEPT ![n] = o]
    BY <1>0, <1>2, <2>1 DEF Account
  <2>3. o.day = broker.orders[n].day /\ o.intent = broker.orders[n].intent
    BY <1>01, <2>1 DEF BrokerOrder
  <2> QED BY <1>0, <2>2, <2>3, ReplacedRemembered
<1>3. ASSUME NEW i, LateArrival(i) PROVE Remembers(broker, broker')
  <2>1. broker'.orders = Append(broker.orders, NewOrder(i))
    BY <1>0, <1>3 DEF LateArrival, Accepted, Account
  <2> QED BY <1>03, <2>1
<1>4. CASE NextDay
  <2>0. PICK st : broker' = [broker EXCEPT
                     !.orders = [n \in DOMAIN broker.orders |-> Expired(broker.orders[n], st)],
                     !.inflight = {}]
    BY <1>4 DEF NextDay
  <2>1. broker'.orders = [n \in DOMAIN broker.orders |-> Expired(broker.orders[n], st)]
    BY <1>0, <2>0 DEF Account
  <2>2. \A n \in 1..Len(broker.orders) :
           /\ Expired(broker.orders[n], st).intent = broker.orders[n].intent
           /\ Expired(broker.orders[n], st).day = broker.orders[n].day
    BY <1>01 DEF Expired, BrokerOrder
  <2>3. DOMAIN broker.orders = 1..Len(broker.orders)
    BY <1>0
  <2> QED BY <1>0, <2>1, <2>2, <2>3 DEF Remembers
<1>5. CASE BrokerNext
  <2>1. CASE WindowPasses
    BY <1>02, <2>1 DEF WindowPasses
  <2> QED BY <1>1, <1>2, <1>3, <1>4, <1>5, <2>1 DEF BrokerNext, CancelTakesEffect, Reject
<1>6. ASSUME NEW p \in Procs, ExecPlace(p) PROVE Remembers(broker, broker')
  <2>1. \/ broker'.orders = Append(broker.orders, NewOrder(proc[p].intent))
        \/ broker'.orders = broker.orders
    <3>1. \/ broker' = Accepted(broker, proc[p].intent)
          \/ broker' = [broker EXCEPT !.inflight = @ \cup {proc[p].intent}]
          \/ broker' = broker
      BY <1>6, PlaceOutcomes
    <3> QED BY <1>0, <3>1 DEF Accepted, Account
  <2> QED BY <1>02, <1>03, <2>1
<1>7. ASSUME NEW p \in Procs, OffCancel(p) PROVE Remembers(broker, broker')
  <2>1. CASE broker' = broker
    BY <1>02, <2>1
  <2>2. ASSUME NEW n, broker' = [broker EXCEPT !.orders[n].cancelling = TRUE]
        PROVE  Remembers(broker, broker')
    <3>1. PICK o : o = [broker.orders[n] EXCEPT !.cancelling = TRUE]
      OBVIOUS
    <3>2. broker'.orders = [broker.orders EXCEPT ![n] = o]
      BY <1>0, <2>2, <3>1 DEF Account
    <3>3. CASE n \in DOMAIN broker.orders
      <4>1. n \in 1..Len(broker.orders)
        BY <1>0, <3>3
      <4>2. o.day = broker.orders[n].day /\ o.intent = broker.orders[n].intent
        BY <1>01, <3>1, <4>1 DEF BrokerOrder
      <4> QED BY <1>0, <3>2, <4>1, <4>2, ReplacedRemembered
    <3>4. CASE n \notin DOMAIN broker.orders
      <4>1. broker'.orders = broker.orders
        BY <1>0, <3>2, <3>4
      <4> QED BY <1>02, <4>1
    <3> QED BY <3>3, <3>4
  <2> QED BY <1>7, <2>1, <2>2 DEF OffCancel
<1>8. ASSUME NEW p \in Procs, ProcessNext(p), ~ExecPlace(p), ~OffCancel(p)
      PROVE  broker' = broker
  BY <1>8 DEF ProcessNext, RunStep, ReconcileStep, CommandStep, Crash, Abort,
     StartRun, StartTick, Claim, ReadProfile, PlanRead, PlanSave, SaveOrAbort, PlanRecord,
     ExecPending, ExecGate, ExecCheck, ExecRecord, ExecUnknown, ExecDone,
     RecState, RecOrders, RecHistory, RecRow, RecKnownRow, RecAlienRow, RecFill, RecLock,
     RecPending, RecFold, RecSave, RecHolding, RecFlag, RecQuit, RecUnknown, RecClear,
     BrokerFails, StartReconcile, StartOn, StartOff, StartCancel, OnSet, OffOrders, OffMark,
     OffCancelled, OffCheck, OffUnknown, LockStatus, LockRead, LockSave, EmergencyStop
<1>9. CASE UNCHANGED vars
  BY <1>02, <1>9 DEF vars
<1> QED BY <1>02, <1>5, <1>6, <1>7, <1>8, <1>9 DEF Next

(* InformedInv is inductive together with IInv and SoleInv, as long as the *)
(* broker's dates are those of the intents.                                *)
LEMMA NextInformed ==
    ASSUME LateMeansUnknown, IInv, SoleInv, Dated(broker) => InformedInv, [Next]_vars,
           Dated(broker')
    PROVE  InformedInv'
<1>0. Dated(broker) /\ InformedInv
  BY NextRemembers DEF Remembers, Dated
<1>1. CASE UNCHANGED vars
  <2>1. UNCHANGED <<db, broker, clock, proc>>
    BY <1>1 DEF vars
  <2>2. Listed(db', broker', clock')
    BY <1>0, <2>1 DEF InformedInv
  <2>3. \A p \in Procs : Informed(proc'[p], db', broker', clock')
    BY <1>0, <2>1 DEF InformedInv
  <2> QED BY <2>2, <2>3 DEF InformedInv
<1>2. ASSUME NEW p \in Procs, ProcessNext(p) PROVE InformedInv'
  BY <1>0, <1>2, RunInformed, RecInformed, CommandsInformed, CrashInformed DEF ProcessNext
<1> QED BY <1>0, <1>1, <1>2, BrokerInformed DEF Next

(* InformedInv holds at first.                                             *)
LEMMA InitInformed == Init => InformedInv
<1> SUFFICES ASSUME Init PROVE InformedInv
  OBVIOUS
<1>1. broker.orders = <<>> /\ broker.inflight = {}
  BY DEF Init, BrokerInit
<1>2. Len(broker.orders) = 0
  BY <1>1
<1>3. \A n \in OrderNo : ~Recorded(db, n)
  BY DEF Init, StoreInit, Recorded
<1>4. Listed(db, broker, clock)
  BY <1>1, <1>2, <1>3 DEF Listed, NoRepeat
<1>5. PICK d \in Deployments : proc = [p \in Procs |-> IF p \in d.procs THEN Fresh ELSE Absent]
  BY DEF Init, ProcessInit
<1>6. Absent.pc = "absent"
  BY DEF Absent, Fresh
<1>7. \A p \in Procs : Informed(proc[p], db, broker, clock)
  BY <1>1, <1>5, <1>6, FreshInformed, InformedAbsent
<1> QED BY <1>4, <1>7 DEF InformedInv

(* InformedInv is an invariant.                                            *)
LEMMA InformedInvariance ==
    ASSUME OneAtATime, LateMeansUnknown
    PROVE  Spec => [](IInv /\ SoleInv /\ (Dated(broker) => InformedInv))
<1>1. Init => InformedInv
  BY InitInformed
<1>2. IInv /\ SoleInv /\ (Dated(broker) => InformedInv) /\ [Next]_vars
         => (Dated(broker) => InformedInv)'
  BY NextInformed
<1> QED BY <1>1, <1>2, SoleInvariance, PTL DEF Spec

(* reconcile_dbsec before every run: when commands run one at a time, a    *)
(* run of the broker's day sends an order only when every order the broker *)
(* has from this day is recorded.                                          *)
THEOREM NoOrderOverAlien ==
    ASSUME OneAtATime, LateMeansUnknown PROVE Spec => NoOrderOverAlienOrder
<1>1. ASSUME IInv, Dated(broker) => InformedInv, NEW p \in Procs,
             SendsOrder(p), proc[p].day = clock.day, Dated(broker),
             NEW n \in 1..Len(broker.orders), broker.orders[n].day = clock.day
      PROVE  Recorded(db, n)
  <2>1. Informed(proc[p], db, broker, clock) /\ proc[p].pc = "exec_place"
    BY <1>1 DEF InformedInv, SendsOrder, At
  <2>2. proc[p].day \in Nat
    BY <1>1, BoundsAssumption DEF IInv, Locals, Day
  <2>3. n \in Today(proc[p], broker) /\ Current(proc[p], clock)
    BY <1>1, <2>2 DEF Today, Current
  <2> QED BY <2>1, <2>3, InformedSets DEF Informed
<1>2. IInv /\ SoleInv /\ (Dated(broker) => InformedInv) /\ [Next]_vars =>
         [\A p \in Procs :
             SendsOrder(p) /\ proc[p].day = clock.day /\ Dated(broker) =>
                 \A n \in 1..Len(broker.orders) :
                     broker.orders[n].day = clock.day => Recorded(db, n)]_vars
  BY <1>1
<1> QED BY <1>2, InformedInvariance, PTL DEF Spec, NoOrderOverAlienOrder

(* execute_intents with has_order_for_intent: commands that run one at a   *)
(* time, runs the user starts included, send an intent at most once.       *)
THEOREM NoDuplicateOneAtATime ==
    ASSUME OneAtATime, LateMeansUnknown PROVE Spec => []NoDuplicateSubmission
<1>1. (Dated(broker) => InformedInv) => NoDuplicateSubmission
  BY DEF InformedInv, Listed, NoRepeat, NoDuplicateSubmission
<1> QED BY <1>1, InformedInvariance, PTL
-----------------------------------------------------------------------------
(***************************************************************************)
(* Final statuses.  Commands that run one at a time write a status the     *)
(* broker itself will not change any more, and a row fetched earlier never *)
(* overwrites it: between the request for the history and its last row     *)
(* nobody else writes.  When nobody dies, all executions of an order with  *)
(* a final status are stored or still to be added by the process that has  *)
(* their rows in hand (FinalInv).                                          *)
(***************************************************************************)
(* Labels at which rows of the history are left to process.                *)
Reading == {"rec_row", "rec_fill", "rec_lock"}
(* Labels at which the local state is the row of the database.             *)
Copying == Reading \cup {"rec_orders", "rec_history"}

(* An order that is recorded with a final status.                          *)
Closed(d, n) == Recorded(d, n) /\ d.orders[n].status \notin Unresolved

(* An order the broker is done with, reported with status st.              *)
Over(b, n, st) ==
    /\ n \in 1..Len(b.orders)
    /\ ~Working(b.orders[n])
    /\ RowStatus(b.orders[n]) = st

(* get_order finds the row; the executions of an order; and the fills a    *)
(* process is still going to add.                                          *)
Ours(d, row) == Recorded(d, row.order) /\ d.orders[row.order].intent.day = row.day
ExecsOf(b, n) == {f \in 1..Len(b.execs) : b.execs[f].order = n}
ToAdd(l, d) == {row.fill : row \in {r \in l.rows : Ours(d, r)}} \cup {l.fill}

(* A row that was fetched: it says what the database says if that is       *)
(* final; if it is final itself, the broker is done with the order and all *)
(* its executions are there or will be added; rows of one order agree.     *)
RowTrue(row, l, d, b) ==
    /\ Closed(d, row.order) => row.status = d.orders[row.order].status
    /\ row.status \notin Unresolved =>
          /\ Over(b, row.order, row.status)
          /\ Ours(d, row) => ExecsOf(b, row.order) \subseteq d.fills \cup ToAdd(l, d)
    /\ \A r \in l.rows : r.order = row.order => r.status = row.status

(* What a process has fetched of the history.                              *)
Fetched(l, d, b) ==
    /\ l.pc \notin Reading => l.rows = {}
    /\ l.pc # "rec_fill" => l.fill = 0
    /\ l.pc \in Copying => l.state = d.state
    /\ l.pc = "off_mark" => d.orders[l.order].status \in Unresolved
    /\ \A row \in l.rows : RowTrue(row, l, d, b)

(* A final status in the database is the broker's.                         *)
Faithful(d, b) == \A n \in OrderNo : Closed(d, n) => Over(b, n, d.orders[n].status)

(* Every execution of such an order is stored, or will be by process l.    *)
Taken(l, d, b) ==
    \A n \in OrderNo : Closed(d, n) => ExecsOf(b, n) \subseteq d.fills \cup ToAdd(l, d)

(* The invariant of final statuses.  A process that dies with rows in hand *)
(* loses them.                                                             *)
FinalInv ==
    /\ Faithful(db, broker)
    /\ \A p \in Procs : Fetched(proc[p], db, broker)
    /\ ~Crashes => \A p \in Procs : At(p, "absent") \/ Taken(proc[p], db, broker)
    /\ (\A p \in Procs : At(p, "absent")) => \A n \in OrderNo : ~Recorded(db, n)

(* A step of process p keeps FinalInv, and the final statuses.             *)
KeepsClosed(d, d2) == \A n \in OrderNo : Closed(d, n) => d2.orders[n] = d.orders[n]

(* Orders the broker is done with stay as they are and get no executions.  *)
Stays(b, b2) ==
    \A n \in 1..Len(b.orders) :
       /\ n \in 1..Len(b2.orders)
       /\ ~Working(b.orders[n]) =>
             b2.orders[n] = b.orders[n] /\ ExecsOf(b2, n) = ExecsOf(b, n)

(* Orders stay as they are or without a final status.                      *)
OrdersKept(d, d2) ==
    \A n \in OrderNo : \/ d2.orders[n] = d.orders[n]
                       \/ ~Closed(d, n) /\ ~Closed(d2, n)

(* Neither the final statuses, nor the fills, nor the broker's final       *)
(* orders change.                                                          *)
Undisturbed ==
    OrdersKept(db, db') /\ db'.fills = db.fills /\ Stays(broker, broker')

(* An order that is over stays over.                                       *)
LEMMA OverStays ==
    ASSUME NEW b, NEW b2, Stays(b, b2), NEW n, NEW st, Over(b, n, st)
    PROVE  Over(b2, n, st) /\ ExecsOf(b2, n) = ExecsOf(b, n)
BY DEF Stays, Over

(* An account that does not change disturbs nothing.                       *)
LEMMA SameStays == ASSUME broker' = broker PROVE Stays(broker, broker')
BY DEF Stays

(* Nor does a database with the same orders and fills.                     *)
LEMMA SameOrders ==
    ASSUME broker' = broker, db'.orders = db.orders, db'.fills = db.fills
    PROVE  Undisturbed
BY SameStays DEF Undisturbed, OrdersKept

(* Faithful through a step.                                                *)
LEMMA FaithfulKept ==
    ASSUME NEW d, NEW d2, NEW b, NEW b2, Faithful(d, b), OrdersKept(d, d2), Stays(b, b2)
    PROVE  Faithful(d2, b2) /\ KeepsClosed(d, d2)
<1>1. ASSUME NEW n \in OrderNo, Closed(d2, n)
      PROVE  Over(b2, n, d2.orders[n].status)
  <2>1. d2.orders[n] = d.orders[n]
    BY <1>1 DEF OrdersKept
  <2>2. Closed(d, n)
    BY <1>1, <2>1 DEF Closed, Recorded
  <2>3. Over(b, n, d.orders[n].status)
    BY <2>2 DEF Faithful
  <2> QED BY <2>1, <2>3, OverStays
<1>2. KeepsClosed(d, d2)
  BY DEF KeepsClosed, OrdersKept
<1> QED BY <1>1, <1>2 DEF Faithful

(* What was to be added is stored or still to be added.                    *)
Carried(l, d, m, d2) ==
    d.fills \cup ToAdd(l, d) \subseteq {0} \cup d2.fills \cup ToAdd(m, d2)

(* Taken through a step.                                                   *)
LEMMA TakenKept ==
    ASSUME NEW l, NEW m, NEW d, NEW d2, NEW b, NEW b2, Faithful(d, b), Taken(l, d, b),
           OrdersKept(d, d2), Stays(b, b2), Carried(l, d, m, d2)
    PROVE  Taken(m, d2, b2)
<1> SUFFICES ASSUME NEW n \in OrderNo, Closed(d2, n), NEW f \in ExecsOf(b2, n)
             PROVE  f \in d2.fills \cup ToAdd(m, d2)
  BY DEF Taken
<1>1. d2.orders[n] = d.orders[n]
  BY DEF OrdersKept
<1>2. Closed(d, n)
  BY <1>1 DEF Closed, Recorded
<1>3. Over(b, n, d.orders[n].status)
  BY <1>2 DEF Faithful
<1>4. f \in ExecsOf(b, n)
  BY <1>3, OverStays
<1>5. f \in d.fills \cup ToAdd(l, d)
  BY <1>2, <1>4 DEF Taken
<1>6. f # 0
  BY <1>4 DEF ExecsOf
<1> QED BY <1>5, <1>6 DEF Carried

(* A fetched row through a step that leaves the orders alone.              *)
LEMMA RowKept ==
    ASSUME NEW row, NEW l, NEW m, NEW d, NEW d2, NEW b, NEW b2, RowTrue(row, l, d, b),
           d2.orders = d.orders, Stays(b, b2), m.rows \subseteq l.rows, Carried(l, d, m, d2)
    PROVE  RowTrue(row, m, d2, b2)
<1>1. \A n : Closed(d2, n) <=> Closed(d, n)
  BY DEF Closed, Recorded
<1>2. Ours(d2, row) <=> Ours(d, row)
  BY DEF Ours, Recorded
<1>3. ASSUME row.status \notin Unresolved
      PROVE  /\ Over(b2, row.order, row.status)
             /\ Ours(d2, row) => ExecsOf(b2, row.order) \subseteq d2.fills \cup ToAdd(m, d2)
  <2>1. Over(b, row.order, row.status)
    BY <1>3 DEF RowTrue
  <2>2. Over(b2, row.order, row.status) /\ ExecsOf(b2, row.order) = ExecsOf(b, row.order)
    BY <2>1, OverStays
  <2>3. ASSUME Ours(d2, row), NEW f \in ExecsOf(b, row.order)
        PROVE  f \in d2.fills \cup ToAdd(m, d2)
    <3>1. f \in d.fills \cup ToAdd(l, d)
      BY <1>2, <1>3, <2>3 DEF RowTrue
    <3>2. f # 0
      BY <2>3 DEF ExecsOf
    <3> QED BY <3>1, <3>2 DEF Carried
  <2> QED BY <2>2, <2>3
<1>4. \A r \in m.rows : r.order = row.order => r.status = row.status
  BY DEF RowTrue
<1>5. Closed(d2, row.order) => row.status = d2.orders[row.order].status
  BY <1>1 DEF RowTrue
<1> QED BY <1>3, <1>4, <1>5 DEF RowTrue

(* A step of the one process keeps FinalInv if its own part is kept.       *)
LEMMA FinalStep ==
    ASSUME SoleInv, FinalInv, NEW p \in Procs, proc[p].pc # "absent", Others(p),
           proc'[p].pc # "absent", Faithful(db', broker'),
           Fetched(proc'[p], db', broker'),
           ~Crashes => Taken(proc'[p], db', broker')
    PROVE  FinalInv'
<1>1. ASSUME NEW q \in Procs, q # p
      PROVE  proc'[q] = proc[q] /\ proc[q].pc = "absent" /\ Fetched(proc'[q], db', broker')
  <2>1. proc'[q] = proc[q] /\ proc[q].pc = "absent"
    BY <1>1 DEF SoleInv, Alone, At, Others
  <2>2. Fetched(proc[q], db, broker)
    BY DEF FinalInv
  <2>3. "absent" \notin Reading \cup Copying \cup {"rec_fill", "off_mark"}
    BY DEF Reading, Copying
  <2>4. proc[q].rows = {} /\ proc[q].fill = 0
    BY <2>1, <2>2, <2>3 DEF Fetched
  <2>5. Fetched(proc[q], db', broker')
    BY <2>1, <2>3, <2>4 DEF Fetched
  <2> QED BY <2>1, <2>5
<1>2. \A q \in Procs : Fetched(proc'[q], db', broker')
  BY <1>1
<1>3. ~Crashes => \A q \in Procs : proc'[q].pc = "absent" \/ Taken(proc'[q], db', broker')
  BY <1>1
<1> QED BY <1>2, <1>3 DEF FinalInv, At

(* A step outside of the rows of the history.                              *)
Apart(p) ==
    /\ Others(p) /\ Undisturbed
    /\ proc[p].pc \notin Reading \cup {"absent"}
    /\ proc'[p].pc \notin Reading \cup {"absent"}
    /\ proc'[p].rows \in {{}, proc[p].rows} /\ proc'[p].fill \in {0, proc[p].fill}
    /\ proc'[p].pc \in {"rec_orders", "rec_history"} => proc'[p].state = db'.state
    /\ proc'[p].pc = "off_mark" => db'.orders[proc'[p].order].status \in Unresolved

(* Such a step keeps FinalInv and the final statuses.                      *)
LEMMA ApartStep ==
    ASSUME SoleInv, FinalInv, NEW p \in Procs, Apart(p)
    PROVE  FinalInv' /\ KeepsClosed(db, db')
<1>1. Fetched(proc[p], db, broker) /\ Faithful(db, broker)
  BY DEF FinalInv
<1>2. proc[p].rows = {} /\ proc[p].fill = 0
  BY <1>1 DEF Apart, Fetched, Reading
<1>3. proc'[p].rows = {} /\ proc'[p].fill = 0
  BY <1>2 DEF Apart
<1>4. Fetched(proc'[p], db', broker')
  BY <1>3 DEF Apart, Fetched, Copying
<1>5. Faithful(db', broker') /\ KeepsClosed(db, db')
  BY <1>1, FaithfulKept DEF Apart, Undisturbed
<1>6. Carried(proc[p], db, proc'[p], db')
  BY <1>2 DEF Carried, ToAdd, Apart, Undisturbed
<1>7. ~Crashes => Taken(proc'[p], db', broker')
  <2> SUFFICES ASSUME ~Crashes PROVE Taken(proc'[p], db', broker')
    OBVIOUS
  <2>1. Taken(proc[p], db, broker)
    BY DEF FinalInv, Apart, At
  <2>2. OrdersKept(db, db') /\ Stays(broker, broker')
    BY DEF Apart, Undisturbed
  <2> QED BY <1>1, <1>6, <2>1, <2>2, TakenKept
<1> QED BY <1>4, <1>5, <1>7, FinalStep DEF Apart

(* A command that ends outside of the rows.                                *)
LEMMA EndApart ==
    ASSUME IInv, NEW p \in Procs, End(p), proc[p].pc \notin Reading \cup {"absent"},
           Undisturbed
    PROVE  Apart(p)
<1>1. Others(p) /\ proc'[p] = Fresh
  BY DEF IInv, End, Others
<1>2. Fresh.pc = "idle" /\ Fresh.rows = {} /\ Fresh.fill = 0
  BY DEF Fresh
<1> QED BY <1>1, <1>2 DEF Apart, Reading

(* A command that moves on with Keep.                                      *)
LEMMA KeepApart ==
    ASSUME IInv, NEW p \in Procs, NEW label,
           proc' = [proc EXCEPT ![p] = Keep(proc[p], label)],
           proc[p].pc \notin Reading \cup {"absent"},
           label \notin Copying \cup {"absent", "off_mark"}, Undisturbed
    PROVE  Apart(p)
<1>1. Others(p) /\ proc'[p] = Keep(proc[p], label)
  BY DEF IInv, Others
<1>2. /\ Keep(proc[p], label).pc = label /\ Keep(proc[p], label).rows = {}
      /\ Keep(proc[p], label).fill = 0
  BY DEF Keep, Fresh
<1> QED BY <1>1, <1>2 DEF Apart, Copying

(* A command that moves on with its rows, of which it has none.            *)
LEMMA MoveApart ==
    ASSUME NEW p \in Procs, Others(p), proc[p].pc \notin Reading \cup {"absent"},
           proc'[p].pc \notin Copying \cup {"absent", "off_mark"},
           proc'[p].rows = proc[p].rows, proc'[p].fill = proc[p].fill, Undisturbed
    PROVE  Apart(p)
BY DEF Apart, Copying

(* A broker error.                                                         *)
LEMMA BrokerFailsApart ==
    ASSUME IInv, NEW p \in Procs, BrokerFails(p), proc[p].pc \notin Reading \cup {"absent"}
    PROVE  Apart(p)
<1>1. Undisturbed /\ "lock_status" \notin Copying \cup {"absent", "off_mark"}
  BY SameOrders DEF BrokerFails, Copying, Reading
<1> QED BY <1>1, EndApart, KeepApart DEF BrokerFails, Enter

(* The caller of a reconciliation goes on.                                 *)
LEMMA ResumeApart ==
    ASSUME IInv, NEW p \in Procs, NEW required, Resume(p, required),
           proc[p].pc \notin Reading \cup {"absent"}, Undisturbed
    PROVE  Apart(p)
<1>1. PICK m : /\ proc' = [proc EXCEPT ![p] = m]
               /\ m = CASE proc[p].cmd \in {"run", "tick"} /\ ~proc[p].submitted /\ ~required
                                                    -> Keep(proc[p], "plan_read")
                        [] proc[p].cmd = "on" /\ ~required -> Keep(proc[p], "on_set")
                        [] proc[p].cmd = "off" -> Keep(proc[p], IF required THEN "lock_status"
                                                                            ELSE "off_check")
                        [] OTHER -> Fresh
  BY DEF Resume
<1>2. \/ m = Fresh
      \/ \E label \in {"plan_read", "on_set", "lock_status", "off_check"} :
            m = Keep(proc[p], label)
  BY <1>1
<1>3. CASE m = Fresh
  BY <1>1, <1>3, EndApart DEF End
<1>4. ASSUME NEW label \in {"plan_read", "on_set", "lock_status", "off_check"},
             m = Keep(proc[p], label)
      PROVE  Apart(p)
  <2>1. label \notin Copying \cup {"absent", "off_mark"}
    BY DEF Copying, Reading
  <2> QED BY <1>1, <1>4, <2>1, KeepApart
<1> QED BY <1>2, <1>3, <1>4

(* The steps of reconcile_dbsec before and after the rows.                 *)
LEMMA RecApart ==
    ASSUME IInv, FinalInv, NEW p \in Procs,
           \/ RecState(p) \/ RecOrders(p) \/ RecFold(p) \/ RecSave(p) \/ RecHolding(p)
           \/ RecFlag(p) \/ RecQuit(p) \/ RecUnknown(p) \/ RecClear(p)
    PROVE  Apart(p)
<1>0. /\ proc \in [Procs -> Locals] /\ proc[p] \in Locals /\ db \in Database
      /\ Fetched(proc[p], db, broker)
  BY DEF IInv, BooksOK, FinalInv
<1>01. UNCHANGED <<db, broker, clock>> => Undisturbed
  BY SameOrders
<1>02. Copying = {"rec_row", "rec_fill", "rec_lock", "rec_orders", "rec_history"}
       /\ Reading = {"rec_row", "rec_fill", "rec_lock"}
  BY DEF Copying, Reading
<1>03. \A s : db' = SaveState(db, s) => db'.orders = db.orders /\ db'.fills = db.fills
  BY <1>0 DEF SaveState, Database
<1>1. CASE RecState(p)
  <2>1. /\ Others(p) /\ proc[p].pc = "rec_state" /\ proc'[p].pc = "rec_orders"
        /\ proc'[p].rows = proc[p].rows /\ proc'[p].fill = proc[p].fill
        /\ proc'[p].state = db.state
    BY <1>0, <1>1 DEF RecState, At, Locals, Others
  <2> QED BY <1>01, <1>02, <1>1, <2>1 DEF RecState, Apart
<1>2. CASE RecOrders(p)
  <2>1. PICK from : proc' = [proc EXCEPT ![p].from = from, ![p].pc = "rec_history"]
    BY <1>2 DEF RecOrders
  <2>2. /\ Others(p) /\ proc[p].pc = "rec_orders" /\ proc'[p].pc = "rec_history"
        /\ proc'[p].rows = proc[p].rows /\ proc'[p].fill = proc[p].fill
        /\ proc'[p].state = proc[p].state
    BY <1>0, <1>2, <2>1 DEF RecOrders, At, Locals, Others
  <2>3. proc[p].state = db.state
    BY <1>0, <1>02, <2>2 DEF Fetched
  <2> QED BY <1>01, <1>02, <1>2, <2>2, <2>3 DEF RecOrders, Apart
<1>3. CASE RecFold(p)
  <2>0. proc[p].pc = "rec_apply" /\ Undisturbed
    BY <1>3, <1>01 DEF RecFold, At
  <2>1. CASE End(p)
    BY <1>02, <2>0, <2>1, EndApart
  <2>2. CASE ~End(p)
    <3>1. PICK f, s : proc' = [proc EXCEPT ![p].state = s, ![p].pend = @ \ {f},
                                           ![p].done = @ \cup {f}]
      BY <1>3, <2>2 DEF RecFold
    <3>2. /\ Others(p) /\ proc'[p].pc = "rec_apply"
          /\ proc'[p].rows = proc[p].rows /\ proc'[p].fill = proc[p].fill
      BY <1>0, <2>0, <3>1 DEF Locals, Others
    <3> QED BY <1>02, <2>0, <3>2, MoveApart
  <2> QED BY <2>1, <2>2
<1>4. CASE RecSave(p)
  <2>0. proc[p].pc = "rec_apply" /\ UNCHANGED <<broker, clock>>
    BY <1>4 DEF RecSave, At
  <2>1. CASE CanSave(db, proc[p].base)
    <3>1. /\ Others(p) /\ proc'[p].pc = "rec_holding"
          /\ proc'[p].rows = proc[p].rows /\ proc'[p].fill = proc[p].fill
      BY <1>0, <1>4, <2>1 DEF RecSave, Locals, Others
    <3>2. db'.orders = db.orders /\ db'.fills = db.fills
      BY <1>0, <1>4, <2>1 DEF RecSave, SaveReconciledState, Database
    <3> QED BY <1>02, <2>0, <3>1, <3>2, SameOrders, MoveApart
  <2>2. CASE ~CanSave(db, proc[p].base)
    BY <1>4, <1>01, <1>02, <2>0, <2>2, EndApart DEF RecSave
  <2> QED BY <2>1, <2>2
<1>5. CASE RecHolding(p)
  <2>0. proc[p].pc = "rec_holding"
    BY <1>5 DEF RecHolding, At
  <2>1. CASE BrokerFails(p)
    BY <1>02, <2>0, <2>1, BrokerFailsApart
  <2>2. CASE ~BrokerFails(p)
    <3>1. PICK label \in {"rec_unknown", "rec_quit", "rec_flag"} :
             Goto(p, label) /\ UNCHANGED <<db, broker, clock>>
      BY <1>5, <2>2 DEF RecHolding
    <3>2. /\ Others(p) /\ proc'[p].pc = label
          /\ proc'[p].rows = proc[p].rows /\ proc'[p].fill = proc[p].fill
      BY <1>0, <3>1 DEF Goto, Locals, Others
    <3> QED BY <1>01, <1>02, <2>0, <3>1, <3>2, MoveApart
  <2> QED BY <2>1, <2>2
<1>6. CASE RecFlag(p)
  <2>0. proc[p].pc = "rec_flag"
    BY <1>6 DEF RecFlag, At
  <2>1. PICK s, expected : SaveOrAbort(p, s, expected, "rec_quit")
    BY <1>6 DEF RecFlag
  <2>2. CASE CanSave(db, expected)
    <3>1. /\ proc' = [proc EXCEPT ![p].pc = "rec_quit", ![p].state = s]
          /\ db' = SaveState(db, s) /\ UNCHANGED <<broker, clock>>
      BY <2>1, <2>2 DEF SaveOrAbort
    <3>2. /\ Others(p) /\ proc'[p].pc = "rec_quit"
          /\ proc'[p].rows = proc[p].rows /\ proc'[p].fill = proc[p].fill
      BY <1>0, <3>1 DEF Locals, Others
    <3>3. Undisturbed
      BY <1>03, <3>1, SameOrders
    <3> QED BY <1>02, <2>0, <3>2, <3>3, MoveApart
  <2>3. CASE ~CanSave(db, expected)
    BY <1>01, <1>02, <2>0, <2>1, <2>3, EndApart DEF SaveOrAbort
  <2> QED BY <2>2, <2>3
<1>7. CASE RecQuit(p)
  <2>1. db'.orders = db.orders /\ db'.fills = db.fills
    BY <1>0, <1>7 DEF RecQuit, SetProfileStatus, Database
  <2>2. proc[p].pc = "rec_quit" /\ Resume(p, TRUE) /\ broker' = broker
    BY <1>7 DEF RecQuit, At
  <2> QED BY <1>02, <2>1, <2>2, SameOrders, ResumeApart
<1>8. CASE RecUnknown(p)
  <2>0. proc[p].pc = "rec_unknown" /\ Undisturbed
    BY <1>8, <1>01 DEF RecUnknown, At
  <2>1. CASE Goto(p, "rec_clear")
    <3>1. /\ Others(p) /\ proc'[p].pc = "rec_clear"
          /\ proc'[p].rows = proc[p].rows /\ proc'[p].fill = proc[p].fill
      BY <1>0, <2>1 DEF Goto, Locals, Others
    <3> QED BY <1>02, <2>0, <3>1, MoveApart
  <2>2. CASE Resume(p, proc[p].state.required)
    BY <1>02, <2>0, <2>2, ResumeApart
  <2> QED BY <1>8, <2>1, <2>2 DEF RecUnknown
<1>9. CASE RecClear(p)
  <2>0. proc[p].pc = "rec_clear" /\ UNCHANGED <<broker, clock>>
    BY <1>9 DEF RecClear, At
  <2>1. CASE CanSave(db, proc[p].state.version)
    <3>1. db' = SaveState(db, Flag(proc[p].state, FALSE)) /\ Resume(p, FALSE)
      BY <1>9, <2>1 DEF RecClear
    <3> QED BY <1>02, <1>03, <2>0, <3>1, SameOrders, ResumeApart
  <2>2. CASE ~CanSave(db, proc[p].state.version)
    BY <1>9, <1>01, <1>02, <2>0, <2>2, EndApart DEF RecClear
  <2> QED BY <2>1, <2>2
<1> QED BY <1>1, <1>2, <1>3, <1>4, <1>5, <1>6, <1>7, <1>8, <1>9

(* A command that starts has no rows.                                      *)
LEMMA StartApart ==
    ASSUME IInv, NEW p \in Procs, proc[p].pc = "idle", NEW m,
           proc' = [proc EXCEPT ![p] = m], m.rows = {}, m.fill = 0,
           m.pc \in {"claim", "profile", "rec_state", "off_orders", "off_cancel"},
           Undisturbed
    PROVE  Apart(p)
<1>1. Others(p) /\ proc'[p] = m
  BY DEF IInv, Others
<1> QED BY <1>1 DEF Apart, Reading

(* An order the broker still works on is cancelled, executed or closed:    *)
(* no other order changes.                                                 *)
LEMMA ReplaceStays ==
    ASSUME broker \in Account, NEW n, NEW o, n \in 1..Len(broker.orders) => Working(broker.orders[n]),
           broker'.orders = [broker.orders EXCEPT ![n] = o], broker'.execs = broker.execs
    PROVE  Stays(broker, broker')
<1>1. broker.orders \in Seq(BrokerOrder)
  BY DEF Account
<1>2. DOMAIN broker.orders = 1..Len(broker.orders) /\ Len(broker'.orders) = Len(broker.orders)
  BY <1>1
<1>3. \A m \in 1..Len(broker.orders) : m # n => broker'.orders[m] = broker.orders[m]
  BY <1>2
<1>4. \A m : ExecsOf(broker', m) = ExecsOf(broker, m)
  BY DEF ExecsOf
<1> QED BY <1>2, <1>3, <1>4 DEF Stays

(* An order that is accepted changes no other order.                       *)
LEMMA AcceptedStays ==
    ASSUME broker \in Account, NEW i, broker'.orders = Append(broker.orders, NewOrder(i)),
           broker'.execs = broker.execs
    PROVE  Stays(broker, broker')
<1>1. /\ Len(broker.orders) \in Nat /\ Len(broker'.orders) = Len(broker.orders) + 1
      /\ \A n \in 1..Len(broker.orders) : broker'.orders[n] = broker.orders[n]
  BY AcceptedBook
<1>2. \A m : ExecsOf(broker', m) = ExecsOf(broker, m)
  BY DEF ExecsOf
<1> QED BY <1>1, <1>2 DEF Stays

(* The steps of the other commands.                                        *)
LEMMA CommandsApart ==
    ASSUME IInv, FinalInv, NEW p \in Procs, CommandStep(p)
    PROVE  Apart(p)
<1>0. /\ proc \in [Procs -> Locals] /\ proc[p] \in Locals /\ db \in Database
      /\ broker \in Account /\ broker.orders \in Seq(BrokerOrder)
      /\ Fetched(proc[p], db, broker) /\ Faithful(db, broker)
      /\ LocalInv(proc[p], db, broker)
  BY DEF IInv, BooksOK, FinalInv, Account
<1>01. UNCHANGED <<db, broker, clock>> => Undisturbed
  BY SameOrders
<1>02. Copying = {"rec_row", "rec_fill", "rec_lock", "rec_orders", "rec_history"}
       /\ Reading = {"rec_row", "rec_fill", "rec_lock"}
  BY DEF Copying, Reading
<1>03. \A s : db' = SaveState(db, s) => db'.orders = db.orders /\ db'.fills = db.fills
  BY <1>0 DEF SaveState, Database
<1>04. \A st : db' = SetProfileStatus(db, st) => db'.orders = db.orders /\ db'.fills = db.fills
  BY <1>0 DEF SetProfileStatus, Database
<1>1. CASE StartReconcile(p)
  <2>1. PICK day, m : /\ m = Started("reconcile", "SELL", day, "rec_state")
                      /\ proc' = [proc EXCEPT ![p] = m]
    BY <1>1 DEF StartReconcile
  <2>2. m.pc = "rec_state" /\ m.rows = {} /\ m.fill = 0
    BY <2>1 DEF Started, Fresh
  <2>3. proc[p].pc = "idle" /\ proc' = [proc EXCEPT ![p] = m] /\ Undisturbed
    BY <1>01, <1>1, <2>1 DEF StartReconcile, MayStart, At
  <2> QED BY <2>2, <2>3, StartApart
<1>2. CASE StartOn(p)
  <2>1. PICK day, m : /\ m = Started("on", "SELL", day, "rec_state")
                      /\ proc' = [proc EXCEPT ![p] = m]
    BY <1>2 DEF StartOn
  <2>2. m.pc = "rec_state" /\ m.rows = {} /\ m.fill = 0
    BY <2>1 DEF Started, Fresh
  <2>3. proc[p].pc = "idle" /\ proc' = [proc EXCEPT ![p] = m] /\ Undisturbed
    BY <1>01, <1>2, <2>1 DEF StartOn, MayStart, At
  <2> QED BY <2>2, <2>3, StartApart
<1>3. CASE StartOff(p)
  <2>1. PICK day, m : /\ m = Started("off", "SELL", day, "off_orders")
                      /\ proc' = [proc EXCEPT ![p] = m]
    BY <1>3 DEF StartOff
  <2>2. m.pc = "off_orders" /\ m.rows = {} /\ m.fill = 0
    BY <2>1 DEF Started, Fresh
  <2>3. proc[p].pc = "idle" /\ proc' = [proc EXCEPT ![p] = m] /\ broker' = broker
        /\ db' = SetProfileStatus(db, "OFF")
    BY <1>3, <2>1 DEF StartOff, MayStart, At
  <2> QED BY <1>04, <2>2, <2>3, SameOrders, StartApart
<1>4. CASE StartCancel(p)
  <2>1. PICK n, m : /\ m = [Started("cancel", "SELL", clock.day, "off_cancel")
                               EXCEPT !.cancel = {n}]
                    /\ proc' = [proc EXCEPT ![p] = m]
    BY <1>4 DEF StartCancel
  <2>2. m.pc = "off_cancel" /\ m.rows = {} /\ m.fill = 0
    BY <2>1 DEF Started, Fresh
  <2>3. proc[p].pc = "idle" /\ Undisturbed
    BY <1>01, <1>4 DEF StartCancel, MayStart, At
  <2> QED BY <2>1, <2>2, <2>3, StartApart
<1>5. CASE OnSet(p)
  <2>1. proc[p].pc = "on_set" /\ End(p) /\ broker' = broker
        /\ (db' = SetProfileStatus(db, "ON") \/ db' = db)
    BY <1>5 DEF OnSet, At
  <2> QED BY <1>02, <1>04, <2>1, SameOrders, EndApart
<1>6. CASE OffOrders(p)
  <2>1. PICK cancel, label : /\ proc' = [proc EXCEPT ![p].cancel = cancel, ![p].pc = label]
                             /\ label \in {"off_unknown", "off_cancel"}
    BY <1>6 DEF OffOrders
  <2>2. /\ Others(p) /\ proc[p].pc = "off_orders" /\ proc'[p].pc \in {"off_unknown", "off_cancel"}
        /\ proc'[p].rows = proc[p].rows /\ proc'[p].fill = proc[p].fill
    BY <1>0, <1>6, <2>1 DEF OffOrders, At, Locals, Others
  <2>3. Undisturbed
    BY <1>01, <1>6 DEF OffOrders
  <2> QED BY <1>02, <2>2, <2>3, MoveApart
<1>7. CASE OffCancel(p)
  <2>0. proc[p].pc = "off_cancel" /\ db' = db
    BY <1>7 DEF OffCancel, At
  <2>1. PICK n \in proc[p].cancel :
           \/ /\ Working(broker.orders[n])
              /\ broker' = [broker EXCEPT !.orders[n].cancelling = TRUE]
              /\ \/ \E cancel : proc' = [proc EXCEPT ![p].cancel = cancel, ![p].order = n,
                                                     ![p].pc = "off_mark"]
                 \/ CancelFails(p)
           \/ CancelFails(p) /\ UNCHANGED broker
    BY <1>7 DEF OffCancel
  <2>2. Stays(broker, broker')
    <3>1. CASE broker' = [broker EXCEPT !.orders[n].cancelling = TRUE] /\ Working(broker.orders[n])
      <4>1. PICK e : e = [broker.orders[n] EXCEPT !.cancelling = TRUE]
        OBVIOUS
      <4>2. broker'.orders = [broker.orders EXCEPT ![n] = e] /\ broker'.execs = broker.execs
        BY <1>0, <3>1, <4>1 DEF Account
      <4> QED BY <1>0, <3>1, <4>2, ReplaceStays
    <3> QED BY <2>1, <3>1, SameStays
  <2>3. Undisturbed
    BY <2>0, <2>2 DEF Undisturbed, OrdersKept
  <2>4. CASE CancelFails(p)
    <3>1. "lock_status" \notin Copying \cup {"absent", "off_mark"}
      BY <1>02
    <3> QED BY <1>02, <2>0, <2>3, <2>4, <3>1, EndApart, KeepApart DEF CancelFails, Enter
  <2>5. ASSUME NEW cancel, Working(broker.orders[n]),
               proc' = [proc EXCEPT ![p].cancel = cancel, ![p].order = n, ![p].pc = "off_mark"]
        PROVE  Apart(p)
    <3>1. /\ Others(p) /\ proc'[p].pc = "off_mark" /\ proc'[p].order = n
          /\ proc'[p].rows = proc[p].rows /\ proc'[p].fill = proc[p].fill
      BY <1>0, <2>5 DEF Locals, Others
    <3>2. n \in OrderNo /\ Recorded(db, n)
      BY <1>0 DEF LocalInv, Grounded, Locals
    <3>3. ~Closed(db, n)
      BY <1>0, <2>5, <3>2 DEF Faithful, Over
    <3>4. db'.orders[n].status \in Unresolved
      BY <2>0, <3>2, <3>3 DEF Closed
    <3> QED BY <1>02, <2>0, <2>3, <3>1, <3>4 DEF Apart
  <2> QED BY <2>1, <2>4, <2>5
<1>8. CASE OffMark(p)
  <2>0. /\ proc[p].pc = "off_mark" /\ broker' = broker
        /\ db' = UpdateOrderStatus(db, proc[p].order, "CANCEL_REQUESTED")
    BY <1>8 DEF OffMark, At
  <2>1. PICK n : n = proc[p].order
    OBVIOUS
  <2>2. n \in OrderNo /\ Recorded(db, n) /\ db.orders[n].status \in Unresolved
    BY <1>0, <2>0, <2>1 DEF LocalInv, Grounded, Fetched
  <2>3. PICK row : row = [db.orders[n] EXCEPT !.status = "CANCEL_REQUESTED"]
    OBVIOUS
  <2>4. db'.orders = [db.orders EXCEPT ![n] = row] /\ db'.fills = db.fills
    BY <1>0, <2>0, <2>1, <2>3 DEF UpdateOrderStatus, Database
  <2>5. db.orders[n] \in OrderRow
    BY <1>0, <2>2 DEF Database, Recorded
  <2>6. row.status \in Unresolved
    BY <2>3, <2>5 DEF OrderRow, Unresolved
  <2>7. OrdersKept(db, db')
    BY <1>0, <2>2, <2>4, <2>6 DEF OrdersKept, Closed, Database
  <2>8. Undisturbed
    BY <2>0, <2>4, <2>7, SameStays DEF Undisturbed
  <2>9. CASE End(p)
    BY <1>02, <2>0, <2>8, <2>9, EndApart
  <2>10. CASE Goto(p, "off_cancel")
    <3>1. /\ Others(p) /\ proc'[p].pc = "off_cancel"
          /\ proc'[p].rows = proc[p].rows /\ proc'[p].fill = proc[p].fill
      BY <1>0, <2>10 DEF Goto, Locals, Others
    <3> QED BY <1>02, <2>0, <2>8, <3>1, MoveApart
  <2> QED BY <1>8, <2>9, <2>10 DEF OffMark
<1>9. CASE OffCancelled(p)
  <2>1. proc[p].pc = "off_cancel" /\ proc' = [proc EXCEPT ![p] = Keep(proc[p], "rec_state")]
        /\ Undisturbed
    BY <1>01, <1>9 DEF OffCancelled, Enter, At
  <2>2. "rec_state" \notin Copying \cup {"absent", "off_mark"}
    BY <1>02
  <2> QED BY <1>02, <2>1, <2>2, KeepApart
<1>10. CASE OffCheck(p)
  <2>1. PICK label \in {"off_unknown", "lock_status"} : Goto(p, label)
    BY <1>10 DEF OffCheck
  <2>2. /\ Others(p) /\ proc[p].pc = "off_check" /\ proc'[p].pc = label
        /\ proc'[p].rows = proc[p].rows /\ proc'[p].fill = proc[p].fill
    BY <1>0, <1>10, <2>1 DEF OffCheck, Goto, At, Locals, Others
  <2> QED BY <1>01, <1>02, <1>10, <2>2, MoveApart DEF OffCheck
<1>11. CASE OffUnknown(p)
  <2>1. proc[p].pc = "off_unknown" /\ End(p) /\ broker' = broker
        /\ (db' = SetProfileStatus(db, "LOCKED") \/ db' = db)
    BY <1>11 DEF OffUnknown, At
  <2> QED BY <1>02, <1>04, <2>1, SameOrders, EndApart
<1>12. CASE LockStatus(p)
  <2>1. /\ Others(p) /\ proc[p].pc = "lock_status" /\ proc'[p].pc = "lock_read"
        /\ proc'[p].rows = proc[p].rows /\ proc'[p].fill = proc[p].fill
        /\ broker' = broker /\ db' = SetProfileStatus(db, "LOCKED")
    BY <1>0, <1>12 DEF LockStatus, Goto, At, Locals, Others
  <2> QED BY <1>02, <1>04, <2>1, SameOrders, MoveApart
<1>13. CASE LockRead(p)
  <2>0. proc[p].pc = "lock_read" /\ Undisturbed
    BY <1>01, <1>13 DEF LockRead, At
  <2>1. CASE End(p)
    BY <1>02, <2>0, <2>1, EndApart
  <2>2. CASE ~End(p)
    <3>1. /\ Others(p) /\ proc'[p].pc = "lock_save"
          /\ proc'[p].rows = proc[p].rows /\ proc'[p].fill = proc[p].fill
      BY <1>0, <1>13, <2>2 DEF LockRead, Locals, Others
    <3> QED BY <1>02, <2>0, <3>1, MoveApart
  <2> QED BY <2>1, <2>2
<1>14. CASE LockSave(p)
  <2>1. proc[p].pc = "lock_save" /\ End(p) /\ broker' = broker
    BY <1>14 DEF LockSave, At
  <2>2. db' = db \/ \E s : db' = SaveState(db, s)
    BY <1>14 DEF LockSave
  <2> QED BY <1>02, <1>03, <2>1, <2>2, SameOrders, EndApart
<1>15. CASE EmergencyStop(p)
  <2>1. /\ proc' = proc /\ proc[p].pc = "idle" /\ broker' = broker
        /\ db'.orders = db.orders /\ db'.fills = db.fills
    BY <1>0, <1>15 DEF EmergencyStop, SetEmergency, Database, At
  <2>2. Undisturbed
    BY <2>1, SameOrders
  <2> QED BY <1>02, <2>1, <2>2 DEF Apart, Others
<1> QED BY <1>1, <1>2, <1>3, <1>4, <1>5, <1>6, <1>7, <1>8, <1>9, <1>10, <1>11,
           <1>12, <1>13, <1>14, <1>15 DEF CommandStep

(* The steps of _run_phase.                                                *)
LEMMA RunApart ==
    ASSUME IInv, FinalInv, NEW p \in Procs, RunStep(p)
    PROVE  Apart(p)
<1>0. /\ proc \in [Procs -> Locals] /\ proc[p] \in Locals /\ db \in Database
      /\ broker \in Account
  BY DEF IInv, BooksOK
<1>01. UNCHANGED <<db, broker, clock>> => Undisturbed
  BY SameOrders
<1>02. Copying = {"rec_row", "rec_fill", "rec_lock", "rec_orders", "rec_history"}
       /\ Reading = {"rec_row", "rec_fill", "rec_lock"}
  BY DEF Copying, Reading
<1>1. ASSUME NEW phase, StartRun(p, phase) PROVE Apart(p)
  <2>1. PICK day, m : /\ m = Started("run", phase, day, "profile")
                      /\ proc' = [proc EXCEPT ![p] = m]
    BY <1>1 DEF StartRun
  <2>2. m.pc = "profile" /\ m.rows = {} /\ m.fill = 0
    BY <2>1 DEF Started, Fresh
  <2>3. proc[p].pc = "idle" /\ proc' = [proc EXCEPT ![p] = m] /\ Undisturbed
    BY <1>01, <1>1, <2>1 DEF StartRun, MayStart, At
  <2> QED BY <2>2, <2>3, StartApart
<1>2. CASE StartTick(p)
  <2>1. PICK m : m = Started("tick", clock.window, clock.day, "claim")
    OBVIOUS
  <2>2. m.pc = "claim" /\ m.rows = {} /\ m.fill = 0
    BY <2>1 DEF Started, Fresh
  <2>3. proc[p].pc = "idle" /\ proc' = [proc EXCEPT ![p] = m] /\ Undisturbed
    BY <1>01, <1>2, <2>1 DEF StartTick, MayStart, At
  <2> QED BY <2>2, <2>3, StartApart
<1>3. CASE Claim(p)
  <2>0. proc[p].pc = "claim" /\ broker' = broker
    BY <1>3 DEF Claim, At
  <2>1. db'.orders = db.orders /\ db'.fills = db.fills
    BY <1>0, <1>3 DEF Claim, ClaimAutomation, Database
  <2>2. Undisturbed
    BY <2>0, <2>1, SameOrders
  <2>3. CASE End(p)
    BY <1>02, <2>0, <2>2, <2>3, EndApart
  <2>4. CASE Goto(p, "profile")
    <3>1. /\ Others(p) /\ proc'[p].pc = "profile"
          /\ proc'[p].rows = proc[p].rows /\ proc'[p].fill = proc[p].fill
      BY <1>0, <2>4 DEF Goto, Others, Locals
    <3> QED BY <1>02, <2>0, <2>2, <3>1, MoveApart
  <2> QED BY <1>3, <2>3, <2>4 DEF Claim
<1>4. CASE ReadProfile(p)
  <2>0. proc[p].pc = "profile" /\ Undisturbed
    BY <1>01, <1>4 DEF ReadProfile, At
  <2>1. PICK on : proc' = [proc EXCEPT ![p].on = on, ![p].pc = "rec_state"]
    BY <1>4 DEF ReadProfile
  <2>2. /\ Others(p) /\ proc'[p].pc = "rec_state"
        /\ proc'[p].rows = proc[p].rows /\ proc'[p].fill = proc[p].fill
    BY <1>0, <2>1 DEF Locals, Others
  <2> QED BY <1>02, <2>0, <2>2, MoveApart
<1>5. CASE PlanRead(p)
  <2>0. proc[p].pc = "plan_read" /\ Undisturbed
    BY <1>01, <1>5 DEF PlanRead, Abort, At
  <2>1. CASE End(p)
    BY <1>02, <2>0, <2>1, EndApart
  <2>2. CASE ~End(p)
    <3>1. PICK s : s = Prepared(db.state, proc[p].day)
      OBVIOUS
    <3>2. PICK todo, label :
             /\ proc' = [proc EXCEPT ![p].state = s, ![p].base = db.state.version,
                                     ![p].todo = todo, ![p].pc = label]
             /\ label \in {"plan_record", "plan_save"}
      BY <1>5, <2>2, <3>1 DEF PlanRead, Abort
    <3>3. /\ Others(p) /\ proc'[p].pc \in {"plan_record", "plan_save"}
          /\ proc'[p].rows = proc[p].rows /\ proc'[p].fill = proc[p].fill
      BY <1>0, <3>2 DEF Locals, Others
    <3> QED BY <1>02, <2>0, <3>3, MoveApart
  <2> QED BY <2>1, <2>2
<1>6. CASE PlanSave(p)
  <2>0. proc[p].pc = "plan_save"
    BY <1>6 DEF PlanSave, At
  <2>1. PICK s, base : SaveOrAbort(p, s, base, "plan_record")
    BY <1>6 DEF PlanSave
  <2>2. CASE CanSave(db, base)
    <3>1. /\ proc' = [proc EXCEPT ![p].pc = "plan_record", ![p].state = s]
          /\ db' = SaveState(db, s) /\ broker' = broker
      BY <2>1, <2>2 DEF SaveOrAbort
    <3>2. /\ Others(p) /\ proc'[p].pc = "plan_record"
          /\ proc'[p].rows = proc[p].rows /\ proc'[p].fill = proc[p].fill
      BY <1>0, <3>1 DEF Locals, Others
    <3>3. db'.orders = db.orders /\ db'.fills = db.fills
      BY <1>0, <3>1 DEF SaveState, Database
    <3>4. Undisturbed
      BY <3>1, <3>3, SameOrders
    <3> QED BY <1>02, <2>0, <3>2, <3>4, MoveApart
  <2>3. CASE ~CanSave(db, base)
    <3>1. End(p) /\ Undisturbed
      BY <1>01, <2>1, <2>3 DEF SaveOrAbort
    <3> QED BY <1>02, <2>0, <3>1, EndApart
  <2> QED BY <2>2, <2>3
<1>7. CASE PlanRecord(p)
  <2>1. /\ proc[p].pc = "plan_record" /\ broker' = broker
        /\ proc' = [proc EXCEPT ![p] = Keep(proc[p], "exec_pending")]
    BY <1>7 DEF PlanRecord, At, Enter
  <2>2. db'.orders = db.orders /\ db'.fills = db.fills
    BY <1>0, <1>7 DEF PlanRecord, RecordDecision, Database
  <2>3. Undisturbed /\ "exec_pending" \notin Copying \cup {"absent", "off_mark"}
    BY <1>02, <2>1, <2>2, SameOrders
  <2> QED BY <1>02, <2>1, <2>3, KeepApart
<1>8. CASE ExecPending(p)
  <2>0. proc[p].pc = "exec_pending" /\ Undisturbed
    BY <1>01, <1>8 DEF ExecPending, At
  <2>1. PICK todo : proc' = [proc EXCEPT ![p].todo = todo, ![p].pc = "exec_gate"]
    BY <1>8 DEF ExecPending
  <2>2. /\ Others(p) /\ proc'[p].pc = "exec_gate"
        /\ proc'[p].rows = proc[p].rows /\ proc'[p].fill = proc[p].fill
    BY <1>0, <2>1 DEF Locals, Others
  <2> QED BY <1>02, <2>0, <2>2, MoveApart
<1>9. CASE ExecGate(p)
  <2>0. proc[p].pc = "exec_gate" /\ Undisturbed
    BY <1>01, <1>9 DEF ExecGate, At
  <2>1. CASE End(p)
    BY <1>02, <2>0, <2>1, EndApart
  <2>2. CASE Goto(p, "exec_check")
    <3>1. /\ Others(p) /\ proc'[p].pc = "exec_check"
          /\ proc'[p].rows = proc[p].rows /\ proc'[p].fill = proc[p].fill
      BY <1>0, <2>2 DEF Goto, Locals, Others
    <3> QED BY <1>02, <2>0, <3>1, MoveApart
  <2> QED BY <1>9, <2>1, <2>2 DEF ExecGate
<1>10. CASE ExecCheck(p)
  <2>0. proc[p].pc = "exec_check" /\ Undisturbed
    BY <1>01, <1>10 DEF ExecCheck, At
  <2>1. CASE End(p)
    BY <1>02, <2>0, <2>1, EndApart
  <2>2. CASE ~End(p)
    <3>1. PICK i, intent, label :
           /\ proc' = [proc EXCEPT ![p].todo = @ \ {i}, ![p].intent = intent, ![p].pc = label]
           /\ label \in {"exec_check", "exec_place"}
      BY <1>10, <2>2 DEF ExecCheck
    <3>2. /\ Others(p) /\ proc'[p].pc \in {"exec_check", "exec_place"}
          /\ proc'[p].rows = proc[p].rows /\ proc'[p].fill = proc[p].fill
      BY <1>0, <3>1 DEF Locals, Others
    <3> QED BY <1>02, <2>0, <3>2, MoveApart
  <2> QED BY <2>1, <2>2
<1>11. CASE ExecPlace(p)
  <2>0. proc[p].pc = "exec_place" /\ db' = db
    BY <1>11 DEF ExecPlace, At
  <2>1. PICK i : i = proc[p].intent
    OBVIOUS
  <2>2. \/ broker' = Accepted(broker, i)
        \/ broker' = [broker EXCEPT !.inflight = @ \cup {i}]
        \/ broker' = broker
    BY <1>11, <2>1, PlaceOutcomes
  <2>3. ASSUME broker' = Accepted(broker, i) PROVE Stays(broker, broker')
    <3>1. broker'.orders = Append(broker.orders, NewOrder(i)) /\ broker'.execs = broker.execs
      BY <1>0, <2>3 DEF Accepted, Account
    <3> QED BY <1>0, <3>1, AcceptedStays
  <2>4. ASSUME broker' = [broker EXCEPT !.inflight = @ \cup {i}] PROVE Stays(broker, broker')
    <3>1. broker'.orders = broker.orders /\ broker'.execs = broker.execs
      BY <1>0, <2>4 DEF Account
    <3> QED BY <3>1 DEF Stays, ExecsOf
  <2>5. Stays(broker, broker')
    BY <2>2, <2>3, <2>4, SameStays
  <2>6. Undisturbed
    BY <2>0, <2>5 DEF Undisturbed, OrdersKept
  <2>7. CASE End(p)
    BY <1>02, <2>0, <2>6, <2>7, EndApart
  <2>8. CASE ~End(p)
    <3>1. PICK n : n = Len(broker.orders) + 1
      OBVIOUS
    <3>2. \/ proc' = [proc EXCEPT ![p].order = n, ![p].pc = "exec_record"]
          \/ proc' = [proc EXCEPT ![p].pc = "exec_unknown"]
      BY <1>11, <2>8, <3>1, PlaceOutcomes
    <3>3. /\ Others(p) /\ proc'[p].pc \in {"exec_record", "exec_unknown"}
          /\ proc'[p].rows = proc[p].rows /\ proc'[p].fill = proc[p].fill
      BY <1>0, <3>2 DEF Locals, Others
    <3> QED BY <1>02, <2>0, <2>6, <3>3, MoveApart
  <2> QED BY <2>7, <2>8
<1>12. CASE ExecRecord(p)
  <2>0. proc[p].pc = "exec_record" /\ broker' = broker
    BY <1>12 DEF ExecRecord, At
  <2>1. CASE ~CanRecordOrder(db, proc[p].order, proc[p].intent)
    <3>1. End(p) /\ Undisturbed
      BY <1>12, <2>0, <2>1, SameOrders DEF ExecRecord
    <3> QED BY <1>02, <2>0, <3>1, EndApart
  <2>2. CASE CanRecordOrder(db, proc[p].order, proc[p].intent)
    <3>1. PICK n, i : n = proc[p].order /\ i = proc[p].intent
      OBVIOUS
    <3>2. /\ ~Recorded(db, n) /\ db' = RecordBrokerOrder(db, n, i)
          /\ proc' = [proc EXCEPT ![p].submitted = TRUE, ![p].intent = NoIntent,
                                  ![p].order = 0, ![p].pc = "exec_check"]
      BY <1>12, <2>2, <3>1 DEF ExecRecord, CanRecordOrder
    <3>3. PICK row : row = [intent |-> i, status |-> "ACCEPTED"]
      OBVIOUS
    <3>4. db'.orders = [db.orders EXCEPT ![n] = row] /\ db'.fills = db.fills
      BY <1>0, <3>2, <3>3 DEF RecordBrokerOrder, Database
    <3>5. row.status \in Unresolved
      BY <3>3 DEF Unresolved
    <3>6. \A m \in OrderNo : m # n => db'.orders[m] = db.orders[m]
      BY <3>4, <1>0 DEF Database
    <3>7. n \in OrderNo => db'.orders[n] = row
      BY <3>4, <1>0 DEF Database
    <3>8. OrdersKept(db, db')
      BY <3>2, <3>5, <3>6, <3>7 DEF OrdersKept, Closed
    <3>9. Undisturbed
      BY <2>0, <3>4, <3>8, SameStays DEF Undisturbed
    <3>10. /\ Others(p) /\ proc'[p].pc = "exec_check"
           /\ proc'[p].rows = proc[p].rows /\ proc'[p].fill = proc[p].fill
      BY <1>0, <3>2 DEF Locals, Others
    <3> QED BY <1>02, <2>0, <3>9, <3>10, MoveApart
  <2> QED BY <2>1, <2>2
<1>13. CASE ExecUnknown(p)
  <2>1. proc[p].pc = "exec_unknown" /\ End(p) /\ broker' = broker
    BY <1>13 DEF ExecUnknown, At
  <2>2. db'.orders = db.orders /\ db'.fills = db.fills
    BY <1>0, <1>13 DEF ExecUnknown, MarkIntentUnknown, Database
  <2>3. Undisturbed
    BY <2>1, <2>2, SameOrders
  <2> QED BY <1>02, <2>1, <2>3, EndApart
<1>14. CASE ExecDone(p)
  <2>0. proc[p].pc = "exec_check" /\ Undisturbed
    BY <1>01, <1>14 DEF ExecDone, At
  <2>1. CASE End(p)
    BY <1>02, <2>0, <2>1, EndApart
  <2>2. CASE proc' = [proc EXCEPT ![p] = Keep(proc[p], "rec_state")]
    <3>1. "rec_state" \notin Copying \cup {"absent", "off_mark"}
      BY <1>02
    <3> QED BY <1>02, <2>0, <2>2, <3>1, KeepApart
  <2> QED BY <1>14, <2>1, <2>2 DEF ExecDone, Enter
<1> QED BY <1>1, <1>2, <1>3, <1>4, <1>5, <1>6, <1>7, <1>8, <1>9, <1>10, <1>11,
           <1>12, <1>13, <1>14 DEF RunStep

(* A step of the reading process that takes no row of a recorded order.    *)
LEMMA ReadingStep ==
    ASSUME SoleInv, FinalInv, NEW p \in Procs, Others(p), proc[p].pc \in Reading,
           proc'[p].pc \in Reading \cup {"rec_apply", "rec_holding"},
           proc'[p].pc \notin Reading => proc'[p].rows = {},
           proc'[p].pc # "rec_fill" => proc'[p].fill = 0,
           proc'[p].pc \in Reading => proc'[p].state = db'.state,
           proc'[p].rows \subseteq proc[p].rows, db'.orders = db.orders, broker' = broker,
           Carried(proc[p], db, proc'[p], db')
    PROVE  FinalInv' /\ KeepsClosed(db, db')
<1>1. Fetched(proc[p], db, broker) /\ Faithful(db, broker) /\ proc[p].pc # "absent"
  BY DEF FinalInv, Reading
<1>2. Stays(broker, broker') /\ OrdersKept(db, db')
  BY SameStays DEF OrdersKept
<1>3. Faithful(db', broker') /\ KeepsClosed(db, db')
  BY <1>1, <1>2, FaithfulKept
<1>4. ASSUME NEW row \in proc'[p].rows PROVE RowTrue(row, proc'[p], db', broker')
  <2>1. RowTrue(row, proc[p], db, broker)
    BY <1>1 DEF Fetched
  <2> QED BY <1>2, <2>1, RowKept
<1>5. Fetched(proc'[p], db', broker')
  BY <1>4 DEF Fetched, Copying, Reading
<1>6. ~Crashes => Taken(proc'[p], db', broker')
  <2> SUFFICES ASSUME ~Crashes PROVE Taken(proc'[p], db', broker')
    OBVIOUS
  <2>1. Taken(proc[p], db, broker)
    BY <1>1 DEF FinalInv, At
  <2> QED BY <1>1, <1>2, <2>1, TakenKept
<1>7. proc'[p].pc # "absent"
  BY DEF Reading
<1> QED BY <1>1, <1>3, <1>5, <1>6, <1>7, FinalStep

(* The rows of a history: what they say of their order, and that every     *)
(* execution of an order in the window has one.                            *)
Told(row, rows) ==
    /\ row.order \in 1..Len(broker.orders) /\ row.order \in OrderNo
    /\ row.day = broker.orders[row.order].day
    /\ row.status = RowStatus(broker.orders[row.order])
    /\ \A f \in ExecsOf(broker, row.order) :
          \E r \in rows : r.order = row.order /\ r.day = row.day /\ r.fill = f

LEMMA HistoryTells ==
    ASSUME BooksOK(db, broker), NEW from, NEW to, NEW rows, rows = History(from, to)
    PROVE  \A row \in rows : Told(row, rows)
<1> SUFFICES ASSUME NEW row \in rows PROVE Told(row, rows)
  OBVIOUS
<1> DEFINE inWindow == {n \in 1..Len(broker.orders) : broker.orders[n].day \in from..to}
           entry(n, f) == [order |-> n, day |-> broker.orders[n].day, fill |-> f,
                           status |-> RowStatus(broker.orders[n])]
<1>1. rows = {entry(broker.execs[f].order, f) :
                 f \in {g \in 1..Len(broker.execs) : broker.execs[g].order \in inWindow}}
             \cup {entry(n, 0) : n \in {m \in inWindow : broker.orders[m].filled = 0}}
  BY DEF History
<1>2. PICK n, f : n \in inWindow /\ row = entry(n, f)
  BY <1>1
<1>3. /\ row.order = n /\ row.day = broker.orders[n].day
      /\ row.status = RowStatus(broker.orders[n])
  BY <1>2
<1>4. n \in 1..Len(broker.orders) /\ n \in OrderNo
  BY <1>2, BoundsAssumption DEF BooksOK, Account, OrderNo
<1>5. ASSUME NEW g \in ExecsOf(broker, n)
      PROVE  \E r \in rows : r.order = n /\ r.day = row.day /\ r.fill = g
  <2>1. g \in 1..Len(broker.execs) /\ broker.execs[g].order = n
    BY DEF ExecsOf
  <2>2. entry(n, g) \in rows
    BY <1>1, <1>2, <2>1
  <2> QED BY <1>3, <2>2
<1> QED BY <1>3, <1>4, <1>5 DEF Told

(* A row with a final status is of an order the broker is done with.       *)
LEMMA FinalRow ==
    ASSUME NEW o \in BrokerOrder, RowStatus(o) \notin Unresolved
    PROVE  ~Working(o)
<1>1. o.status \in {"working", "cancelled", "rejected", "lapsed"} /\ Remaining(o) \in Int /\ o.filled \in Nat
  BY DEF BrokerOrder, Intent, Remaining
<1>2. Working(o) => RowStatus(o) \in {"PARTIAL", "OPEN"}
  BY <1>1 DEF Working, RowStatus
<1> QED BY <1>2 DEF Unresolved

(* transaction_history keeps FinalInv.                                     *)
LEMMA HistoryFinal ==
    ASSUME IInv, SoleInv, FinalInv, NEW p \in Procs, RecHistory(p)
    PROVE  FinalInv' /\ KeepsClosed(db, db')
<1>0. /\ proc \in [Procs -> Locals] /\ proc[p] \in Locals /\ proc[p].pc = "rec_history"
      /\ BooksOK(db, broker) /\ broker.orders \in Seq(BrokerOrder)
      /\ Fetched(proc[p], db, broker) /\ Faithful(db, broker)
  BY DEF IInv, BooksOK, Account, FinalInv, RecHistory, At
<1>1. CASE BrokerFails(p)
  <2>1. proc[p].pc \notin Reading \cup {"absent"}
    BY <1>0 DEF Reading
  <2> QED BY <1>1, <2>1, BrokerFailsApart, ApartStep
<1>2. CASE ~BrokerFails(p)
  <2>1. PICK rows : /\ rows = History(proc[p].from, proc[p].day)
                    /\ proc' = [proc EXCEPT ![p].rows = rows, ![p].from = 1, ![p].pc = "rec_row"]
                    /\ UNCHANGED <<db, broker, clock>>
    BY <1>2 DEF RecHistory
  <2>2. PICK m, from, to : m = proc'[p] /\ from = proc[p].from /\ to = proc[p].day
    OBVIOUS
  <2>10. rows = History(from, to)
    BY <2>1, <2>2
  <2>11. \A row \in rows : Told(row, rows)
    BY <1>0, <2>10, HistoryTells
  <2>3. /\ Others(p) /\ m.pc = "rec_row" /\ m.rows = rows
        /\ m.fill = proc[p].fill /\ m.state = proc[p].state
    BY <1>0, <2>1, <2>2 DEF Locals, Others
  <2>4. proc[p].fill = 0 /\ proc[p].rows = {} /\ proc[p].state = db.state
    BY <1>0 DEF Fetched, Copying, Reading
  <2>5. ASSUME NEW row \in rows PROVE RowTrue(row, m, db, broker)
    <3>1. /\ row.order \in 1..Len(broker.orders) /\ row.order \in OrderNo
          /\ row.day = broker.orders[row.order].day
          /\ row.status = RowStatus(broker.orders[row.order])
          /\ \A f \in ExecsOf(broker, row.order) :
                 \E r \in rows : r.order = row.order /\ r.day = row.day /\ r.fill = f
      BY <2>11 DEF Told
    <3>2. Closed(db, row.order) => row.status = db.orders[row.order].status
      BY <1>0, <3>1 DEF Faithful, Over
    <3>3. ASSUME row.status \notin Unresolved
          PROVE  Over(broker, row.order, row.status)
      <4>1. broker.orders[row.order] \in BrokerOrder
        BY <1>0, <3>1, SeqElement
      <4> QED BY <3>1, <3>3, <4>1, FinalRow DEF Over
    <3>4. ASSUME Ours(db, row), NEW f \in ExecsOf(broker, row.order)
          PROVE  f \in db.fills \cup ToAdd(m, db)
      <4>1. PICK r \in rows : r.order = row.order /\ r.day = row.day /\ r.fill = f
        BY <3>1
      <4>2. Ours(db, r)
        BY <3>4, <4>1 DEF Ours
      <4> QED BY <2>3, <4>1, <4>2 DEF ToAdd
    <3>5. \A r \in m.rows : r.order = row.order => r.status = row.status
      <4> SUFFICES ASSUME NEW r \in rows, r.order = row.order PROVE r.status = row.status
        BY <2>3
      <4>1. r.status = RowStatus(broker.orders[r.order])
        BY <2>11 DEF Told
      <4> QED BY <3>1, <4>1
    <3> QED BY <3>2, <3>3, <3>4, <3>5 DEF RowTrue
  <2>6. Fetched(m, db, broker)
    BY <2>3, <2>4, <2>5 DEF Fetched, Reading
  <2>7. OrdersKept(db, db') /\ Stays(broker, broker')
    BY <2>1, SameStays DEF OrdersKept
  <2>8. Faithful(db', broker') /\ KeepsClosed(db, db')
    BY <1>0, <2>7, FaithfulKept
  <2>9. ~Crashes => Taken(m, db', broker')
    <3> SUFFICES ASSUME ~Crashes PROVE Taken(m, db', broker')
      OBVIOUS
    <3>1. Taken(proc[p], db, broker)
      BY <1>0 DEF FinalInv, At
    <3>2. Carried(proc[p], db, m, db')
      BY <2>1, <2>4 DEF Carried, ToAdd
    <3> QED BY <1>0, <2>7, <3>1, <3>2, TakenKept
  <2> QED BY <1>0, <2>1, <2>2, <2>3, <2>6, <2>8, <2>9, FinalStep
<1> QED BY <1>1, <1>2

(* update_order_status from a row keeps FinalInv: a final status is        *)
(* overwritten by itself only.                                             *)
LEMMA KnownRowFinal ==
    ASSUME IInv, SoleInv, FinalInv, NEW p \in Procs, proc[p].pc = "rec_row",
           NEW row \in proc[p].rows, RecKnownRow(p, row)
    PROVE  FinalInv' /\ KeepsClosed(db, db')
<1>0. /\ proc \in [Procs -> Locals] /\ proc[p] \in Locals /\ db \in Database
      /\ Fetched(proc[p], db, broker) /\ Faithful(db, broker)
  BY DEF IInv, BooksOK, FinalInv
<1>1. PICK l, m, n, st : l = proc[p] /\ m = proc'[p] /\ n = row.order /\ st = row.status
  OBVIOUS
<1>2. n \in OrderNo /\ st \in OrderStatus /\ Recorded(db, n) /\ Ours(db, row)
  BY <1>0, <1>1 DEF Locals, HistoryRow, RecKnownRow, LocalOrder, Ours
<1>3. broker' = broker /\ db' = UpdateOrderStatus(db, n, st)
  BY <1>1 DEF RecKnownRow
<1>4. PICK label : /\ proc' = [proc EXCEPT ![p].rows = @ \ {row}, ![p].fill = row.fill,
                                           ![p].pc = label]
                   /\ label = IF row.fill = 0 THEN "rec_row" ELSE "rec_fill"
  BY DEF RecKnownRow
<1>5. /\ Others(p) /\ m.rows = l.rows \ {row} /\ m.fill = row.fill /\ m.state = l.state
      /\ m.pc = label
  BY <1>0, <1>1, <1>4 DEF Locals, Others
<1>6. l.fill = 0 /\ l.state = db.state /\ RowTrue(row, l, db, broker)
      /\ \A r \in l.rows : RowTrue(r, l, db, broker)
  BY <1>0, <1>1 DEF Fetched, Copying, Reading
<1>7. db.orders[n] \in OrderRow
  BY <1>0, <1>2 DEF Database, Recorded
<1>8. PICK new : new = [db.orders[n] EXCEPT !.status = st]
  OBVIOUS
<1>9. /\ db'.orders = [db.orders EXCEPT ![n] = new]
      /\ db'.fills = db.fills /\ db'.state = db.state
  BY <1>0, <1>3, <1>8 DEF UpdateOrderStatus, Database
<1>10. new.status = st /\ new.intent = db.orders[n].intent /\ new # NoRow
  BY <1>2, <1>7, <1>8 DEF OrderRow, NoRow
<1>11. db'.orders[n] = new /\ \A k \in OrderNo : k # n => db'.orders[k] = db.orders[k]
  BY <1>0, <1>2, <1>9 DEF Database
<1>12. KeepsClosed(db, db')
  <2>1. Closed(db, n) => new = db.orders[n]
    <3> SUFFICES ASSUME Closed(db, n) PROVE new = db.orders[n]
      OBVIOUS
    <3>1. st = db.orders[n].status
      BY <1>1, <1>6 DEF RowTrue
    <3> QED BY <1>7, <1>8, <3>1 DEF OrderRow
  <2> QED BY <1>11, <2>1 DEF KeepsClosed
<1>13. Closed(db', n) => st \notin Unresolved
  BY <1>10, <1>11 DEF Closed
<1>14. \A k \in OrderNo : k # n => (Closed(db', k) <=> Closed(db, k))
  BY <1>11 DEF Closed, Recorded
<1>15. Faithful(db', broker')
  <2> SUFFICES ASSUME NEW k \in OrderNo, Closed(db', k)
               PROVE  Over(broker, k, db'.orders[k].status)
    BY <1>3 DEF Faithful
  <2>1. CASE k = n
    BY <1>1, <1>6, <1>10, <1>11, <1>13, <2>1 DEF RowTrue
  <2>2. CASE k # n
    BY <1>0, <1>11, <1>14, <2>2 DEF Faithful
  <2> QED BY <2>1, <2>2
<1>16. \A r \in l.rows : r.order \in OrderNo
  BY <1>0, <1>1 DEF Locals, HistoryRow
<1>17. \A r \in l.rows : Ours(db', r) <=> Ours(db, r)
  <2> SUFFICES ASSUME NEW r \in l.rows PROVE Ours(db', r) <=> Ours(db, r)
    OBVIOUS
  <2>1. CASE r.order = n
    BY <1>2, <1>10, <1>11, <2>1 DEF Ours, Recorded
  <2>2. CASE r.order # n
    BY <1>11, <1>16, <2>2 DEF Ours, Recorded
  <2> QED BY <2>1, <2>2
<1>18. \A f \in db.fills \cup ToAdd(l, db) : f = 0 \/ f \in db'.fills \cup ToAdd(m, db')
  <2> SUFFICES ASSUME NEW f \in ToAdd(l, db), f # 0 PROVE f \in ToAdd(m, db')
    BY <1>9
  <2>1. PICK r \in l.rows : Ours(db, r) /\ r.fill = f
    BY <1>6 DEF ToAdd
  <2>2. CASE r = row
    BY <1>5, <2>1, <2>2 DEF ToAdd
  <2>3. CASE r # row
    BY <1>5, <1>17, <2>1, <2>3 DEF ToAdd
  <2> QED BY <2>2, <2>3
<1>19. \A k : \A f \in ExecsOf(broker, k) : f # 0
  BY DEF ExecsOf
<1>20. ASSUME NEW r \in m.rows PROVE RowTrue(r, m, db', broker')
  <2>0. r \in l.rows /\ RowTrue(r, l, db, broker) /\ r.order \in OrderNo
    BY <1>5, <1>6, <1>16
  <2>1. Closed(db', r.order) => r.status = db'.orders[r.order].status
    <3>1. CASE r.order = n
      BY <1>1, <1>6, <1>10, <1>11, <2>0, <3>1 DEF RowTrue
    <3>2. CASE r.order # n
      BY <1>11, <1>14, <2>0, <3>2 DEF RowTrue
    <3> QED BY <3>1, <3>2
  <2>2. r.status \notin Unresolved => Over(broker', r.order, r.status)
    BY <1>3, <2>0 DEF RowTrue
  <2>3. ASSUME r.status \notin Unresolved, Ours(db', r), NEW f \in ExecsOf(broker, r.order)
        PROVE  f \in db'.fills \cup ToAdd(m, db')
    <3>1. Ours(db, r)
      BY <1>17, <2>0, <2>3
    <3>2. f \in db.fills \cup ToAdd(l, db)
      BY <2>0, <2>3, <3>1 DEF RowTrue
    <3> QED BY <1>18, <1>19, <2>3, <3>2
  <2>4. \A s \in m.rows : s.order = r.order => s.status = r.status
    BY <1>5, <2>0 DEF RowTrue
  <2> QED BY <1>3, <2>1, <2>2, <2>3, <2>4 DEF RowTrue
<1>21. Fetched(m, db', broker')
  BY <1>4, <1>5, <1>6, <1>9, <1>20 DEF Fetched, Reading
<1>22. ~Crashes => Taken(m, db', broker')
  <2> SUFFICES ASSUME ~Crashes, NEW k \in OrderNo, Closed(db', k), NEW f \in ExecsOf(broker, k)
               PROVE  f \in db'.fills \cup ToAdd(m, db')
    BY <1>3 DEF Taken
  <2>1. f \in db.fills \cup ToAdd(l, db)
    <3>1. CASE k = n
      BY <1>1, <1>2, <1>6, <1>13, <3>1 DEF RowTrue
    <3>2. CASE k # n
      <4>1. Taken(l, db, broker)
        BY <1>1 DEF FinalInv, At
      <4> QED BY <1>14, <3>2, <4>1 DEF Taken
    <3> QED BY <3>1, <3>2
  <2> QED BY <1>18, <1>19, <2>1
<1>23. proc[p].pc # "absent" /\ proc'[p].pc # "absent"
  <2>1. label \in {"rec_row", "rec_fill"}
    BY <1>4
  <2> QED BY <1>1, <1>5, <2>1
<1> QED BY <1>1, <1>5, <1>12, <1>15, <1>21, <1>22, <1>23, FinalStep

(* The window of a reconciliation starts at the oldest unresolved order.   *)
LEMMA WindowIsLeast ==
    ASSUME NEW d \in Database, NEW session, NEW n \in UnresolvedOrders(d)
    PROVE  /\ WindowStart(d, session) \in Int
           /\ WindowStart(d, session) <= d.orders[n].intent.day
<1> DEFINE days == {d.orders[m].intent.day : m \in UnresolvedOrders(d)}
<1>1. \A x \in days : x \in Nat
  <2> SUFFICES ASSUME NEW m \in UnresolvedOrders(d)
               PROVE  d.orders[m].intent.day \in Nat
    OBVIOUS
  <2>1. m \in OrderNo /\ Recorded(d, m)
    BY DEF UnresolvedOrders
  <2>2. d.orders[m].intent \in Intent
    BY <2>1 DEF Database, OrderRow, Recorded
  <2> QED BY <2>2, BoundsAssumption DEF Intent, Day
<1>2. d.orders[n].intent.day \in days /\ days # {}
  OBVIOUS
<1>3. \E x \in days : \A y \in days : x <= y
  BY <1>1, <1>2, LeastExists
<1>4. PICK least : least = CHOOSE x \in days : \A y \in days : x <= y
  OBVIOUS
<1>5. least \in days /\ \A y \in days : least <= y
  BY <1>3, <1>4
<1>6. WindowStart(d, session) = least
  BY <1>2, <1>4 DEF WindowStart
<1> QED BY <1>1, <1>2, <1>5, <1>6

(* _flag_mismatch, add_fill, LOCKED, and the end of the rows keep FinalInv. *)
LEMMA RowsFinal ==
    ASSUME IInv, SoleInv, FinalInv, NEW p \in Procs,
           RecRow(p) \/ RecFill(p) \/ RecLock(p) \/ RecPending(p)
    PROVE  FinalInv' /\ KeepsClosed(db, db')
<1>0. /\ proc \in [Procs -> Locals] /\ proc[p] \in Locals /\ db \in Database
      /\ Fetched(proc[p], db, broker) /\ proc[p].state \in StateRow
  BY DEF IInv, BooksOK, FinalInv, Locals
<1>01. Reading = {"rec_row", "rec_fill", "rec_lock"}
  BY DEF Reading
<1>1. ASSUME NEW row \in proc[p].rows, proc[p].pc = "rec_row", RecAlienRow(p, row)
      PROVE  FinalInv' /\ KeepsClosed(db, db')
  <2> DEFINE l == [proc[p] EXCEPT !.rows = @ \ {row}, !.alien = TRUE, !.pc = "rec_lock"]
  <2>0. proc[p].state = db.state /\ proc[p].fill = 0
    BY <1>0, <1>1 DEF Fetched, Copying, Reading
  <2>1. /\ l.state = proc[p].state /\ l.rows = proc[p].rows \ {row} /\ l.fill = proc[p].fill
        /\ l.pc = "rec_lock"
    BY <1>0 DEF Locals
  <2>2. PICK s : /\ proc' = [proc EXCEPT ![p] = [l EXCEPT !.state = s]]
                 /\ (db' = db /\ s = db.state) \/ db' = SaveState(db, s)
    <3>1. CanSave(db, l.state.version)
      BY <2>0, <2>1 DEF CanSave
    <3>2. l = [l EXCEPT !.state = l.state]
      BY <1>0 DEF Locals
    <3>3. CASE l.state.required
      BY <1>1, <2>0, <2>1, <3>2, <3>3 DEF RecAlienRow
    <3>4. CASE ~l.state.required
      BY <1>1, <3>1, <3>4 DEF RecAlienRow
    <3> QED BY <3>3, <3>4
  <2>3. PICK m : m = proc'[p]
    OBVIOUS
  <2>4. /\ Others(p) /\ m.pc = "rec_lock" /\ m.rows = proc[p].rows \ {row}
        /\ m.fill = 0 /\ m.state = s
    BY <1>0, <2>0, <2>2, <2>3 DEF Locals, Others
  <2>5. db'.orders = db.orders /\ db'.fills = db.fills /\ db'.state = s
    BY <1>0, <2>2 DEF SaveState, Database
  <2>6. ~Ours(db, row)
    BY <1>1 DEF RecAlienRow, LocalOrder, Ours
  <2>7. \A r : Ours(db', r) <=> Ours(db, r)
    BY <2>5 DEF Ours, Recorded
  <2>8. Carried(proc[p], db, m, db')
    <3>1. ToAdd(proc[p], db) \subseteq ToAdd(m, db')
      BY <2>0, <2>4, <2>6, <2>7 DEF ToAdd
    <3> QED BY <2>5, <3>1 DEF Carried
  <2>9. broker' = broker /\ m.rows \subseteq proc[p].rows
    BY <1>1, <2>4 DEF RecAlienRow
  <2> HIDE DEF l
  <2> QED BY <1>01, <1>1, <2>3, <2>4, <2>5, <2>8, <2>9, ReadingStep
<1>2. CASE RecRow(p)
  <2>1. PICK row \in proc[p].rows : RecKnownRow(p, row) \/ RecAlienRow(p, row)
    BY <1>2 DEF RecRow
  <2>2. proc[p].pc = "rec_row"
    BY <1>2 DEF RecRow, At
  <2> QED BY <1>1, <2>1, <2>2, KnownRowFinal
<1>3. CASE RecFill(p)
  <2>1. proc[p].pc = "rec_fill" /\ broker' = broker /\ db' = AddFill(db, proc[p].fill)
    BY <1>3 DEF RecFill, At
  <2>2. PICK m : m = proc'[p]
    OBVIOUS
  <2>3. /\ Others(p) /\ m.pc = "rec_row" /\ m.rows = proc[p].rows /\ m.fill = 0
        /\ m.state = proc[p].state
    BY <1>0, <1>3, <2>2 DEF RecFill, Locals, Others
  <2>4. /\ db'.orders = db.orders /\ db'.fills = db.fills \cup {proc[p].fill}
        /\ db'.state = db.state
    BY <1>0, <2>1 DEF AddFill, Database
  <2>5. proc[p].state = db.state
    BY <1>0, <2>1 DEF Fetched, Copying, Reading
  <2>6. \A r : Ours(db', r) <=> Ours(db, r)
    BY <2>4 DEF Ours, Recorded
  <2>7. Carried(proc[p], db, m, db')
    <3>1. ToAdd(proc[p], db) \subseteq ToAdd(m, db') \cup {proc[p].fill}
      BY <2>3, <2>6 DEF ToAdd
    <3> QED BY <2>4, <3>1 DEF Carried
  <2>8. m.state = db'.state
    BY <2>3, <2>4, <2>5
  <2> QED BY <1>01, <2>1, <2>2, <2>3, <2>4, <2>7, <2>8, ReadingStep
<1>4. CASE RecLock(p)
  <2>1. /\ proc[p].pc = "rec_lock" /\ broker' = broker /\ Goto(p, "rec_row")
        /\ db' = SetProfileStatus(db, "LOCKED")
    BY <1>4 DEF RecLock, At
  <2>2. PICK m : m = proc'[p]
    OBVIOUS
  <2>3. /\ Others(p) /\ m.pc = "rec_row" /\ m.rows = proc[p].rows /\ m.fill = proc[p].fill
        /\ m.state = proc[p].state
    BY <1>0, <2>1, <2>2 DEF Goto, Locals, Others
  <2>4. db'.orders = db.orders /\ db'.fills = db.fills /\ db'.state = db.state
    BY <1>0, <2>1 DEF SetProfileStatus, Database
  <2>5. proc[p].state = db.state /\ proc[p].fill = 0
    BY <1>0, <2>1 DEF Fetched, Copying, Reading
  <2>6. \A r : Ours(db', r) <=> Ours(db, r)
    BY <2>4 DEF Ours, Recorded
  <2>7. Carried(proc[p], db, m, db')
    <3>1. ToAdd(proc[p], db) \subseteq ToAdd(m, db')
      BY <2>3, <2>6 DEF ToAdd
    <3> QED BY <2>4, <3>1 DEF Carried
  <2>8. m.state = db'.state /\ m.fill = 0
    BY <2>3, <2>4, <2>5
  <2> QED BY <1>01, <2>1, <2>2, <2>3, <2>4, <2>7, <2>8, ReadingStep
<1>5. CASE RecPending(p)
  <2>1. proc[p].pc = "rec_row" /\ proc[p].rows = {} /\ UNCHANGED <<db, broker>>
    BY <1>5 DEF RecPending, At
  <2>2. PICK pend, base, label :
          /\ proc' = [proc EXCEPT ![p].pend = pend, ![p].done = {}, ![p].base = base,
                                  ![p].pc = label]
          /\ label \in {"rec_holding", "rec_apply"}
    BY <1>5 DEF RecPending
  <2>3. PICK m : m = proc'[p]
    OBVIOUS
  <2>4. /\ Others(p) /\ m.pc \in {"rec_holding", "rec_apply"} /\ m.rows = {}
        /\ m.fill = proc[p].fill
    BY <1>0, <2>1, <2>2, <2>3 DEF Locals, Others
  <2>5. proc[p].fill = 0
    BY <1>0, <2>1 DEF Fetched
  <2>6. Carried(proc[p], db, m, db')
    BY <2>1, <2>4, <2>5 DEF Carried, ToAdd
  <2>7. /\ m.pc \notin Reading /\ m.pc # "rec_fill" /\ m.fill = 0
        /\ m.rows \subseteq proc[p].rows
    BY <1>01, <2>4, <2>5
  <2> QED BY <1>01, <2>1, <2>3, <2>4, <2>6, <2>7, ReadingStep
<1> QED BY <1>2, <1>3, <1>4, <1>5

(* A process that dies drops its rows.                                     *)
LEMMA CrashFinal ==
    ASSUME IInv, SoleInv, FinalInv, NEW p \in Procs, Crash(p)
    PROVE  FinalInv' /\ KeepsClosed(db, db')
<1>1. Crashes /\ proc[p].pc # "absent" /\ End(p) /\ UNCHANGED <<db, broker>>
  BY DEF Crash, Busy, At, Abort
<1>2. Others(p) /\ proc'[p] = Fresh
  BY <1>1 DEF IInv, End, Others
<1>3. Fresh.pc = "idle" /\ Fresh.rows = {} /\ Fresh.fill = 0
  BY DEF Fresh
<1>4. Fetched(Fresh, db', broker')
  BY <1>3 DEF Fetched, Reading, Copying
<1>5. Faithful(db', broker') /\ KeepsClosed(db, db')
  BY <1>1 DEF FinalInv, KeepsClosed
<1> QED BY <1>1, <1>2, <1>3, <1>4, <1>5, FinalStep

(* What the broker and the market do: an order that is over stays over.    *)
LEMMA BrokerStays ==
    ASSUME IInv, BrokerNext
    PROVE  Stays(broker, broker')
<1>0. /\ broker \in Account /\ broker.orders \in Seq(BrokerOrder)
      /\ broker.execs \in Seq([order : OrderNo, qty : Nat \ {0}])
      /\ Len(broker.orders) \in Nat /\ Len(broker.execs) \in Nat
      /\ DOMAIN broker.orders = 1..Len(broker.orders)
  BY DEF IInv, BooksOK, Account
<1>1. CASE WindowPasses
  BY <1>1, SameStays DEF WindowPasses
<1>2. ASSUME NEW n \in 1..Len(broker.orders), NEW q, Execute(n, q)
      PROVE  Stays(broker, broker')
  <2>1. PICK e, o : e = [order |-> n, qty |-> q] /\ o = [broker.orders[n] EXCEPT !.filled = @ + q]
    OBVIOUS
  <2>2. /\ broker'.orders = [broker.orders EXCEPT ![n] = o]
        /\ broker'.execs = Append(broker.execs, e) /\ Working(broker.orders[n])
    BY <1>0, <1>2, <2>1 DEF Execute, Account
  <2>3. Len(broker'.orders) = Len(broker.orders)
        /\ \A m \in 1..Len(broker.orders) : m # n => broker'.orders[m] = broker.orders[m]
    BY <1>0, <2>2
  <2>4. /\ Len(broker'.execs) = Len(broker.execs) + 1
        /\ \A f \in 1..Len(broker.execs) : broker'.execs[f] = broker.execs[f]
        /\ broker'.execs[Len(broker.execs) + 1] = e
    BY <1>0, <2>2
  <2>5. e.order = n
    BY <2>1
  <2>6. \A m : m # n => ExecsOf(broker', m) = ExecsOf(broker, m)
    <3> SUFFICES ASSUME NEW m, m # n PROVE ExecsOf(broker', m) = ExecsOf(broker, m)
      OBVIOUS
    <3>1. PICK k : k = Len(broker.execs) /\ k \in Nat
      BY <1>0
    <3>2. Len(broker'.execs) = k + 1 /\ broker'.execs[k + 1].order = n
      BY <2>4, <2>5, <3>1
    <3>3. \A g \in 1..k : broker'.execs[g].order = broker.execs[g].order
      BY <2>4, <3>1
    <3>4. 1..k + 1 = (1..k) \cup {k + 1} /\ k + 1 \notin 1..k
      BY <3>1
    <3>5. ExecsOf(broker', m) = {f \in (1..k) \cup {k + 1} : broker'.execs[f].order = m}
      BY <3>2, <3>4 DEF ExecsOf
    <3>6. ExecsOf(broker, m) = {f \in 1..k : broker.execs[f].order = m}
      BY <3>1 DEF ExecsOf
    <3> QED BY <3>2, <3>3, <3>5, <3>6
  <2> QED BY <2>2, <2>3, <2>6 DEF Stays
<1>3. ASSUME NEW n \in 1..Len(broker.orders), NEW st, Working(broker.orders[n]),
             broker' = [broker EXCEPT !.orders[n].status = st]
      PROVE  Stays(broker, broker')
  <2>1. PICK o : o = [broker.orders[n] EXCEPT !.status = st]
    OBVIOUS
  <2>2. broker'.orders = [broker.orders EXCEPT ![n] = o] /\ broker'.execs = broker.execs
    BY <1>0, <1>3, <2>1 DEF Account
  <2> QED BY <1>0, <1>3, <2>2, ReplaceStays
<1>4. ASSUME NEW i, LateArrival(i) PROVE Stays(broker, broker')
  <2>1. broker'.orders = Append(broker.orders, NewOrder(i)) /\ broker'.execs = broker.execs
    BY <1>0, <1>4 DEF LateArrival, Accepted, Account
  <2> QED BY <1>0, <2>1, AcceptedStays
<1>5. CASE NextDay
  <2>1. PICK st : /\ broker'.orders = [n \in DOMAIN broker.orders |->
                                         Expired(broker.orders[n], st)]
                  /\ broker'.execs = broker.execs
    BY <1>0, <1>5 DEF NextDay, Account
  <2>2. Len(broker'.orders) = Len(broker.orders)
    BY <1>0, <2>1
  <2>3. \A n \in 1..Len(broker.orders) :
           ~Working(broker.orders[n]) => broker'.orders[n] = broker.orders[n]
    BY <1>0, <2>1 DEF Expired
  <2>4. \A m : ExecsOf(broker', m) = ExecsOf(broker, m)
    BY <2>1 DEF ExecsOf
  <2> QED BY <2>2, <2>3, <2>4 DEF Stays
<1> QED BY <1>1, <1>2, <1>3, <1>4, <1>5 DEF BrokerNext, CancelTakesEffect, Reject

(* So they keep FinalInv.                                                  *)
LEMMA BrokerFinal ==
    ASSUME FinalInv, Stays(broker, broker'), UNCHANGED <<db, proc>>
    PROVE  FinalInv' /\ KeepsClosed(db, db')
<1>1. OrdersKept(db, db') /\ \A p \in Procs : Carried(proc[p], db, proc'[p], db')
  BY DEF OrdersKept, Carried
<1>2. Faithful(db', broker') /\ KeepsClosed(db, db')
  BY <1>1, FaithfulKept DEF FinalInv
<1>3. ASSUME NEW p \in Procs PROVE Fetched(proc'[p], db', broker')
  <2>1. Fetched(proc[p], db, broker)
    BY DEF FinalInv
  <2>2. \A row \in proc[p].rows : RowTrue(row, proc'[p], db', broker')
    BY <1>1, <2>1, RowKept DEF Fetched
  <2> QED BY <2>1, <2>2 DEF Fetched
<1>4. ASSUME ~Crashes, NEW p \in Procs, proc[p].pc # "absent"
      PROVE  Taken(proc'[p], db', broker')
  <2>1. Taken(proc[p], db, broker) /\ Faithful(db, broker)
    BY <1>4 DEF FinalInv, At
  <2> QED BY <1>1, <2>1, TakenKept
<1>5. (\A p \in Procs : proc'[p].pc = "absent") => \A n \in OrderNo : ~Recorded(db', n)
  BY DEF FinalInv, At
<1> QED BY <1>2, <1>3, <1>4, <1>5 DEF FinalInv, At

(* FinalInv is inductive together with IInv and SoleInv.                   *)
LEMMA NextFinal ==
    ASSUME IInv, SoleInv, FinalInv, [Next]_vars
    PROVE  FinalInv' /\ KeepsClosed(db, db')
<1>1. CASE UNCHANGED vars
  <2>1. UNCHANGED <<db, broker, proc>> /\ Stays(broker, broker')
    BY <1>1, SameStays DEF vars
  <2> QED BY <2>1, BrokerFinal
<1>2. CASE BrokerNext /\ UNCHANGED <<db, proc>>
  BY <1>2, BrokerStays, BrokerFinal
<1>3. ASSUME NEW p \in Procs, ProcessNext(p) PROVE FinalInv' /\ KeepsClosed(db, db')
  <2>1. CASE RunStep(p) \/ CommandStep(p)
    BY <2>1, RunApart, CommandsApart, ApartStep
  <2>2. CASE ReconcileStep(p)
    BY <2>2, RecApart, ApartStep, HistoryFinal, RowsFinal DEF ReconcileStep
  <2>3. CASE Crash(p)
    BY <2>3, CrashFinal
  <2> QED BY <1>3, <2>1, <2>2, <2>3 DEF ProcessNext
<1> QED BY <1>1, <1>2, <1>3 DEF Next

(* FinalInv holds at first.                                                *)
LEMMA InitFinal == Init => FinalInv
<1> SUFFICES ASSUME Init PROVE FinalInv
  OBVIOUS
<1>1. \A n \in OrderNo : ~Recorded(db, n)
  BY DEF Init, StoreInit, Recorded
<1>2. \A n \in OrderNo : ~Closed(db, n)
  BY <1>1 DEF Closed
<1>3. PICK d \in Deployments : proc = [p \in Procs |-> IF p \in d.procs THEN Fresh ELSE Absent]
  BY DEF Init, ProcessInit
<1>4. ASSUME NEW p \in Procs PROVE Fetched(proc[p], db, broker)
  <2>1. proc[p].pc \in {"idle", "absent"} /\ proc[p].rows = {} /\ proc[p].fill = 0
    BY <1>3 DEF Fresh, Absent
  <2> QED BY <2>1 DEF Fetched, Reading, Copying
<1> QED BY <1>1, <1>2, <1>4 DEF FinalInv, Faithful, Taken

(* FinalInv is an invariant, and every step keeps the final statuses.      *)
LEMMA FinalInvariance ==
    ASSUME OneAtATime
    PROVE  Spec => [](IInv /\ SoleInv /\ FinalInv) /\ [][KeepsClosed(db, db')]_vars
<1>1. Init => FinalInv
  BY InitFinal
<1>2. IInv /\ SoleInv /\ FinalInv /\ [Next]_vars => FinalInv' /\ [KeepsClosed(db, db')]_vars
  BY NextFinal
<1> QED BY <1>1, <1>2, SoleInvariance, PTL DEF Spec

(* reconcile_dbsec with update_order_status: when commands run one at a    *)
(* time, an order that has reached a final status in the database keeps    *)
(* it, wherever a process dies.                                            *)
THEOREM FinalStatusesStay ==
    ASSUME OneAtATime PROVE Spec => TerminalStaysTerminal
<1>1. [KeepsClosed(db, db')]_vars =>
         [\A n \in OrderNo : Recorded(db, n) /\ db.orders[n].status \notin Unresolved
                                => db'.orders[n] = db.orders[n]]_vars
  BY DEF KeepsClosed, Closed
<1> QED BY <1>1, FinalInvariance, PTL DEF TerminalStaysTerminal

(* start_date of reconcile_dbsec: when commands run one at a time and      *)
(* nobody dies, an execution of a recorded order that is not stored lies   *)
(* in the window of the next reconciliation.                               *)
THEOREM StoredOrReachable ==
    ASSUME OneAtATime, ~Crashes PROVE Spec => []FillsStayReachable
<1>1. ASSUME IInv, SoleInv, FinalInv PROVE FillsStayReachable
  <2> SUFFICES ASSUME \A p \in Procs : ~Busy(p), NEW f \in 1..Len(broker.execs) \ db.fills,
                      NEW n, n = broker.execs[f].order, Recorded(db, n),
                      db.orders[n].intent.day = broker.orders[n].day
               PROVE  broker.orders[n].day >= WindowStart(db, clock.day)
    BY DEF FillsStayReachable
  <2>1. /\ n \in 1..Len(broker.orders) /\ n \in OrderNo /\ db \in Database
        /\ broker.orders \in Seq(BrokerOrder) /\ clock.day \in Nat
    <3>1. BooksOK(db, broker) /\ clock \in Clock
      BY <1>1 DEF IInv
    <3>2. n \in 1..Len(broker.orders) /\ Len(broker.orders) <= MaxOrders
          /\ db \in Database /\ broker.orders \in Seq(BrokerOrder)
      BY <3>1 DEF BooksOK, Account
    <3>3. clock.day \in Nat
      BY <3>1, BoundsAssumption DEF Clock, Day
    <3>4. n \in OrderNo
      BY <3>2, BoundsAssumption DEF OrderNo
    <3> QED BY <3>2, <3>3, <3>4
  <2>2. broker.orders[n] \in BrokerOrder
    BY <2>1, SeqElement
  <2>21. PICK o : o = broker.orders[n]
    OBVIOUS
  <2>22. o.day \in Day
    BY <2>2, <2>21 DEF BrokerOrder
  <2>3. broker.orders[n].day \in Nat
    BY <2>21, <2>22, BoundsAssumption DEF Day
  <2>5. ~Closed(db, n)
    <3> SUFFICES ASSUME Closed(db, n) PROVE FALSE
      OBVIOUS
    <3>1. PICK p \in Procs : proc[p].pc # "absent"
      BY <1>1, <2>1 DEF FinalInv, At
    <3>2. Taken(proc[p], db, broker) /\ Fetched(proc[p], db, broker)
      BY <1>1, <3>1 DEF FinalInv, At
    <3>3. proc[p].pc = "idle"
      BY <3>1 DEF Busy, At
    <3>4. proc[p].rows = {} /\ proc[p].fill = 0
      BY <3>2, <3>3 DEF Fetched, Reading
    <3>5. f \in ExecsOf(broker, n)
      BY DEF ExecsOf
    <3> QED BY <2>1, <3>2, <3>4, <3>5 DEF Taken, ToAdd
  <2>6. n \in UnresolvedOrders(db)
    BY <2>1, <2>5 DEF Closed, UnresolvedOrders
  <2>7. WindowStart(db, clock.day) <= db.orders[n].intent.day
    BY <2>1, <2>6, WindowIsLeast
  <2>8. WindowStart(db, clock.day) \in Int
    BY <2>1, <2>6, WindowIsLeast
  <2> QED BY <2>3, <2>7, <2>8
<1> QED BY <1>1, FinalInvariance, PTL

-----------------------------------------------------------------------------
(***************************************************************************)
(* Sell orders and the shares behind them, when phases are run by          *)
(* automation tick only.  CoverInv: what the broker may still sell, or get *)
(* to sell, and what a sell phase still has in hand are together at most   *)
(* the holding.  It is kept by every step if the gates count no more       *)
(* shares than there are (GateCovered) and no tick outlives its session    *)
(* (TicksInSession).  Why the gates do is shown twice: within one session  *)
(* a sell phase that has sent nothing follows upon buys only               *)
(* (HoldingInv); when commands run one at a time, the reconciliation       *)
(* before the plan has compared the position with the holding              *)
(* (MatchedInv).                                                           *)
(***************************************************************************)

(* Shares the broker may still sell, at once or when a request arrives.    *)
OpenQty(b) == SumFunctionOnSet([n \in 1..Len(b.orders) |-> OpenSell(b.orders[n])],
                               1..Len(b.orders))
Exposed(b) == OpenQty(b) + SellTotal(b.inflight)
(* Shares a run may still send for sale.                                   *)
LeftQty(l) == SellTotal(l.todo) + IF l.pc = "exec_place" THEN SellQty(l.intent) ELSE 0

(* Labels at which intents are in hand.                                    *)
InHand == {"plan_save", "plan_record", "exec_gate"} \cup Executing

(* A tick is of this session, and what a sell phase may still send is      *)
(* covered together with what the broker may still sell.                   *)
Covered(l, b, c) ==
    /\ l.cmd = "tick" => l.day = c.day
    /\ l.pc \in InHand => IsFiniteSet(l.todo)
    /\ l.pc \in Executing /\ l.phase = "SELL" => Exposed(b) + LeftQty(l) <= b.holding

(* What works or is under way is of this session and covered.              *)
CoverInv ==
    /\ IsFiniteSet(broker.inflight) /\ IsFiniteSet(db.intents["PENDING"])
    /\ \A n \in 1..Len(broker.orders) :
          Working(broker.orders[n]) => broker.orders[n].intent.day = clock.day
    /\ \A i \in broker.inflight : i.day = clock.day
    /\ Exposed(broker) <= broker.holding
    /\ \A p \in Procs : Covered(proc[p], broker, clock)

(* The gates of a sell phase count no more shares than there are.          *)
GateCovered ==
    \A p \in Procs : At(p, "exec_gate") /\ proc[p].phase = "SELL"
                        => db.state.quantity <= broker.holding

(* No tick outlives its session.                                           *)
TicksInSession == clock'.day # clock.day => \A p \in Procs : proc[p].cmd # "tick"

(* What an order may still sell, and an intent may, is a natural.          *)
LEMMA SellNatural ==
    /\ \A o \in BrokerOrder : OpenSell(o) \in Nat
    /\ \A i \in Intent : SellQty(i) \in Nat
<1>1. ASSUME NEW o \in BrokerOrder PROVE OpenSell(o) \in Nat
  <2>1. o.filled \in Nat /\ o.intent \in Intent
    BY DEF BrokerOrder
  <2>2. o.intent.qty \in Nat
    BY <2>1 DEF Intent
  <2>3. Remaining(o) \in Int
    BY <2>1, <2>2 DEF Remaining
  <2>4. Working(o) => Remaining(o) > 0
    BY DEF Working
  <2> QED BY <2>3, <2>4 DEF OpenSell
<1>2. ASSUME NEW i \in Intent PROVE SellQty(i) \in Nat
  <2>1. i.qty \in Nat
    BY DEF Intent
  <2> QED BY <2>1 DEF SellQty
<1> QED BY <1>1, <1>2

(* So are their sums.                                                      *)
LEMMA SellTotalNatural ==
    ASSUME NEW S \in SUBSET Intent, IsFiniteSet(S)
    PROVE  SellTotal(S) \in Nat
<1> DEFINE f == [i \in S |-> SellQty(i)]
<1>1. \A i \in S : f[i] \in Nat
  BY SellNatural
<1> HIDE DEF f
<1>2. SumFunctionOnSet(f, S) \in Nat
  BY <1>1, SumNatural
<1> QED BY <1>2 DEF SellTotal, f

(* So is what the orders of an account may still sell.                     *)
LEMMA OpenQtyNatural ==
    ASSUME NEW b \in Account
    PROVE  OpenQty(b) \in Nat
<1> DEFINE f == [n \in 1..Len(b.orders) |-> OpenSell(b.orders[n])]
<1>1. b.orders \in Seq(BrokerOrder) /\ Len(b.orders) \in Nat
  BY DEF Account
<1>2. \A n \in 1..Len(b.orders) : f[n] \in Nat
  BY <1>1, SeqElement, SellNatural
<1>3. IsFiniteSet(1..Len(b.orders))
  BY <1>1, FS_Interval
<1> HIDE DEF f
<1>4. SumFunctionOnSet(f, 1..Len(b.orders)) \in Nat
  BY <1>2, <1>3, SumNatural
<1> QED BY <1>4 DEF OpenQty, f

(* An intent that joins or leaves adds or takes what it sells.             *)
LEMMA SellTotalAdd ==
    ASSUME NEW S \in SUBSET Intent, IsFiniteSet(S), NEW i \in Intent, i \notin S
    PROVE  SellTotal(S \cup {i}) = SellTotal(S) + SellQty(i)
<1> DEFINE f == [j \in S |-> SellQty(j)]
           g == [j \in S \cup {i} |-> SellQty(j)]
<1>1. /\ \A j \in S \cup {i} : g[j] \in Int
      /\ \A j \in S : f[j] = g[j]
      /\ g[i] = SellQty(i)
  BY SellNatural
<1>2. SellTotal(S) = SumFunctionOnSet(f, S)
      /\ SellTotal(S \cup {i}) = SumFunctionOnSet(g, S \cup {i})
  BY DEF SellTotal
<1> HIDE DEF f, g
<1>3. SumFunctionOnSet(f, S) = SumFunctionOnSet(g, S)
  BY <1>1, SumAgree
<1>4. SumFunctionOnSet(g, S \cup {i}) = SumFunctionOnSet(g, S) + g[i]
  BY <1>1, SumAdd
<1> QED BY <1>1, <1>2, <1>3, <1>4

(* An intent that leaves.                                                  *)
LEMMA SellTotalRemove ==
    ASSUME NEW S \in SUBSET Intent, IsFiniteSet(S), NEW i \in S
    PROVE  /\ SellTotal(S \ {i}) + SellQty(i) = SellTotal(S)
           /\ IsFiniteSet(S \ {i})
<1>1. S \ {i} \in SUBSET Intent /\ IsFiniteSet(S \ {i}) /\ i \notin S \ {i} /\ i \in Intent
      /\ (S \ {i}) \cup {i} = S
  BY FS_Subset
<1>2. PICK T : T = S \ {i}
  OBVIOUS
<1>3. SellTotal(T \cup {i}) = SellTotal(T) + SellQty(i)
  BY <1>1, <1>2, SellTotalAdd
<1> QED BY <1>1, <1>2, <1>3

(* Intents of buys sell nothing.                                           *)
LEMMA SellTotalZero ==
    ASSUME NEW S, IsFiniteSet(S), \A i \in S : i.phase # "SELL"
    PROVE  SellTotal(S) = 0
<1> DEFINE f == [i \in S |-> SellQty(i)]
<1>1. \A i \in S : f[i] = 0
  BY DEF SellQty
<1> HIDE DEF f
<1>2. SumFunctionOnSet(f, S) = 0
  BY <1>1, SumZero
<1> QED BY <1>2 DEF SellTotal, f

(* Nor does an account without sell orders at work.                        *)
LEMMA OpenQtyZero ==
    ASSUME NEW b \in Account, \A n \in 1..Len(b.orders) : OpenSell(b.orders[n]) = 0
    PROVE  OpenQty(b) = 0
<1> DEFINE f == [n \in 1..Len(b.orders) |-> OpenSell(b.orders[n])]
<1>1. \A n \in 1..Len(b.orders) : f[n] = 0
  OBVIOUS
<1>2. IsFiniteSet(1..Len(b.orders))
  BY FS_Interval DEF Account
<1> HIDE DEF f
<1>3. SumFunctionOnSet(f, 1..Len(b.orders)) = 0
  BY <1>1, <1>2, SumZero
<1> QED BY <1>3 DEF OpenQty, f

(* Orders that may sell as much as before.                                 *)
LEMMA OpenQtySame ==
    ASSUME NEW b \in Account, NEW b2 \in Account, Len(b2.orders) = Len(b.orders),
           \A n \in 1..Len(b.orders) : OpenSell(b2.orders[n]) = OpenSell(b.orders[n])
    PROVE  OpenQty(b2) = OpenQty(b)
<1>1. [n \in 1..Len(b.orders) |-> OpenSell(b2.orders[n])]
        = [n \in 1..Len(b.orders) |-> OpenSell(b.orders[n])]
  OBVIOUS
<1> QED BY <1>1 DEF OpenQty

(* One order that changes.                                                 *)
LEMMA OpenQtyChange ==
    ASSUME NEW b \in Account, NEW b2 \in Account, NEW n \in 1..Len(b.orders), NEW o,
           b2.orders = [b.orders EXCEPT ![n] = o]
    PROVE  OpenQty(b2) + OpenSell(b.orders[n]) = OpenQty(b) + OpenSell(o)
<1> DEFINE D == 1..Len(b.orders)
           f == [m \in D |-> OpenSell(b.orders[m])]
           g == [m \in D |-> OpenSell(b2.orders[m])]
<1>1. b.orders \in Seq(BrokerOrder) /\ b2.orders \in Seq(BrokerOrder) /\ Len(b.orders) \in Nat
  BY DEF Account
<1>2. Len(b2.orders) = Len(b.orders) /\ b2.orders[n] = o
      /\ \A m \in D : m # n => b2.orders[m] = b.orders[m]
  BY <1>1
<1>3. IsFiniteSet(D)
  BY <1>1, FS_Interval
<1>4. \A m \in D : f[m] \in Int /\ g[m] \in Int
  BY <1>1, <1>2, SeqElement, SellNatural
<1>5. \A m \in D \ {n} : f[m] = g[m]
  BY <1>2
<1>6. OpenQty(b) = SumFunctionOnSet(f, D) /\ OpenQty(b2) = SumFunctionOnSet(g, D)
      /\ f[n] = OpenSell(b.orders[n]) /\ g[n] = OpenSell(o) /\ n \in D
  BY <1>2 DEF OpenQty
<1>61. n \in D
  OBVIOUS
<1> HIDE DEF D, f, g
<1>7. SumFunctionOnSet(g, D) = SumFunctionOnSet(f, D) + (g[n] - f[n])
  <2>1. PICK S, x, v, w : S = D /\ x = n /\ v = f /\ w = g
    OBVIOUS
  <2>2. IsFiniteSet(S) /\ x \in S
    BY <1>3, <1>61, <2>1
  <2>3. \A y \in S : v[y] \in Int /\ w[y] \in Int
    BY <1>4, <2>1
  <2>4. \A y \in S \ {x} : v[y] = w[y]
    BY <1>5, <2>1
  <2>5. SumFunctionOnSet(w, S) = SumFunctionOnSet(v, S) + (w[x] - v[x])
    BY ONLY <2>2, <2>3, <2>4, SumChange
  <2> QED BY <2>1, <2>5
<1>8. OpenQty(b) \in Nat /\ f[n] \in Int /\ g[n] \in Int
  BY <1>4, <1>6, OpenQtyNatural
<1> QED BY <1>6, <1>7, <1>8

(* One order that joins.                                                   *)
LEMMA OpenQtyAppend ==
    ASSUME NEW b \in Account, NEW b2 \in Account, NEW o,
           b2.orders = Append(b.orders, o)
    PROVE  OpenQty(b2) = OpenQty(b) + OpenSell(o)
<1> DEFINE D == 1..Len(b.orders)
           k == Len(b.orders) + 1
           f == [m \in D |-> OpenSell(b.orders[m])]
           g == [m \in D \cup {k} |-> OpenSell(b2.orders[m])]
<1>1. b.orders \in Seq(BrokerOrder) /\ b2.orders \in Seq(BrokerOrder) /\ Len(b.orders) \in Nat
  BY DEF Account
<1>2. Len(b2.orders) = k /\ b2.orders[k] = o /\ \A m \in D : b2.orders[m] = b.orders[m]
  BY <1>1
<1>31. IsFiniteSet(D)
  BY <1>1, FS_Interval
<1>32. 1..Len(b2.orders) = D \cup {k} /\ k \notin D
  BY <1>1, <1>2
<1>3. IsFiniteSet(D) /\ 1..Len(b2.orders) = D \cup {k} /\ k \notin D
  BY <1>31, <1>32
<1>4. \A m \in D \cup {k} : g[m] \in Int
  BY <1>1, <1>3, SeqElement, SellNatural
<1>5. \A m \in D : f[m] = g[m]
  BY <1>2
<1>6. OpenQty(b) = SumFunctionOnSet(f, D) /\ OpenQty(b2) = SumFunctionOnSet(g, D \cup {k})
      /\ g[k] = OpenSell(o)
  BY <1>2, <1>3 DEF OpenQty
<1> HIDE DEF D, f, g, k
<1>7. SumFunctionOnSet(g, D \cup {k}) = SumFunctionOnSet(g, D) + g[k]
  BY <1>3, <1>4, SumAdd
<1>8. SumFunctionOnSet(f, D) = SumFunctionOnSet(g, D)
  BY <1>3, <1>5, SumAgree
<1> QED BY <1>6, <1>7, <1>8

(* An account in which nothing changes for the sells.                      *)
SameSells(b, b2) ==
    /\ b2.holding = b.holding /\ b2.inflight = b.inflight
    /\ Len(b2.orders) = Len(b.orders)
    /\ \A n \in 1..Len(b.orders) :
          /\ b2.orders[n].intent = b.orders[n].intent
          /\ Working(b2.orders[n]) => Working(b.orders[n])
          /\ OpenSell(b2.orders[n]) = OpenSell(b.orders[n])

(* Nor in one that does not change.                                        *)
LEMMA SameBrokerSells == ASSUME broker' = broker PROVE SameSells(broker, broker')
BY DEF SameSells

(* The sums of an account and of a process.                                *)
LEMMA CoverNumbers ==
    ASSUME IInv, CoverInv
    PROVE  /\ broker \in Account /\ broker.holding \in Nat /\ OpenQty(broker) \in Nat
           /\ SellTotal(broker.inflight) \in Nat /\ Exposed(broker) \in Nat
           /\ broker.inflight \in SUBSET Intent /\ IsFiniteSet(broker.inflight)
<1>1. broker \in Account
  BY DEF IInv, BooksOK
<1>2. broker.holding \in Nat /\ broker.inflight \in SUBSET Intent
  BY <1>1 DEF Account
<1>3. IsFiniteSet(broker.inflight)
  BY DEF CoverInv
<1>4. OpenQty(broker) \in Nat /\ SellTotal(broker.inflight) \in Nat
  BY <1>1, <1>2, <1>3, OpenQtyNatural, SellTotalNatural
<1> QED BY <1>1, <1>2, <1>3, <1>4 DEF Exposed

(* What a run may still send.                                              *)
LEMMA LeftNumbers ==
    ASSUME IInv, CoverInv, NEW p \in Procs, proc[p].pc \in InHand
    PROVE  /\ proc[p].todo \in SUBSET Intent /\ IsFiniteSet(proc[p].todo)
           /\ SellTotal(proc[p].todo) \in Nat /\ LeftQty(proc[p]) \in Nat
           /\ proc[p].pc = "exec_place" => SellQty(proc[p].intent) \in Nat
<1>1. proc[p] \in Locals /\ LocalInv(proc[p], db, broker)
  BY DEF IInv
<1>2. proc[p].todo \in SUBSET Intent
  BY <1>1 DEF Locals
<1>3. IsFiniteSet(proc[p].todo)
  BY DEF CoverInv, Covered
<1>4. SellTotal(proc[p].todo) \in Nat
  BY <1>2, <1>3, SellTotalNatural
<1>5. proc[p].pc = "exec_place" => proc[p].intent \in Intent
  BY <1>1 DEF LocalInv, Grounded, Sending
<1>6. proc[p].pc = "exec_place" => SellQty(proc[p].intent) \in Nat
  BY <1>5, SellNatural
<1> QED BY <1>2, <1>3, <1>4, <1>6 DEF LeftQty

(* A step of process p that keeps the account covered.                     *)
LEMMA OwnCover ==
    ASSUME IInv, CoverInv, NEW p \in Procs, Others(p), clock' = clock,
           IsFiniteSet(broker'.inflight), IsFiniteSet(db'.intents["PENDING"]),
           \A n \in 1..Len(broker'.orders) :
              Working(broker'.orders[n]) => broker'.orders[n].intent.day = clock.day,
           \A i \in broker'.inflight : i.day = clock.day,
           Exposed(broker') <= broker'.holding,
           Covered(proc'[p], broker', clock),
           \A q \in Procs \ {p} :
              proc[q].pc \in Executing /\ proc[q].phase = "SELL" =>
                 Exposed(broker') + LeftQty(proc[q]) <= broker'.holding
    PROVE  CoverInv'
<1>1. ASSUME NEW q \in Procs PROVE Covered(proc'[q], broker', clock)
  <2>1. CASE q = p
    BY <2>1
  <2>2. CASE q # p
    <3>1. proc'[q] = proc[q] /\ Covered(proc[q], broker, clock)
      BY <2>2 DEF Others, CoverInv
    <3> QED BY <2>2, <3>1 DEF Covered
  <2> QED BY <2>1, <2>2
<1> QED BY <1>1 DEF CoverInv

(* A step that does not touch what may be sold.                            *)
LEMMA QuietCover ==
    ASSUME IInv, CoverInv, NEW p \in Procs, Others(p), clock' = clock,
           SameSells(broker, broker'), broker' \in Account,
           IsFiniteSet(db'.intents["PENDING"]), Covered(proc'[p], broker, clock)
    PROVE  CoverInv'
<1>1. broker \in Account
  BY DEF IInv, BooksOK
<1>2. OpenQty(broker') = OpenQty(broker)
  BY <1>1, OpenQtySame DEF SameSells
<1>3. Exposed(broker') = Exposed(broker) /\ broker'.holding = broker.holding
      /\ broker'.inflight = broker.inflight
  BY <1>2 DEF Exposed, SameSells
<1>4. Covered(proc'[p], broker', clock)
  BY <1>3 DEF Covered
<1>5. \A n \in 1..Len(broker'.orders) :
         Working(broker'.orders[n]) => broker'.orders[n].intent.day = clock.day
  BY DEF SameSells, CoverInv
<1>6. \A q \in Procs \ {p} :
         proc[q].pc \in Executing /\ proc[q].phase = "SELL" =>
            Exposed(broker') + LeftQty(proc[q]) <= broker'.holding
  BY <1>3 DEF CoverInv, Covered
<1>7. /\ IsFiniteSet(broker'.inflight) /\ \A i \in broker'.inflight : i.day = clock.day
      /\ Exposed(broker') <= broker'.holding
  BY <1>3 DEF CoverInv
<1> QED BY <1>4, <1>5, <1>6, <1>7, OwnCover

(* A process that executes nothing has nothing to cover.                   *)
LEMMA NeutralCovered ==
    ASSUME NEW l, NEW b, NEW c, l.pc \in Neutral, l.cmd = "tick" => l.day = c.day
    PROVE  Covered(l, b, c)
<1>1. l.pc \notin InHand /\ l.pc \notin Executing
  BY Labels DEF InHand, Planning
<1> QED BY <1>1 DEF Covered

(* A process that has returned or stays aside.                             *)
LEMMA AsideCover ==
    ASSUME IInv, CoverInv, NEW p \in Procs, Returns(p), clock' = clock,
           SameSells(broker, broker'), broker' \in Account, db'.intents = db.intents
    PROVE  CoverInv'
<1>1. proc[p].cmd = "tick" => proc[p].day = clock.day
  BY DEF CoverInv, Covered
<1>2. IsFiniteSet(db'.intents["PENDING"])
  BY DEF CoverInv
<1>3. CASE Aside(p)
  <2>1. Others(p) /\ proc'[p].pc \in Neutral
    BY <1>3 DEF Aside, Resting
  <2>2. proc'[p].cmd = "tick" => proc'[p].day = clock.day
    BY <1>1, <1>3 DEF Aside, Resting, SameJob
  <2>3. Covered(proc'[p], broker, clock)
    BY <2>1, <2>2, NeutralCovered
  <2> QED BY <1>2, <2>1, <2>3, QuietCover
<1>4. CASE proc' = [proc EXCEPT ![p] = Keep(proc[p], "plan_read")]
  <2>1. Others(p) /\ proc'[p] = Keep(proc[p], "plan_read")
    BY <1>4 DEF IInv, Others
  <2>2. /\ proc'[p].pc = "plan_read" /\ proc'[p].cmd = proc[p].cmd
        /\ proc'[p].day = proc[p].day
    BY <2>1 DEF Keep, Fresh
  <2>3. Covered(proc'[p], broker, clock)
    BY <1>1, <2>2 DEF Covered, InHand, Executing
  <2> QED BY <1>2, <2>1, <2>3, QuietCover
<1> QED BY <1>3, <1>4 DEF Returns

(* What a reconciliation writes beside the intents.                        *)
LEMMA WritesBeside ==
    ASSUME NEW d \in Database
    PROVE  /\ \A s : SaveState(d, s).intents = d.intents
           /\ \A s, done : SaveReconciledState(d, s, done).intents = d.intents
           /\ \A st : SetProfileStatus(d, st).intents = d.intents
           /\ \A n, st : UpdateOrderStatus(d, n, st).intents = d.intents
           /\ \A f : AddFill(d, f).intents = d.intents
           /\ \A on : SetEmergency(d, on).intents = d.intents
           /\ \A key : ClaimAutomation(d, key).intents = d.intents
BY DEF Database, SaveState, SaveReconciledState, SetProfileStatus, UpdateOrderStatus, AddFill,
       SetEmergency, ClaimAutomation

(* A reconciliation leaves the broker and the intents alone.               *)
LEMMA ReconcileQuiet ==
    ASSUME IInv, NEW p \in Procs, ReconcileStep(p)
    PROVE  broker' = broker /\ clock' = clock /\ db'.intents = db.intents
<1>0. db \in Database
  BY DEF IInv, BooksOK
<1>1. CASE RecState(p) \/ RecOrders(p) \/ RecPending(p) \/ RecFold(p) \/ RecUnknown(p)
  BY <1>1 DEF RecState, RecOrders, RecPending, RecFold, RecUnknown
<1>2. CASE BrokerFails(p) /\ (RecHistory(p) \/ RecHolding(p))
  BY <1>2 DEF BrokerFails
<1>3. CASE ~BrokerFails(p) /\ RecHistory(p)
  BY <1>3 DEF RecHistory
<1>4. CASE ~BrokerFails(p) /\ RecHolding(p)
  BY <1>4 DEF RecHolding
<1>5. CASE RecRow(p)
  <2>1. PICK row : RecKnownRow(p, row) \/ RecAlienRow(p, row)
    BY <1>5 DEF RecRow
  <2>2. CASE RecKnownRow(p, row)
    BY <1>0, <2>2, WritesBeside DEF RecKnownRow
  <2>3. CASE RecAlienRow(p, row)
    <3>1. UNCHANGED <<broker, clock>> /\ (db' = db \/ \E s : db' = SaveState(db, s))
      BY <2>3 DEF RecAlienRow
    <3> QED BY <1>0, <3>1, WritesBeside
  <2> QED BY <2>1, <2>2, <2>3
<1>6. CASE RecFill(p)
  BY <1>0, <1>6, WritesBeside DEF RecFill
<1>7. CASE RecLock(p)
  BY <1>0, <1>7, WritesBeside DEF RecLock
<1>8. CASE RecQuit(p)
  BY <1>0, <1>8, WritesBeside DEF RecQuit
<1>9. CASE RecSave(p)
  BY <1>0, <1>9, WritesBeside DEF RecSave
<1>10. CASE RecFlag(p)
  <2>1. UNCHANGED <<broker, clock>> /\ (db' = db \/ \E s : db' = SaveState(db, s))
    BY <1>10 DEF RecFlag, SaveOrAbort
  <2> QED BY <1>0, <2>1, WritesBeside
<1>11. CASE RecClear(p)
  <2>1. UNCHANGED <<broker, clock>> /\ (db' = db \/ \E s : db' = SaveState(db, s))
    BY <1>11 DEF RecClear
  <2> QED BY <1>0, <2>1, WritesBeside
<1> QED BY <1>1, <1>2, <1>3, <1>4, <1>5, <1>6, <1>7, <1>8, <1>9, <1>10, <1>11 DEF ReconcileStep

(* Other commands write beside the intents, and what they ask the broker   *)
(* to cancel still works until it does.                                    *)
LEMMA CommandQuiet ==
    ASSUME IInv, NEW p \in Procs, CommandStep(p)
    PROVE  SameSells(broker, broker') /\ clock' = clock /\ db'.intents = db.intents
<1>0. db \in Database /\ broker \in Account
  BY DEF IInv, BooksOK
<1>1. CASE StartReconcile(p) \/ StartOn(p) \/ StartCancel(p) \/ OffOrders(p) \/ OffCancelled(p)
           \/ OffCheck(p) \/ LockRead(p)
  BY <1>1, SameBrokerSells
     DEF StartReconcile, StartOn, StartCancel, OffOrders, OffCancelled, OffCheck, LockRead
<1>2. CASE StartOff(p) \/ OnSet(p) \/ OffUnknown(p) \/ LockStatus(p)
  <2>1. UNCHANGED <<broker, clock>> /\ (db' = db \/ \E st : db' = SetProfileStatus(db, st))
    BY <1>2 DEF StartOff, OnSet, OffUnknown, LockStatus
  <2> QED BY <1>0, <2>1, SameBrokerSells, WritesBeside
<1>3. CASE OffMark(p) \/ LockSave(p) \/ EmergencyStop(p)
  <2>1. CASE OffMark(p)
    BY <1>0, <2>1, SameBrokerSells, WritesBeside DEF OffMark
  <2>2. CASE LockSave(p)
    BY <1>0, <2>2, SameBrokerSells, WritesBeside DEF LockSave
  <2>3. CASE EmergencyStop(p)
    BY <1>0, <2>3, SameBrokerSells, WritesBeside DEF EmergencyStop
  <2> QED BY <1>3, <2>1, <2>2, <2>3
<1>4. CASE OffCancel(p)
  <2>1. db' = db /\ clock' = clock
    BY <1>4 DEF OffCancel
  <2>2. CASE broker' = broker
    BY <2>1, <2>2, SameBrokerSells
  <2>3. CASE broker' # broker
    <3>1. PICK n : /\ n \in proc[p].cancel /\ Working(broker.orders[n])
                   /\ broker' = [broker EXCEPT !.orders[n].cancelling = TRUE]
      BY <1>4, <2>3 DEF OffCancel
    <3>2. PICK o : o = [broker.orders[n] EXCEPT !.cancelling = TRUE]
      OBVIOUS
    <3>3. broker.orders \in Seq(BrokerOrder)
      BY <1>0 DEF Account
    <3>4. /\ broker'.orders = [broker.orders EXCEPT ![n] = o]
          /\ broker'.inflight = broker.inflight /\ broker'.holding = broker.holding
      BY <1>0, <3>1, <3>2 DEF Account
    <3>5. Len(broker'.orders) = Len(broker.orders)
          /\ \A m \in 1..Len(broker.orders) :
                broker'.orders[m] = IF m = n THEN o ELSE broker.orders[m]
      BY <3>3, <3>4
    <3>6. n \in 1..Len(broker.orders) =>
             /\ o.intent = broker.orders[n].intent /\ o.filled = broker.orders[n].filled
             /\ o.status = broker.orders[n].status
      <4> HAVE n \in 1..Len(broker.orders)
      <4>1. broker.orders[n] \in BrokerOrder
        BY <3>3, SeqElement
      <4> QED BY <3>2, <4>1 DEF BrokerOrder
    <3>7. n \in 1..Len(broker.orders) =>
             /\ o.intent = broker.orders[n].intent
             /\ Working(o) <=> Working(broker.orders[n])
             /\ OpenSell(o) = OpenSell(broker.orders[n])
      BY <3>6 DEF Working, Remaining, OpenSell
    <3>8. SameSells(broker, broker')
      BY <3>4, <3>5, <3>7 DEF SameSells
    <3> QED BY <2>1, <3>8
  <2> QED BY <2>2, <2>3
<1> QED BY <1>1, <1>2, <1>3, <1>4 DEF CommandStep

(* Reconciliations and other commands keep CoverInv.                       *)
LEMMA ReconcileCover ==
    ASSUME IInv, CoverInv, NEW p \in Procs, ReconcileStep(p)
    PROVE  CoverInv'
<1>1. broker' = broker /\ clock' = clock /\ db'.intents = db.intents
  BY ReconcileQuiet
<1>2. SameSells(broker, broker') /\ broker' \in Account
  BY <1>1, SameBrokerSells DEF IInv, BooksOK
<1>3. Returns(p)
  BY RecReturns
<1> QED BY <1>1, <1>2, <1>3, AsideCover

(* The other commands keep CoverInv.                                       *)
LEMMA CommandCover ==
    ASSUME IInv, CoverInv, NEW p \in Procs, CommandStep(p)
    PROVE  CoverInv'
<1>1. SameSells(broker, broker') /\ clock' = clock /\ db'.intents = db.intents
  BY CommandQuiet
<1>2. broker' \in Account
  BY CommandSteps DEF Advances, IInv, BooksOK
<1>3. CASE Aside(p)
  BY <1>1, <1>2, <1>3, AsideCover DEF Returns
<1>4. CASE UNCHANGED <<proc, broker>>
  <2>1. Others(p) /\ Covered(proc'[p], broker, clock) /\ IsFiniteSet(db'.intents["PENDING"])
    BY <1>1, <1>4 DEF CoverInv, Others
  <2> QED BY <1>1, <1>2, <2>1, QuietCover
<1> QED BY <1>3, <1>4, CommandsAside

(* So does the death of a process.                                         *)
LEMMA CrashCover ==
    ASSUME IInv, CoverInv, NEW p \in Procs, Crash(p)
    PROVE  CoverInv'
<1>1. UNCHANGED <<db, broker, clock>> /\ End(p)
  BY DEF Crash, Abort
<1>2. SameSells(broker, broker') /\ broker' \in Account /\ SameRequests(broker, broker')
  BY <1>1, SameBrokerSells, SameBroker DEF IInv, BooksOK
<1>3. Aside(p)
  BY <1>1, <1>2, EndAside
<1> QED BY <1>1, <1>2, <1>3, AsideCover DEF Returns

-----------------------------------------------------------------------------
(* The steps of a tick.                                                    *)

(* Nothing was sent for the slot of a tick that has sent nothing: then the *)
(* broker has no sell order at work, if the tick sells.                    *)
LEMMA NothingExposed ==
    ASSUME IInv, CoverInv, NEW day, NEW phase, phase = "SELL", day = clock.day,
           \A i \in Sent(broker) : SlotOf(i) # <<day, phase>>
    PROVE  /\ \A n \in 1..Len(broker.orders) : OpenSell(broker.orders[n]) = 0
           /\ Exposed(broker) = 0
<1>1. broker \in Account /\ IsFiniteSet(broker.inflight)
  BY CoverNumbers
<1>2. ASSUME NEW n \in 1..Len(broker.orders) PROVE OpenSell(broker.orders[n]) = 0
  <2>1. broker.orders[n].intent \in Sent(broker)
    BY DEF Sent
  <2>2. Working(broker.orders[n]) => broker.orders[n].intent.day = clock.day
    BY DEF CoverInv
  <2>3. Working(broker.orders[n]) => broker.orders[n].intent.phase # "SELL"
    BY <2>1, <2>2 DEF SlotOf
  <2> QED BY <2>3 DEF OpenSell
<1>3. \A i \in broker.inflight : i.phase # "SELL"
  BY DEF Sent, SlotOf, CoverInv
<1>4. OpenQty(broker) = 0
  BY <1>1, <1>2, OpenQtyZero
<1>5. SellTotal(broker.inflight) = 0
  BY <1>1, <1>3, SellTotalZero
<1> QED BY <1>2, <1>4, <1>5 DEF Exposed

(* A step of process p that leaves the account and the pending intents.    *)
LEMMA CalmCover ==
    ASSUME IInv, CoverInv, NEW p \in Procs, Others(p), UNCHANGED <<broker, clock>>,
           IsFiniteSet(db'.intents["PENDING"]), Covered(proc'[p], broker, clock)
    PROVE  CoverInv'
<1>1. SameSells(broker, broker') /\ broker' \in Account
  BY SameBrokerSells DEF IInv, BooksOK
<1> QED BY <1>1, QuietCover

(* A command that ends.                                                    *)
LEMMA EndCover ==
    ASSUME IInv, CoverInv, NEW p \in Procs, End(p), UNCHANGED <<broker, clock>>,
           IsFiniteSet(db'.intents["PENDING"])
    PROVE  CoverInv'
<1>1. Others(p) /\ proc'[p] = Fresh
  BY DEF End, Others, IInv
<1>2. Fresh.pc = "idle" /\ Fresh.cmd = "none"
  BY DEF Fresh
<1>3. Covered(Fresh, broker, clock)
  BY <1>2 DEF Covered, InHand, Executing
<1> QED BY <1>1, <1>3, CalmCover

(* A run before it executes.                                               *)
LEMMA PlanningCover ==
    ASSUME IInv, CoverInv, NEW p \in Procs, Others(p), UNCHANGED <<broker, clock>>,
           IsFiniteSet(db'.intents["PENDING"]),
           proc'[p].cmd = proc[p].cmd, proc'[p].day = proc[p].day,
           proc'[p].pc \notin Executing,
           proc'[p].pc \in InHand => IsFiniteSet(proc'[p].todo)
    PROVE  CoverInv'
<1>1. Covered(proc[p], broker, clock)
  BY DEF CoverInv
<1>2. Covered(proc'[p], broker, clock)
  BY <1>1 DEF Covered
<1> QED BY <1>2, CalmCover

(* The pending intents stay finitely many.                                 *)
LEMMA PendingFinite ==
    ASSUME NEW intents \in [IntentStatus -> SUBSET Intent], IsFiniteSet(intents["PENDING"]),
           NEW S, NEW st \in IntentStatus, st # "PENDING" \/ IsFiniteSet(S)
    PROVE  IsFiniteSet(Moved(intents, S, st)["PENDING"])
<1>1. "PENDING" \in IntentStatus
  BY DEF IntentStatus
<1>2. CASE st = "PENDING"
  <2>1. Moved(intents, S, st)["PENDING"] = intents["PENDING"] \cup S
    BY <1>1, <1>2 DEF Moved
  <2> QED BY <1>2, <2>1, FS_Union
<1>3. CASE st # "PENDING"
  <2>1. Moved(intents, S, st)["PENDING"] = intents["PENDING"] \ S
    BY <1>1, <1>3 DEF Moved
  <2>2. Moved(intents, S, st)["PENDING"] \subseteq intents["PENDING"]
    BY <2>1
  <2> QED BY <2>2, FS_Subset
<1> QED BY <1>2, <1>3

(* A plan has finitely many intents.                                       *)
LEMMA PlanFinite ==
    ASSUME NEW s, NEW day, NEW phase, NEW status
    PROVE  IsFiniteSet(Plan(s, day, phase, status))
<1> DEFINE intent(spec) == [day |-> day, phase |-> phase, role |-> spec[1], qty |-> spec[2],
                            version |-> s.version, status |-> status]
           specs == {x \in Specs(phase, s.quantity) : x[2] > 0}
<1>1. \E a, b : Specs(phase, s.quantity) \subseteq {a, b}
  BY DEF Specs
<1>2. PICK a, b : Specs(phase, s.quantity) \subseteq {a, b}
  BY <1>1
<1>3. {intent(spec) : spec \in specs} \subseteq {intent(a), intent(b)}
  BY <1>2
<1>4. Plan(s, day, phase, status) \in {{}, {intent(spec) : spec \in specs}}
  BY DEF Plan
<1> HIDE DEF intent, specs
<1>5. IsFiniteSet({intent(a), intent(b)})
  <2>1. PICK u, v : u = intent(a) /\ v = intent(b)
    OBVIOUS
  <2>2. {u, v} = {u} \cup {v} /\ IsFiniteSet({u}) /\ IsFiniteSet({v})
    BY FS_Singleton
  <2>3. IsFiniteSet({u, v})
    BY <2>2, FS_Union
  <2> QED BY <2>1, <2>3
<1> QED BY <1>3, <1>4, <1>5, FS_Subset, FS_EmptySet

(* What the steps before the execution keep.                               *)
LEMMA PlanCover ==
    ASSUME IInv, CoverInv, NEW p \in Procs,
           StartTick(p) \/ Claim(p) \/ ReadProfile(p) \/ PlanRead(p) \/ PlanSave(p)
             \/ PlanRecord(p) \/ ExecPending(p)
    PROVE  CoverInv'
<1>0. /\ proc \in [Procs -> Locals] /\ proc[p] \in Locals /\ db \in Database
      /\ IsFiniteSet(db.intents["PENDING"])
      /\ db.intents \in [IntentStatus -> SUBSET Intent]
  BY DEF IInv, BooksOK, CoverInv, Database
<1>1. CASE StartTick(p)
  <2>1. /\ proc' = [proc EXCEPT ![p] = Started("tick", clock.window, clock.day, "claim")]
        /\ UNCHANGED <<db, broker, clock>>
    BY <1>1 DEF StartTick
  <2>2. Others(p) /\ proc'[p].pc = "claim" /\ proc'[p].day = clock.day
    BY <1>0, <2>1 DEF Others, Started, Fresh
  <2>3. Covered(proc'[p], broker, clock)
    BY <2>2 DEF Covered, InHand, Executing
  <2> QED BY <1>0, <2>1, <2>2, <2>3, CalmCover
<1>2. CASE Claim(p)
  <2>1. UNCHANGED <<broker, clock>> /\ IsFiniteSet(db'.intents["PENDING"])
    BY <1>0, <1>2, WritesBeside DEF Claim
  <2>2. CASE End(p)
    BY <2>1, <2>2, EndCover
  <2>3. CASE Goto(p, "profile")
    <3>1. /\ Others(p) /\ proc'[p].pc = "profile" /\ proc'[p].cmd = proc[p].cmd
          /\ proc'[p].day = proc[p].day
      BY <1>0, <2>3 DEF Goto, Others, Locals
    <3> QED BY <2>1, <3>1, PlanningCover DEF InHand, Executing
  <2> QED BY <1>2, <2>2, <2>3 DEF Claim
<1>3. CASE ReadProfile(p)
  <2>1. /\ proc' = [proc EXCEPT ![p].on = (db.status = "ON"), ![p].pc = "rec_state"]
        /\ UNCHANGED <<db, broker, clock>>
    BY <1>3 DEF ReadProfile
  <2>2. /\ Others(p) /\ proc'[p].pc = "rec_state" /\ proc'[p].cmd = proc[p].cmd
        /\ proc'[p].day = proc[p].day
    BY <1>0, <2>1 DEF Others, Locals
  <2> QED BY <1>0, <2>1, <2>2, PlanningCover DEF InHand, Executing
<1>4. CASE PlanRead(p)
  <2>1. CASE Abort(p)
    BY <1>0, <2>1, EndCover DEF Abort
  <2>2. CASE ~Abort(p)
    <3>1. PICK s, base, todo, label :
             /\ proc' = [proc EXCEPT ![p].state = s, ![p].base = base,
                                     ![p].todo = todo, ![p].pc = label]
             /\ todo = Plan(s, proc[p].day, proc[p].phase, db.status)
             /\ label \in {"plan_record", "plan_save"}
             /\ UNCHANGED <<db, broker, clock>>
      BY <1>4, <2>2 DEF PlanRead
    <3>2. /\ Others(p) /\ proc'[p].pc = label /\ proc'[p].cmd = proc[p].cmd
          /\ proc'[p].day = proc[p].day /\ proc'[p].todo = todo
      BY <1>0, <3>1 DEF Others, Locals
    <3>3. IsFiniteSet(proc'[p].todo) /\ proc'[p].pc \notin Executing
      BY <3>1, <3>2, PlanFinite DEF Executing
    <3> QED BY <1>0, <3>1, <3>2, <3>3, PlanningCover
  <2> QED BY <2>1, <2>2
<1>5. CASE PlanSave(p)
  <2>0. proc[p].pc = "plan_save" /\ IsFiniteSet(proc[p].todo)
    BY <1>5 DEF PlanSave, At, CoverInv, Covered, InHand
  <2>1. UNCHANGED <<broker, clock>> /\ (db' = db \/ \E s : db' = SaveState(db, s))
    BY <1>5 DEF PlanSave, SaveOrAbort
  <2>2. IsFiniteSet(db'.intents["PENDING"])
    BY <1>0, <2>1, WritesBeside
  <2>3. CASE End(p)
    BY <2>1, <2>2, <2>3, EndCover
  <2>4. CASE ~End(p)
    <3>1. proc' = [proc EXCEPT ![p].pc = "plan_record", ![p].state = proc[p].state]
      BY <1>5, <2>4 DEF PlanSave, SaveOrAbort
    <3>2. /\ Others(p) /\ proc'[p].pc = "plan_record" /\ proc'[p].cmd = proc[p].cmd
          /\ proc'[p].day = proc[p].day /\ proc'[p].todo = proc[p].todo
      BY <1>0, <3>1 DEF Others, Locals
    <3> QED BY <2>0, <2>1, <2>2, <3>2, PlanningCover DEF Executing
  <2> QED BY <2>3, <2>4
<1>6. CASE PlanRecord(p)
  <2>0. proc[p].pc = "plan_record" /\ IsFiniteSet(proc[p].todo)
    BY <1>6 DEF PlanRecord, At, CoverInv, Covered, InHand
  <2>1. /\ db' = RecordDecision(db, proc[p].day, proc[p].phase, proc[p].todo)
        /\ proc' = [proc EXCEPT ![p] = Keep(proc[p], "exec_pending")]
        /\ UNCHANGED <<broker, clock>>
    BY <1>6 DEF PlanRecord, Enter
  <2>2. PICK S, T : /\ db'.intents = Moved(Moved(db.intents, S, "STALE"), T, "PENDING")
                    /\ S \subseteq Intent /\ T \subseteq proc[p].todo
    <3> DEFINE S == PendingIntents(db, proc[p].day, proc[p].phase) \ proc[p].todo
               T == proc[p].todo \ UNION {db.intents[s] : s \in IntentStatus}
    <3>1. db'.intents = Moved(Moved(db.intents, S, "STALE"), T, "PENDING")
      BY <1>0, <2>1 DEF RecordDecision, Database
    <3>2. S \subseteq Intent
      BY <1>0 DEF PendingIntents, IntentStatus
    <3> HIDE DEF S
    <3> QED BY <3>1, <3>2
  <2>3. "STALE" \in IntentStatus /\ "PENDING" \in IntentStatus
    BY DEF IntentStatus
  <2>4. Moved(db.intents, S, "STALE") \in [IntentStatus -> SUBSET Intent]
        /\ IsFiniteSet(Moved(db.intents, S, "STALE")["PENDING"])
    BY <1>0, <2>2, <2>3, MovedIntents, PendingFinite
  <2>5. IsFiniteSet(T)
    BY <2>0, <2>2, FS_Subset
  <2>6. IsFiniteSet(db'.intents["PENDING"])
    BY <2>2, <2>3, <2>4, <2>5, PendingFinite
  <2>7. Others(p) /\ proc'[p] = Keep(proc[p], "exec_pending")
    BY <1>0, <2>1 DEF Others
  <2>8. /\ proc'[p].pc = "exec_pending" /\ proc'[p].cmd = proc[p].cmd
        /\ proc'[p].day = proc[p].day
    BY <2>7 DEF Keep, Fresh
  <2> QED BY <2>1, <2>6, <2>7, <2>8, PlanningCover DEF InHand, Executing
<1>7. CASE ExecPending(p)
  <2>1. /\ proc' = [proc EXCEPT ![p].todo = PendingIntents(db, proc[p].day, proc[p].phase),
                                ![p].pc = "exec_gate"]
        /\ UNCHANGED <<db, broker, clock>>
    BY <1>7 DEF ExecPending
  <2>2. /\ Others(p) /\ proc'[p].pc = "exec_gate" /\ proc'[p].cmd = proc[p].cmd
        /\ proc'[p].day = proc[p].day
        /\ proc'[p].todo = PendingIntents(db, proc[p].day, proc[p].phase)
    BY <1>0, <2>1 DEF Others, Locals
  <2>3. proc'[p].todo \subseteq db.intents["PENDING"]
    BY <2>2 DEF PendingIntents
  <2>4. IsFiniteSet(proc'[p].todo)
    BY <1>0, <2>3, FS_Subset
  <2> QED BY <1>0, <2>1, <2>2, <2>4, PlanningCover DEF Executing
<1> QED BY <1>1, <1>2, <1>3, <1>4, <1>5, <1>6, <1>7

(* The gates pass no more shares than there are.                           *)
LEMMA GateCover ==
    ASSUME IInv, ScheduleInv, CoverInv, GateCovered, NEW p \in Procs, ExecGate(p)
    PROVE  CoverInv'
<1>0. /\ proc \in [Procs -> Locals] /\ proc[p] \in Locals /\ proc[p].pc = "exec_gate"
      /\ UNCHANGED <<db, broker, clock>> /\ IsFiniteSet(db'.intents["PENDING"])
  BY DEF IInv, CoverInv, ExecGate, At
<1>1. CASE End(p)
  BY <1>0, <1>1, EndCover
<1>2. CASE GatesPass(p) /\ Goto(p, "exec_check")
  <2>1. /\ Others(p) /\ proc'[p].pc = "exec_check" /\ proc'[p].cmd = proc[p].cmd
        /\ proc'[p].day = proc[p].day /\ proc'[p].phase = proc[p].phase
        /\ proc'[p].todo = proc[p].todo
    BY <1>0, <1>2 DEF Goto, Others, Locals
  <2>2. proc[p].pc \in InHand /\ proc[p].pc \in Planning \ {"claim"}
    BY <1>0 DEF InHand, Planning
  <2>3. IsFiniteSet(proc[p].todo) /\ SellTotal(proc[p].todo) \in Nat
    BY <2>2, LeftNumbers
  <2>4. Owner(proc[p]) /\ ~proc[p].submitted /\ proc[p].pc \notin Executing
        /\ Scheduled(proc[p], db.claims, Sent(broker))
    BY <2>2, PlanningOwner DEF ScheduleInv
  <2>5. proc[p].cmd = "tick" /\ Covered(proc[p], broker, clock)
    BY <2>4 DEF Owner, CoverInv
  <2>6. proc[p].day = clock.day
    BY <2>5 DEF Covered
  <2>7. LeftQty(proc'[p]) = SellTotal(proc[p].todo)
    BY <2>1, <2>3 DEF LeftQty
  <2>8. ASSUME proc[p].phase = "SELL"
        PROVE  Exposed(broker) + LeftQty(proc'[p]) <= broker.holding
    <3>1. \A i \in Sent(broker) : SlotOf(i) # <<proc[p].day, proc[p].phase>>
      BY <2>4 DEF Scheduled, Slot
    <3>2. Exposed(broker) = 0
      BY <2>6, <2>8, <3>1, NothingExposed
    <3>3. db.state.quantity <= broker.holding
      BY <1>0, <2>8 DEF GateCovered, At
    <3>4. SellTotal(proc[p].todo) <= db.state.quantity
      BY <1>2 DEF GatesPass
    <3>5. db.state.quantity \in Nat /\ broker.holding \in Nat
      BY CoverNumbers DEF IInv, BooksOK, Database, StateRow
    <3> QED BY <2>3, <2>7, <3>2, <3>3, <3>4, <3>5
  <2>9. Covered(proc'[p], broker, clock)
    BY <2>1, <2>3, <2>6, <2>8 DEF Covered
  <2> QED BY <1>0, <2>1, <2>9, CalmCover
<1> QED BY <1>1, <1>2 DEF ExecGate

(* A run while it executes, with less in hand.                             *)
LEMMA ExecutingCover ==
    ASSUME IInv, CoverInv, NEW p \in Procs, proc[p].pc \in Executing,
           Others(p), UNCHANGED <<broker, clock>>, IsFiniteSet(db'.intents["PENDING"]),
           proc'[p].cmd = proc[p].cmd, proc'[p].day = proc[p].day,
           proc'[p].phase = proc[p].phase, IsFiniteSet(proc'[p].todo),
           LeftQty(proc'[p]) \in Int, LeftQty(proc'[p]) <= LeftQty(proc[p])
    PROVE  CoverInv'
<1>1. Covered(proc[p], broker, clock)
  BY DEF CoverInv
<1>2. LeftQty(proc[p]) \in Nat /\ Exposed(broker) \in Nat /\ broker.holding \in Nat
  BY LeftNumbers, CoverNumbers DEF InHand
<1>3. proc[p].phase = "SELL" => Exposed(broker) + LeftQty(proc[p]) <= broker.holding
  BY <1>1 DEF Covered
<1>4. proc[p].phase = "SELL" => Exposed(broker) + LeftQty(proc'[p]) <= broker.holding
  BY <1>2, <1>3
<1>5. Covered(proc'[p], broker, clock)
  BY <1>1, <1>4 DEF Covered
<1> QED BY <1>5, CalmCover

(* The next intent is taken up or skipped.                                 *)
LEMMA CheckCover ==
    ASSUME IInv, CoverInv, NEW p \in Procs, ExecCheck(p)
    PROVE  CoverInv'
<1>0. /\ proc \in [Procs -> Locals] /\ proc[p] \in Locals /\ proc[p].pc = "exec_check"
      /\ UNCHANGED <<db, broker, clock>> /\ IsFiniteSet(db'.intents["PENDING"])
  BY DEF IInv, CoverInv, ExecCheck, At
<1>1. CASE End(p)
  BY <1>0, <1>1, EndCover
<1>2. CASE ~End(p)
  <2>1. PICK i \in proc[p].todo :
           proc' = [proc EXCEPT ![p].todo = proc[p].todo \ {i},
                                ![p].intent = IF HasOrderFor(db, i) THEN NoIntent ELSE i,
                                ![p].pc = IF HasOrderFor(db, i) THEN "exec_check"
                                                                ELSE "exec_place"]
    BY <1>2 DEF ExecCheck
  <2>2. /\ Others(p) /\ proc'[p].cmd = proc[p].cmd /\ proc'[p].day = proc[p].day
        /\ proc'[p].phase = proc[p].phase /\ proc'[p].todo = proc[p].todo \ {i}
        /\ \/ proc'[p].pc = "exec_check"
           \/ proc'[p].pc = "exec_place" /\ proc'[p].intent = i
    BY <1>0, <2>1 DEF Others, Locals
  <2>3. proc[p].pc \in InHand /\ proc[p].pc \in Executing
    BY <1>0 DEF InHand, Executing
  <2>4. /\ proc[p].todo \in SUBSET Intent /\ IsFiniteSet(proc[p].todo)
        /\ SellTotal(proc[p].todo) \in Nat
    BY <2>3, LeftNumbers
  <2>5. PICK T : T = proc[p].todo \ {i}
    OBVIOUS
  <2>6. /\ SellTotal(T) + SellQty(i) = SellTotal(proc[p].todo) /\ IsFiniteSet(T)
        /\ T \in SUBSET Intent
    BY <2>4, <2>5, SellTotalRemove
  <2>7. SellTotal(T) \in Nat /\ SellQty(i) \in Nat
    BY <2>4, <2>6, SellTotalNatural, SellNatural
  <2>8. LeftQty(proc[p]) = SellTotal(proc[p].todo)
    BY <1>0, <2>4 DEF LeftQty
  <2>9. LeftQty(proc'[p]) \in {SellTotal(T), SellTotal(T) + SellQty(i)}
    BY <2>2, <2>5, <2>7 DEF LeftQty
  <2>10. LeftQty(proc'[p]) \in Int /\ LeftQty(proc'[p]) <= LeftQty(proc[p])
    BY <2>6, <2>7, <2>8, <2>9
  <2> QED BY <1>0, <2>2, <2>3, <2>5, <2>6, <2>10, ExecutingCover
<1> QED BY <1>1, <1>2

(* The order is recorded, its fate is noted, or all is done.               *)
LEMMA RecordCover ==
    ASSUME IInv, CoverInv, NEW p \in Procs, ExecRecord(p) \/ ExecUnknown(p) \/ ExecDone(p)
    PROVE  CoverInv'
<1>0. /\ proc \in [Procs -> Locals] /\ proc[p] \in Locals /\ db \in Database
      /\ IsFiniteSet(db.intents["PENDING"])
      /\ db.intents \in [IntentStatus -> SUBSET Intent]
      /\ "SUBMITTED" \in IntentStatus /\ "UNKNOWN" \in IntentStatus
  BY DEF IInv, BooksOK, CoverInv, Database, IntentStatus
<1>1. CASE ExecRecord(p)
  <2>0. proc[p].pc = "exec_record" /\ UNCHANGED <<broker, clock>>
    BY <1>1 DEF ExecRecord, At
  <2>1. CASE End(p) /\ db' = db
    BY <1>0, <2>0, <2>1, EndCover
  <2>2. CASE ~(End(p) /\ db' = db)
    <3>1. /\ db' = RecordBrokerOrder(db, proc[p].order, proc[p].intent)
          /\ proc' = [proc EXCEPT ![p].submitted = TRUE, ![p].intent = NoIntent,
                                  ![p].order = 0, ![p].pc = "exec_check"]
      BY <1>1, <2>2 DEF ExecRecord
    <3>2. db'.intents = Moved(db.intents, {proc[p].intent}, "SUBMITTED")
      BY <1>0, <3>1 DEF RecordBrokerOrder, Database
    <3>3. IsFiniteSet(db'.intents["PENDING"])
      BY <1>0, <3>2, PendingFinite
    <3>4. /\ Others(p) /\ proc'[p].cmd = proc[p].cmd /\ proc'[p].day = proc[p].day
          /\ proc'[p].phase = proc[p].phase /\ proc'[p].todo = proc[p].todo
          /\ proc'[p].pc = "exec_check"
      BY <1>0, <3>1 DEF Others, Locals
    <3>5. proc[p].pc \in InHand /\ proc[p].pc \in Executing
      BY <2>0 DEF InHand, Executing
    <3>6. IsFiniteSet(proc[p].todo) /\ SellTotal(proc[p].todo) \in Nat
      BY <3>5, LeftNumbers
    <3>7. LeftQty(proc[p]) = SellTotal(proc[p].todo)
          /\ LeftQty(proc'[p]) = SellTotal(proc[p].todo)
      BY <2>0, <3>4, <3>6 DEF LeftQty
    <3> QED BY <2>0, <3>3, <3>4, <3>5, <3>6, <3>7, ExecutingCover
  <2> QED BY <2>1, <2>2
<1>2. CASE ExecUnknown(p)
  <2>1. UNCHANGED <<broker, clock>> /\ End(p)
        /\ db' = MarkIntentUnknown(db, proc[p].intent)
    BY <1>2 DEF ExecUnknown
  <2>2. db'.intents = Moved(db.intents, {proc[p].intent}, "UNKNOWN")
    BY <1>0, <2>1 DEF MarkIntentUnknown, Database
  <2>3. IsFiniteSet(db'.intents["PENDING"])
    BY <1>0, <2>2, PendingFinite
  <2> QED BY <2>1, <2>3, EndCover
<1>3. CASE ExecDone(p)
  <2>0. UNCHANGED <<db, broker, clock>>
    BY <1>3 DEF ExecDone
  <2>1. CASE End(p)
    BY <1>0, <2>0, <2>1, EndCover
  <2>2. CASE proc' = [proc EXCEPT ![p] = Keep(proc[p], "rec_state")]
    <3>1. Others(p) /\ proc'[p] = Keep(proc[p], "rec_state")
      BY <1>0, <2>2 DEF Others
    <3>2. /\ proc'[p].pc = "rec_state" /\ proc'[p].cmd = proc[p].cmd
          /\ proc'[p].day = proc[p].day
      BY <3>1 DEF Keep, Fresh
    <3> QED BY <1>0, <2>0, <3>1, <3>2, PlanningCover DEF InHand, Executing
  <2> QED BY <1>3, <2>1, <2>2 DEF ExecDone, Enter
<1> QED BY <1>1, <1>2, <1>3

(* What is sent was in the hands of the run before.                        *)
LEMMA ExposedGrows ==
    ASSUME IInv, CoverInv, broker' \in Account, NEW i \in Intent, i \notin broker.inflight,
           i.day = clock.day,
           \/ CanAccept /\ broker' = Accepted(broker, i)
           \/ broker' = [broker EXCEPT !.inflight = @ \cup {i}]
           \/ broker' = broker
    PROVE  /\ broker'.holding = broker.holding
           /\ Exposed(broker') \in Nat /\ Exposed(broker') <= Exposed(broker) + SellQty(i)
           /\ IsFiniteSet(broker'.inflight)
           /\ \A n \in 1..Len(broker'.orders) :
                 Working(broker'.orders[n]) => broker'.orders[n].intent.day = clock.day
           /\ \A j \in broker'.inflight : j.day = clock.day
<1>0. /\ broker \in Account /\ OpenQty(broker) \in Nat /\ SellTotal(broker.inflight) \in Nat
      /\ broker.inflight \in SUBSET Intent /\ IsFiniteSet(broker.inflight)
      /\ broker.orders \in Seq(BrokerOrder) /\ Len(broker.orders) \in Nat
      /\ SellQty(i) \in Nat
  BY CoverNumbers, SellNatural DEF Account
<1>1. CASE broker' = Accepted(broker, i)
  <2>1. /\ broker'.orders = Append(broker.orders, NewOrder(i))
        /\ broker'.inflight = broker.inflight /\ broker'.holding = broker.holding
    BY <1>0, <1>1 DEF Accepted, Account
  <2>2. NewOrder(i).intent = i /\ NewOrder(i).filled = 0 /\ NewOrder(i).status = "working"
    BY DEF NewOrder
  <2>3. i.qty \in Nat \ {0}
    BY DEF Intent
  <2>4. OpenSell(NewOrder(i)) = SellQty(i)
    BY <2>2, <2>3 DEF OpenSell, Working, Remaining, SellQty
  <2>5. OpenQty(broker') = OpenQty(broker) + SellQty(i)
    BY <1>0, <2>1, <2>4, OpenQtyAppend
  <2>6. Exposed(broker') = Exposed(broker) + SellQty(i) /\ Exposed(broker) \in Nat
    BY <1>0, <2>1, <2>5 DEF Exposed
  <2>7. ASSUME NEW n \in 1..Len(broker'.orders), Working(broker'.orders[n])
        PROVE  broker'.orders[n].intent.day = clock.day
    <3>1. CASE n \in 1..Len(broker.orders)
      <4>1. broker'.orders[n] = broker.orders[n]
        BY <1>0, <2>1, <3>1
      <4> QED BY <2>7, <3>1, <4>1 DEF CoverInv
    <3>2. CASE n \notin 1..Len(broker.orders)
      <4>1. broker'.orders[n] = NewOrder(i)
        BY <1>0, <2>1, <3>2
      <4> QED BY <2>2, <4>1
    <3> QED BY <3>1, <3>2
  <2> QED BY <1>0, <2>1, <2>6, <2>7 DEF CoverInv
<1>2. CASE broker' = [broker EXCEPT !.inflight = @ \cup {i}]
  <2>1. /\ broker'.orders = broker.orders /\ broker'.holding = broker.holding
        /\ broker'.inflight = broker.inflight \cup {i}
    BY <1>0, <1>2 DEF Account
  <2>2. SellTotal(broker.inflight \cup {i}) = SellTotal(broker.inflight) + SellQty(i)
    BY <1>0, SellTotalAdd
  <2>3. OpenQty(broker') = OpenQty(broker)
    BY <2>1 DEF OpenQty
  <2>4. Exposed(broker') = Exposed(broker) + SellQty(i) /\ Exposed(broker) \in Nat
    BY <1>0, <2>1, <2>2, <2>3 DEF Exposed
  <2>5. IsFiniteSet(broker'.inflight)
    BY <1>0, <2>1, FS_AddElement
  <2> QED BY <1>0, <2>1, <2>4, <2>5 DEF CoverInv
<1>3. CASE broker' = broker
  <2>1. Exposed(broker) \in Nat
    BY CoverNumbers
  <2> QED BY <1>0, <1>3, <2>1 DEF CoverInv
<1> QED BY <1>1, <1>2, <1>3

(* An intent is sent.                                                      *)
LEMMA PlaceCover ==
    ASSUME IInv, ScheduleInv, CoverInv, NEW p \in Procs, ExecPlace(p)
    PROVE  CoverInv'
<1> DEFINE i == proc[p].intent
<1>0. /\ proc \in [Procs -> Locals] /\ proc[p] \in Locals /\ proc[p].pc = "exec_place"
      /\ db' = db /\ clock' = clock /\ proc[p].pc \in Executing /\ proc[p].pc \in InHand
  BY DEF IInv, ExecPlace, At, Executing, InHand
<1>1. i \in Intent
  BY <1>0 DEF IInv, LocalInv, Grounded, Sending
<1>2. /\ Scheduled(proc[p], db.claims, Sent(broker)) /\ Covered(proc[p], broker, clock)
      /\ IsFiniteSet(db.intents["PENDING"]) /\ Exposed(broker) <= broker.holding
  BY DEF ScheduleInv, CoverInv
<1>3. /\ i \notin Sent(broker) /\ SlotOf(i) = Slot(proc[p])
      /\ proc[p].cmd = "tick" /\ Owner(proc[p])
  BY <1>0, <1>2 DEF Scheduled, Owner
<1>4. i.day = clock.day /\ i.phase = proc[p].phase /\ i \notin broker.inflight
      /\ proc[p].day = clock.day
  BY <1>2, <1>3 DEF SlotOf, Slot, Covered, Sent
<1>5. \/ CanAccept /\ broker' = Accepted(broker, i)
      \/ broker' = [broker EXCEPT !.inflight = @ \cup {i}]
      \/ broker' = broker
  BY PlaceOutcomes
<1>6. broker' \in Account
  BY ExecPlaceStep DEF Advances, IInv, BooksOK
<1>7. /\ SellTotal(proc[p].todo) \in Nat /\ SellQty(i) \in Nat
      /\ IsFiniteSet(proc[p].todo)
      /\ Exposed(broker) \in Nat /\ broker.holding \in Nat
  BY <1>0, LeftNumbers, CoverNumbers
<1> HIDE DEF i
<1>8. /\ broker'.holding = broker.holding
      /\ Exposed(broker') \in Nat /\ Exposed(broker') <= Exposed(broker) + SellQty(i)
      /\ IsFiniteSet(broker'.inflight)
      /\ \A n \in 1..Len(broker'.orders) :
            Working(broker'.orders[n]) => broker'.orders[n].intent.day = clock.day
      /\ \A j \in broker'.inflight : j.day = clock.day
  BY <1>1, <1>4, <1>5, <1>6, ExposedGrows
<1>9. LeftQty(proc[p]) = SellTotal(proc[p].todo) + SellQty(i)
  BY <1>0 DEF LeftQty, i
<1>10. proc[p].phase # "SELL" => SellQty(i) = 0
  BY <1>4 DEF SellQty
<1>11. proc[p].phase = "SELL" =>
          Exposed(broker) + (SellTotal(proc[p].todo) + SellQty(i)) <= broker.holding
  BY <1>0, <1>2, <1>9 DEF Covered
<1>12. Exposed(broker') <= broker'.holding
  BY <1>2, <1>7, <1>8, <1>10, <1>11
<1>13. \/ End(p)
       \/ \E order, label : /\ label \in {"exec_record", "exec_unknown"}
                            /\ proc' = [proc EXCEPT ![p].order = order, ![p].pc = label]
  <2>1. \/ End(p)
        \/ proc' = [proc EXCEPT ![p].order = Len(broker.orders) + 1, ![p].pc = "exec_record"]
        \/ proc' = [proc EXCEPT ![p].pc = "exec_unknown"]
    BY PlaceOutcomes
  <2>2. [proc EXCEPT ![p].pc = "exec_unknown"]
           = [proc EXCEPT ![p].order = proc[p].order, ![p].pc = "exec_unknown"]
    BY <1>0 DEF Locals
  <2> QED BY <2>1, <2>2
<1>14. Others(p) /\ Covered(proc'[p], broker', clock)
  <2>1. CASE End(p)
    <3>1. Others(p) /\ proc'[p] = Fresh
      BY <1>0, <2>1 DEF End, Others
    <3>2. Fresh.pc = "idle" /\ Fresh.cmd = "none"
      BY DEF Fresh
    <3> QED BY <3>1, <3>2 DEF Covered, InHand, Executing
  <2>2. CASE ~End(p)
    <3>1. PICK order, label :
             /\ label \in {"exec_record", "exec_unknown"}
             /\ proc' = [proc EXCEPT ![p].order = order, ![p].pc = label]
      BY <1>13, <2>2
    <3>2. /\ Others(p) /\ proc'[p].cmd = proc[p].cmd /\ proc'[p].day = proc[p].day
          /\ proc'[p].phase = proc[p].phase /\ proc'[p].pc = label
          /\ proc'[p].todo = proc[p].todo
      BY <1>0, <3>1 DEF Others, Locals
    <3>3. LeftQty(proc'[p]) = SellTotal(proc[p].todo)
      BY <1>7, <3>1, <3>2 DEF LeftQty
    <3>4. proc[p].phase = "SELL" => Exposed(broker') + LeftQty(proc'[p]) <= broker'.holding
      BY <1>7, <1>8, <1>11, <3>3
    <3> QED BY <1>4, <1>7, <3>2, <3>4 DEF Covered
  <2> QED BY <2>1, <2>2
<1>15. ASSUME NEW q \in Procs \ {p}, proc[q].pc \in Executing, proc[q].phase = "SELL"
       PROVE  Exposed(broker') + LeftQty(proc[q]) <= broker'.holding
  <2>1. /\ Scheduled(proc[q], db.claims, Sent(broker)) /\ Covered(proc[q], broker, clock)
        /\ LeftQty(proc[q]) \in Nat
    BY <1>15, LeftNumbers DEF ScheduleInv, CoverInv, InHand
  <2>2. Owner(proc[q]) /\ proc[q].cmd = "tick"
    BY <1>15, <2>1 DEF Scheduled, Owner, Executing
  <2>3. Slot(proc[q]) # Slot(proc[p])
    BY <1>3, <2>2 DEF ScheduleInv
  <2>4. proc[p].phase # "SELL"
    BY <1>4, <1>15, <2>1, <2>2, <2>3 DEF Slot, Covered
  <2>5. Exposed(broker) + LeftQty(proc[q]) <= broker.holding
    BY <1>15, <2>1 DEF Covered
  <2> QED BY <1>7, <1>8, <1>10, <2>1, <2>4, <2>5
<1> QED BY <1>0, <1>2, <1>8, <1>12, <1>14, <1>15, OwnCover

(* Every step of a tick keeps CoverInv.                                    *)
LEMMA RunCover ==
    ASSUME IInv, ScheduleInv, CoverInv, GateCovered, OnlyScheduledRuns,
           NEW p \in Procs, RunStep(p)
    PROVE  CoverInv'
<1>1. ~ \E phase \in Phase : StartRun(p, phase)
  BY DEF OnlyScheduledRuns, StartRun, MayStart
<1> QED BY <1>1, PlanCover, GateCover, CheckCover, PlaceCover, RecordCover DEF RunStep

-----------------------------------------------------------------------------
(* The steps of the broker.                                                *)

(* What may still be sold shrinks by no less than the shares held.         *)
LEMMA BrokerShrinks ==
    ASSUME IInv, CoverInv, UNCHANGED <<db, proc>>, clock'.day = clock.day,
           broker' \in Account, IsFiniteSet(broker'.inflight),
           \A n \in 1..Len(broker'.orders) :
              Working(broker'.orders[n]) => broker'.orders[n].intent.day = clock.day,
           \A i \in broker'.inflight : i.day = clock.day,
           Exposed(broker') + broker.holding <= Exposed(broker) + broker'.holding
    PROVE  CoverInv'
<1>1. /\ Exposed(broker) \in Nat /\ broker.holding \in Nat /\ broker'.holding \in Nat
      /\ Exposed(broker) <= broker.holding
  BY CoverNumbers DEF CoverInv, Account
<1>2. Exposed(broker') \in Nat
  <2>1. OpenQty(broker') \in Nat
    BY OpenQtyNatural
  <2>2. broker'.inflight \in SUBSET Intent
    BY DEF Account
  <2>3. SellTotal(broker'.inflight) \in Nat
    BY <2>2, SellTotalNatural
  <2> QED BY <2>1, <2>3 DEF Exposed
<1>3. ASSUME NEW p \in Procs PROVE Covered(proc[p], broker', clock')
  <2>1. Covered(proc[p], broker, clock)
    BY DEF CoverInv
  <2>2. ASSUME proc[p].pc \in Executing, proc[p].phase = "SELL"
        PROVE  Exposed(broker') + LeftQty(proc[p]) <= broker'.holding
    <3>1. LeftQty(proc[p]) \in Nat
      BY <2>2, LeftNumbers DEF InHand
    <3>2. Exposed(broker) + LeftQty(proc[p]) <= broker.holding
      BY <2>1, <2>2 DEF Covered
    <3> QED BY <1>1, <1>2, <3>1, <3>2
  <2> QED BY <2>1, <2>2 DEF Covered
<1>4. Exposed(broker') <= broker'.holding
  BY <1>1, <1>2
<1> QED BY <1>3, <1>4 DEF CoverInv

(* One order executes or is done with.                                     *)
LEMMA OneOrderShrinks ==
    ASSUME IInv, CoverInv, UNCHANGED <<db, proc, clock>>, broker' \in Account,
           NEW n \in 1..Len(broker.orders), NEW o,
           broker'.orders = [broker.orders EXCEPT ![n] = o],
           broker'.inflight = broker.inflight, Working(broker.orders[n]),
           o.intent = broker.orders[n].intent, OpenSell(o) \in Int,
           OpenSell(o) + broker.holding <= OpenSell(broker.orders[n]) + broker'.holding
    PROVE  CoverInv'
<1>1. /\ broker \in Account /\ OpenQty(broker) \in Nat /\ SellTotal(broker.inflight) \in Nat
      /\ broker.holding \in Nat /\ IsFiniteSet(broker.inflight) /\ broker'.holding \in Nat
      /\ broker.orders \in Seq(BrokerOrder)
  BY CoverNumbers DEF Account
<1>2. OpenQty(broker') + OpenSell(broker.orders[n]) = OpenQty(broker) + OpenSell(o)
  BY <1>1, OpenQtyChange
<1>3. OpenQty(broker') \in Nat /\ OpenSell(broker.orders[n]) \in Nat
  BY <1>1, OpenQtyNatural, SellNatural, SeqElement
<1>4. Exposed(broker') + broker.holding <= Exposed(broker) + broker'.holding
  BY <1>1, <1>2, <1>3 DEF Exposed
<1>5. \A m \in 1..Len(broker'.orders) :
         Working(broker'.orders[m]) => broker'.orders[m].intent.day = clock.day
  <2>1. Len(broker'.orders) = Len(broker.orders)
        /\ \A m \in 1..Len(broker.orders) :
              broker'.orders[m] = IF m = n THEN o ELSE broker.orders[m]
    BY <1>1
  <2> QED BY <2>1 DEF CoverInv
<1>6. \A i \in broker'.inflight : i.day = clock.day
  BY DEF CoverInv
<1> QED BY <1>1, <1>4, <1>5, <1>6, BrokerShrinks

(* An execution of a sell takes as many shares as the order loses.         *)
LEMMA ExecuteCover ==
    ASSUME IInv, CoverInv, UNCHANGED <<db, proc>>, broker' \in Account, NEW n, NEW q,
           Execute(n, q)
    PROVE  CoverInv'
<1>1. /\ broker \in Account /\ broker.orders \in Seq(BrokerOrder) /\ broker.holding \in Nat
      /\ n \in 1..Len(broker.orders) /\ Working(broker.orders[n]) /\ clock' = clock
      /\ q \in 1..Remaining(broker.orders[n])
  BY CoverNumbers DEF Execute, Account
<1>2. broker.orders[n] \in BrokerOrder
  BY <1>1, SeqElement
<1>3. PICK o, execs, holding :
         /\ o = [broker.orders[n] EXCEPT !.filled = @ + q]
         /\ broker' = [broker EXCEPT !.orders = [broker.orders EXCEPT ![n] = o],
                                     !.execs = execs, !.holding = holding]
         /\ holding = IF broker.orders[n].intent.phase = "SELL"
                        THEN broker.holding - q ELSE broker.holding + q
  BY DEF Execute
<1>4. /\ broker'.orders = [broker.orders EXCEPT ![n] = o]
      /\ broker'.inflight = broker.inflight /\ broker'.holding = holding
  BY <1>1, <1>3 DEF Account
<1>5. PICK old : old = broker.orders[n]
  OBVIOUS
<1>6. /\ old.intent \in Intent /\ old.filled \in Nat /\ old.status = "working"
      /\ o.intent = old.intent /\ o.status = old.status /\ o.filled = old.filled + q
  BY <1>1, <1>2, <1>3, <1>5 DEF BrokerOrder, Working
<1>7. old.intent.qty \in Nat
  BY <1>6 DEF Intent
<1>8. PICK r : r = Remaining(old)
  OBVIOUS
<1>9. r \in Int /\ q \in 1..r /\ Remaining(o) = r - q
  BY <1>1, <1>5, <1>6, <1>7, <1>8 DEF Remaining
<1>10. /\ OpenSell(old) = IF old.intent.phase = "SELL" THEN r ELSE 0
       /\ OpenSell(o) = IF old.intent.phase = "SELL" THEN r - q ELSE 0
  BY <1>6, <1>8, <1>9 DEF OpenSell, Working
<1>11. OpenSell(o) \in Int /\ OpenSell(o) + broker.holding <= OpenSell(old) + broker'.holding
  BY <1>1, <1>3, <1>4, <1>5, <1>9, <1>10
<1> QED BY <1>1, <1>4, <1>5, <1>6, <1>11, OneOrderShrinks

(* An order that is cancelled or rejected sells nothing any more.          *)
LEMMA OverCover ==
    ASSUME IInv, CoverInv, UNCHANGED <<db, proc>>, broker' \in Account, NEW n,
           CancelTakesEffect(n) \/ Reject(n)
    PROVE  CoverInv'
<1>1. /\ broker \in Account /\ broker.orders \in Seq(BrokerOrder) /\ broker.holding \in Nat
      /\ n \in 1..Len(broker.orders) /\ Working(broker.orders[n]) /\ clock' = clock
  BY CoverNumbers DEF CancelTakesEffect, Reject, Account
<1>2. broker.orders[n] \in BrokerOrder
  BY <1>1, SeqElement
<1>3. PICK o, st : /\ o = [broker.orders[n] EXCEPT !.status = st]
                   /\ st # "working"
                   /\ broker' = [broker EXCEPT !.orders = [broker.orders EXCEPT ![n] = o]]
  <2>1. PICK st : st # "working" /\ broker' = [broker EXCEPT !.orders[n].status = st]
    BY DEF CancelTakesEffect, Reject
  <2> QED BY <2>1
<1>4. /\ broker'.orders = [broker.orders EXCEPT ![n] = o]
      /\ broker'.inflight = broker.inflight /\ broker'.holding = broker.holding
  BY <1>1, <1>3 DEF Account
<1>5. o.intent = broker.orders[n].intent /\ o.status # "working"
  BY <1>2, <1>3 DEF BrokerOrder
<1>6. OpenSell(o) = 0 /\ OpenSell(broker.orders[n]) \in Nat
  BY <1>2, <1>5, SellNatural DEF OpenSell, Working
<1>7. OpenSell(o) \in Int
      /\ OpenSell(o) + broker.holding <= OpenSell(broker.orders[n]) + broker'.holding
  BY <1>1, <1>4, <1>6
<1> QED BY <1>1, <1>4, <1>5, <1>7, OneOrderShrinks

(* A request that arrives is exposed as before.                            *)
LEMMA ArrivalCover ==
    ASSUME IInv, CoverInv, UNCHANGED <<db, proc>>, broker' \in Account, NEW i, LateArrival(i)
    PROVE  CoverInv'
<1>1. /\ broker \in Account /\ broker.orders \in Seq(BrokerOrder) /\ broker.holding \in Nat
      /\ Len(broker.orders) \in Nat /\ OpenQty(broker) \in Nat
      /\ broker.inflight \in SUBSET Intent /\ IsFiniteSet(broker.inflight)
      /\ i \in broker.inflight /\ CanAccept /\ clock' = clock
  BY CoverNumbers DEF LateArrival, Account
<1>2. i \in Intent /\ i.day = clock.day
  BY <1>1 DEF CoverInv
<1>3. broker' = [Accepted(broker, i) EXCEPT !.inflight = @ \ {i}]
  BY DEF LateArrival
<1>4. Accepted(broker, i) \in Account /\ Accepted(broker, i).inflight = broker.inflight
      /\ Accepted(broker, i).orders = Append(broker.orders, NewOrder(i))
      /\ Accepted(broker, i).holding = broker.holding
  BY <1>1, <1>2, AcceptedAccount DEF Accepted, Account
<1>5. /\ broker'.orders = Append(broker.orders, NewOrder(i))
      /\ broker'.inflight = broker.inflight \ {i} /\ broker'.holding = broker.holding
  BY <1>3, <1>4 DEF Account
<1>6. NewOrder(i).intent = i /\ NewOrder(i).filled = 0 /\ NewOrder(i).status = "working"
  BY DEF NewOrder
<1>7. i.qty \in Nat \ {0}
  BY <1>2 DEF Intent
<1>8. OpenSell(NewOrder(i)) = SellQty(i) /\ SellQty(i) \in Nat
  BY <1>2, <1>6, <1>7, SellNatural DEF OpenSell, Working, Remaining, SellQty
<1>9. OpenQty(broker') = OpenQty(broker) + SellQty(i)
  BY <1>1, <1>5, <1>8, OpenQtyAppend
<1>10. PICK T : T = broker.inflight \ {i}
  OBVIOUS
<1>11. SellTotal(T) + SellQty(i) = SellTotal(broker.inflight) /\ IsFiniteSet(T)
  BY <1>1, <1>10, SellTotalRemove
<1>12. SellTotal(T) \in Nat
  BY <1>1, <1>10, <1>11, SellTotalNatural
<1>13. Exposed(broker') + broker.holding <= Exposed(broker) + broker'.holding
  BY <1>1, <1>5, <1>8, <1>9, <1>10, <1>11, <1>12 DEF Exposed
<1>14. ASSUME NEW n \in 1..Len(broker'.orders), Working(broker'.orders[n])
       PROVE  broker'.orders[n].intent.day = clock.day
  <2>1. CASE n \in 1..Len(broker.orders)
    <3>1. broker'.orders[n] = broker.orders[n]
      BY <1>1, <1>5, <2>1
    <3> QED BY <1>14, <2>1, <3>1 DEF CoverInv
  <2>2. CASE n \notin 1..Len(broker.orders)
    <3>1. broker'.orders[n] = NewOrder(i)
      BY <1>1, <1>5, <2>2
    <3> QED BY <1>2, <1>6, <3>1
  <2> QED BY <2>1, <2>2
<1>15. \A j \in broker'.inflight : j.day = clock.day
  BY <1>5 DEF CoverInv
<1> QED BY <1>1, <1>5, <1>10, <1>11, <1>13, <1>14, <1>15, BrokerShrinks

(* Overnight all orders and requests are over, and no tick is left.        *)
LEMMA NextDayCover ==
    ASSUME IInv, ScheduleInv, CoverInv, UNCHANGED <<db, proc>>, broker' \in Account, NextDay,
           TicksInSession
    PROVE  CoverInv'
<1>1. /\ broker \in Account /\ broker.orders \in Seq(BrokerOrder) /\ broker.holding \in Nat
      /\ Len(broker.orders) \in Nat /\ clock.day \in Nat
  BY CoverNumbers, BoundsAssumption DEF Account, IInv, Clock, Day
<1>2. clock'.day = clock.day + 1
  BY DEF NextDay
<1>3. \A p \in Procs : proc[p].cmd # "tick"
  BY <1>1, <1>2 DEF TicksInSession
<1>4. PICK st \in {"cancelled", "lapsed"} : broker' = [broker EXCEPT
          !.orders = [n \in DOMAIN broker.orders |-> Expired(broker.orders[n], st)],
          !.inflight = {}]
  BY DEF NextDay
<1>5. /\ broker'.orders = [n \in DOMAIN broker.orders |-> Expired(broker.orders[n], st)]
      /\ broker'.inflight = {} /\ broker'.holding = broker.holding
  BY <1>1, <1>4 DEF Account
<1>6. \A n \in 1..Len(broker'.orders) : ~Working(broker'.orders[n])
  <2>1. DOMAIN broker'.orders = DOMAIN broker.orders
    BY <1>5
  <2>2. broker'.orders \in Seq(BrokerOrder)
    BY DEF Account
  <2>3. ASSUME NEW n \in DOMAIN broker.orders PROVE ~Working(broker'.orders[n])
    <3>1. broker'.orders[n] = Expired(broker.orders[n], st)
      BY <1>5
    <3>2. broker.orders[n] \in BrokerOrder
      BY <1>1, SeqElement
    <3>3. Working(broker.orders[n]) => Expired(broker.orders[n], st).status = st
      BY <3>2 DEF Expired, BrokerOrder
    <3> QED BY <3>1, <3>3 DEF Expired, Working
  <2> QED BY <2>1, <2>2, <2>3
<1>7. \A n \in 1..Len(broker'.orders) : OpenSell(broker'.orders[n]) = 0
  BY <1>6 DEF OpenSell
<1>8. OpenQty(broker') = 0
  BY <1>7, OpenQtyZero
<1>9. SellTotal(broker'.inflight) = 0 /\ IsFiniteSet(broker'.inflight)
  BY <1>5, SellTotalZero, FS_EmptySet
<1>10. Exposed(broker') <= broker'.holding
  BY <1>1, <1>5, <1>8, <1>9 DEF Exposed
<1>11. ASSUME NEW p \in Procs PROVE Covered(proc[p], broker', clock')
  <2>1. Covered(proc[p], broker, clock) /\ Scheduled(proc[p], db.claims, Sent(broker))
    BY DEF CoverInv, ScheduleInv
  <2>2. proc[p].pc \notin Executing
    BY <1>3, <2>1 DEF Scheduled
  <2> QED BY <1>3, <2>1, <2>2 DEF Covered
<1> QED BY <1>5, <1>6, <1>9, <1>10, <1>11 DEF CoverInv

(* Every step of the broker keeps CoverInv.                                *)
LEMMA BrokerCover ==
    ASSUME IInv, ScheduleInv, CoverInv, BrokerNext, UNCHANGED <<db, proc>>, TicksInSession
    PROVE  CoverInv'
<1>1. broker' \in Account
  BY BrokerSteps DEF IInv, BooksOK
<1>2. CASE WindowPasses
  <2>1. broker' = broker /\ clock'.day = clock.day
    BY <1>2 DEF WindowPasses, IInv, Clock
  <2>2. Exposed(broker) \in Nat /\ broker.holding \in Nat
    BY CoverNumbers
  <2>3. Exposed(broker') + broker.holding <= Exposed(broker) + broker'.holding
    BY <2>1, <2>2
  <2>4. /\ IsFiniteSet(broker'.inflight) /\ \A i \in broker'.inflight : i.day = clock.day
        /\ \A n \in 1..Len(broker'.orders) :
              Working(broker'.orders[n]) => broker'.orders[n].intent.day = clock.day
    BY <2>1 DEF CoverInv
  <2> QED BY <1>1, <2>1, <2>3, <2>4, BrokerShrinks
<1> QED BY <1>1, <1>2, ExecuteCover, OverCover, ArrivalCover, NextDayCover DEF BrokerNext

(* Every step keeps CoverInv, as long as no tick outlives its session and  *)
(* the gates count no more than there is.                                  *)
LEMMA NextCover ==
    ASSUME IInv, ScheduleInv, CoverInv, GateCovered, OnlyScheduledRuns, TicksInSession,
           [Next]_vars
    PROVE  CoverInv'
<1>1. CASE UNCHANGED vars
  <2>1. UNCHANGED <<db, broker, clock, proc>>
    BY <1>1 DEF vars
  <2> QED BY <2>1 DEF CoverInv
<1>2. ASSUME NEW p \in Procs, ProcessNext(p) PROVE CoverInv'
  BY <1>2, RunCover, ReconcileCover, CommandCover, CrashCover DEF ProcessNext
<1> QED BY <1>1, <1>2, BrokerCover DEF Next

(* At first nothing is for sale.                                           *)
LEMMA InitCover == Init => CoverInv
<1> SUFFICES ASSUME Init PROVE CoverInv
  OBVIOUS
<1>1. IInv /\ broker \in Account /\ InitialQty \in Nat
  BY InitIInv, BoundsAssumption DEF IInv, BooksOK
<1>2. Len(broker.orders) = 0 /\ broker.inflight = {} /\ broker.holding = InitialQty
  BY DEF Init, BrokerInit
<1>3. OpenQty(broker) = 0
  BY <1>1, <1>2, OpenQtyZero
<1>4. SellTotal(broker.inflight) = 0 /\ IsFiniteSet(broker.inflight)
  BY <1>2, SellTotalZero, FS_EmptySet
<1>5. db.intents["PENDING"] = {}
  BY DEF Init, StoreInit, IntentStatus
<1>6. ASSUME NEW p \in Procs PROVE Covered(proc[p], broker, clock)
  <2>1. proc[p] \in {Fresh, Absent}
    BY DEF Init, ProcessInit
  <2>2. proc[p].pc \in {"idle", "absent"} /\ proc[p].cmd = "none"
    BY <2>1 DEF Fresh, Absent
  <2> QED BY <2>2 DEF Covered, InHand, Executing
<1> QED BY <1>1, <1>2, <1>3, <1>4, <1>5, <1>6, FS_EmptySet DEF CoverInv, Exposed

(* What is covered together with what is under way is covered.             *)
LEMMA CoverMeans ==
    ASSUME IInv, CoverInv PROVE OpenSellsCovered
<1>1. /\ OpenQty(broker) \in Nat /\ SellTotal(broker.inflight) \in Nat /\ broker.holding \in Nat
      /\ OpenQty(broker) + SellTotal(broker.inflight) <= broker.holding
  BY CoverNumbers DEF CoverInv, Exposed
<1>2. OpenQty(broker) <= broker.holding
  BY <1>1
<1> QED BY <1>2 DEF OpenSellsCovered, OpenQty

-----------------------------------------------------------------------------
(* The holding is the initial one moved by all executions.                 *)
HoldsAll(b) == b.holding = PositionAfter(b, 1..Len(b.execs))
HoldingInv == HoldsAll(broker)

(* An account in which nothing executes holds what it held.                *)
LEMMA HoldingKept ==
    ASSUME IInv, IInv', HoldingInv, Grows(db, db', broker, broker'),
           broker'.execs = broker.execs, broker'.holding = broker.holding
    PROVE  HoldingInv'
<1>1. BooksOK(db, broker) /\ broker' \in Account
  BY DEF IInv, BooksOK
<1>2. PositionAfter(broker', 1..Len(broker.execs)) = PositionAfter(broker, 1..Len(broker.execs))
  BY <1>1, PositionKept
<1> QED BY <1>2 DEF HoldingInv, HoldsAll

(* No command moves shares.                                                *)
LEMMA ProcessHolds ==
    ASSUME IInv, NEW p \in Procs, ProcessNext(p)
    PROVE  broker'.holding = broker.holding
<1>0. broker \in Account
  BY DEF IInv, BooksOK
<1>1. CASE ReconcileStep(p)
  BY <1>1, ReconcileQuiet
<1>2. CASE RunStep(p)
  <2>1. CASE ExecPlace(p)
    <3>1. \/ broker' = Accepted(broker, proc[p].intent)
          \/ broker' = [broker EXCEPT !.inflight = @ \cup {proc[p].intent}]
          \/ broker' = broker
      BY <2>1, PlaceOutcomes
    <3> QED BY <1>0, <3>1 DEF Accepted, Account
  <2>2. CASE ~ExecPlace(p)
    <3>1. \/ \E phase \in Phase : StartRun(p, phase)
          \/ StartTick(p) \/ Claim(p) \/ ReadProfile(p)
          \/ PlanRead(p) \/ PlanSave(p) \/ PlanRecord(p)
          \/ ExecPending(p) \/ ExecGate(p) \/ ExecCheck(p)
          \/ ExecRecord(p) \/ ExecUnknown(p) \/ ExecDone(p)
      BY <1>2, <2>2 DEF RunStep
    <3> QED BY <3>1 DEF StartRun, StartTick, Claim, ReadProfile, PlanRead, Abort, PlanSave,
               SaveOrAbort, PlanRecord, ExecPending, ExecGate, ExecCheck, ExecRecord,
               ExecUnknown, ExecDone
  <2> QED BY <2>1, <2>2
<1>3. CASE CommandStep(p)
  BY <1>3, CommandQuiet DEF SameSells
<1>4. CASE Crash(p)
  BY <1>4 DEF Crash, Abort
<1> QED BY <1>1, <1>2, <1>3, <1>4 DEF ProcessNext

(* An execution moves the holding by what it moves the position.           *)
LEMMA ExecuteHolding ==
    ASSUME IInv, HoldingInv, NEW n, NEW q, Execute(n, q), UNCHANGED <<db, proc>>
    PROVE  HoldingInv'
<1> DEFINE k == Len(broker.execs) + 1
           K == 1..Len(broker.execs)
<1>1. /\ BooksOK(db, broker) /\ broker \in Account /\ broker.orders \in Seq(BrokerOrder)
      /\ broker.execs \in Seq([order : OrderNo, qty : Nat \ {0}])
      /\ Len(broker.execs) \in Nat /\ broker.holding \in Nat
  BY DEF IInv, BooksOK, Account
<1>2. /\ Grows(db, db', broker, broker') /\ broker' \in Account
      /\ 1..Len(broker'.execs) = K \cup {k}
  BY ExecuteStep DEF IInv, BooksOK
<1>3. n \in 1..Len(broker.orders) /\ q \in 1..Remaining(broker.orders[n])
  BY DEF Execute
<1>4. broker.orders[n] \in BrokerOrder
  BY <1>1, <1>3, SeqElement
<1>5. q \in Nat
  BY <1>3, <1>4 DEF Remaining, BrokerOrder, Intent
<1>6. /\ broker'.execs = Append(broker.execs, [order |-> n, qty |-> q])
      /\ broker'.holding = IF broker.orders[n].intent.phase = "SELL"
                             THEN broker.holding - q ELSE broker.holding + q
  BY <1>1 DEF Execute, Account
<1>7. broker'.execs[k].order = n /\ broker'.execs[k].qty = q
  BY <1>1, <1>6
<1>8. broker'.orders[n].intent = broker.orders[n].intent
  BY <1>2, <1>3 DEF Grows, KeepsIntents
<1>9. Move(broker', k) = IF broker.orders[n].intent.phase = "SELL" THEN -q ELSE q
  BY <1>7, <1>8 DEF Move
<1>10. broker'.holding = broker.holding + Move(broker', k)
  BY <1>1, <1>5, <1>6, <1>9
<1>11. PositionAfter(broker', K) = PositionAfter(broker, K)
  BY <1>1, <1>2, PositionKept
<1>12. k \notin K /\ K \in SUBSET (1..Len(broker'.execs)) /\ k \in 1..Len(broker'.execs)
  <2>1. k \notin K
    BY <1>1
  <2> HIDE DEF k, K
  <2> QED BY <1>2, <2>1
<1>13. PositionAfter(broker', K \cup {k}) = PositionAfter(broker', K) + Move(broker', k)
  <2> HIDE DEF k, K
  <2> QED BY <1>2, <1>12, PositionGrows
<1> HIDE DEF k
<1> QED BY <1>2, <1>10, <1>11, <1>13 DEF HoldingInv, HoldsAll

(* Every step keeps it.                                                    *)
LEMMA NextHolding ==
    ASSUME IInv, HoldingInv, [Next]_vars
    PROVE  HoldingInv'
<1>0. IInv' /\ Grows(db, db', broker, broker')
  BY NextIInv
<1>01. broker \in Account
  BY DEF IInv, BooksOK
<1>1. CASE UNCHANGED vars
  <2>1. broker' = broker
    BY <1>1 DEF vars
  <2> QED BY <1>0, <2>1, HoldingKept
<1>2. ASSUME NEW p \in Procs, ProcessNext(p) PROVE HoldingInv'
  BY <1>0, <1>2, ProcessHolds, ProcessSteps, HoldingKept DEF Advances
<1>3. CASE BrokerNext /\ UNCHANGED <<db, proc>>
  <2>1. ASSUME NEW n, NEW q, Execute(n, q) PROVE HoldingInv'
    BY <1>3, <2>1, ExecuteHolding
  <2>2. CASE \/ \E n \in 1..Len(broker.orders) : CancelTakesEffect(n) \/ Reject(n)
             \/ \E i \in broker.inflight : LateArrival(i)
             \/ WindowPasses \/ NextDay
    <3>1. broker'.execs = broker.execs
      BY <1>3, <2>2, CancelTakesEffectStep, RejectStep, LateArrivalStep, WindowPassesStep,
         NextDayStep
    <3>2. broker'.holding = broker.holding
      BY <1>01, <2>2 DEF CancelTakesEffect, Reject, LateArrival, WindowPasses, NextDay, Accepted,
                         Account
    <3> QED BY <1>0, <3>1, <3>2, HoldingKept
  <2> QED BY <1>3, <2>1, <2>2 DEF BrokerNext
<1> QED BY <1>1, <1>2, <1>3 DEF Next

(* At first nothing has executed.                                          *)
LEMMA InitHolding == Init => HoldingInv
<1> SUFFICES ASSUME Init PROVE HoldingInv
  OBVIOUS
<1>1. Len(broker.execs) = 0 /\ broker.holding = InitialQty /\ InitialQty \in Nat
  BY BoundsAssumption DEF Init, BrokerInit
<1>2. 1..Len(broker.execs) = {}
  BY <1>1
<1>3. SumFunctionOnSet(MovesOf(broker), {}) = 0
  BY SumEmpty
<1> QED BY <1>1, <1>2, <1>3 DEF HoldingInv, HoldsAll, PositionAfter

(* In the first session a sell phase that has sent nothing follows upon    *)
(* buys only, so the position is at most the holding.                      *)
LEMMA GateInSession ==
    ASSUME IInv, ScheduleInv, HoldingInv, MaxDay = 1
    PROVE  GateCovered
<1> SUFFICES ASSUME NEW p \in Procs, At(p, "exec_gate"), proc[p].phase = "SELL"
             PROVE  db.state.quantity <= broker.holding
  BY DEF GateCovered
<1>1. /\ broker \in Account /\ Positioned(db, broker) /\ proc[p] \in Locals
      /\ db.applied \in SUBSET (1..Len(broker.execs)) /\ Len(broker.execs) \in Nat
      /\ broker.orders \in Seq(BrokerOrder)
      /\ \A f \in 1..Len(broker.execs) : broker.execs[f].order \in 1..Len(broker.orders)
  BY DEF IInv, BooksOK, Account
<1>2. Owner(proc[p]) /\ ~proc[p].submitted /\ proc[p].pc \notin Executing
  BY PlanningOwner DEF At, Planning
<1>3. \A i \in Sent(broker) : SlotOf(i) # Slot(proc[p])
  BY <1>2 DEF ScheduleInv, Scheduled
<1>4. Day = {1}
  BY DEF Day
<1>5. proc[p].day = 1
  BY <1>1, <1>4 DEF Locals
<1>6. ASSUME NEW n \in 1..Len(broker.orders) PROVE broker.orders[n].intent.phase # "SELL"
  <2>1. broker.orders[n].intent \in Sent(broker)
    BY DEF Sent
  <2>2. broker.orders[n] \in BrokerOrder
    BY <1>1, SeqElement
  <2>3. broker.orders[n].intent \in Intent
    BY <2>2 DEF BrokerOrder
  <2>4. broker.orders[n].intent.day = 1
    BY <1>4, <2>3 DEF Intent
  <2> QED BY <1>3, <1>5, <2>1, <2>4 DEF SlotOf, Slot
<1>7. \A f \in 1..Len(broker.execs) : MovesOf(broker)[f] \in Nat
  <2>1. ASSUME NEW f \in 1..Len(broker.execs) PROVE MovesOf(broker)[f] \in Nat
    <3>1. broker.execs[f].qty \in Nat
      BY <1>1, MoveInteger
    <3>2. Move(broker, f) = broker.execs[f].qty
      BY <1>1, <1>6 DEF Move
    <3> QED BY <3>1, <3>2 DEF MovesOf
  <2> QED BY <2>1
<1> DEFINE all == SumFunctionOnSet(MovesOf(broker), 1..Len(broker.execs))
           part == SumFunctionOnSet(MovesOf(broker), db.applied)
<1>8. IsFiniteSet(1..Len(broker.execs)) /\ IsFiniteSet(db.applied)
  BY <1>1, ExecsFinite
<1>9. part <= all
  BY <1>1, <1>7, <1>8, SumOfPart
<1>10. all \in Nat /\ part \in Nat
  BY <1>1, <1>7, <1>8, SumNatural
<1>11. broker.holding = InitialQty + all /\ db.state.quantity = InitialQty + part
  BY <1>1 DEF HoldingInv, HoldsAll, Positioned, PositionAfter
<1> HIDE DEF all, part
<1> QED BY <1>9, <1>10, <1>11, BoundsAssumption

(* _sell_specs and preflight_intents: within one session whose phases are  *)
(* run by automation tick only, the sell orders that may still execute     *)
(* never exceed the shares held, for any number of processes.              *)
THEOREM SellsCoveredInSession ==
    ASSUME OnlyScheduledRuns, MaxDay = 1
    PROVE  Spec => []OpenSellsCovered
<1>1. Init => ScheduleInv /\ CoverInv /\ HoldingInv
  BY InitSchedule, InitCover, InitHolding
<1>2. ASSUME IInv, ScheduleInv, CoverInv, HoldingInv, [Next]_vars
      PROVE  ScheduleInv' /\ CoverInv' /\ HoldingInv'
  <2>1. TicksInSession
    <3>1. clock \in Clock /\ clock' \in Clock
      BY <1>2, NextIInv DEF IInv
    <3>2. clock.day = 1 /\ clock'.day = 1
      BY <3>1 DEF Clock, Day
    <3> QED BY <3>2 DEF TicksInSession
  <2>2. GateCovered
    BY <1>2, GateInSession
  <2> QED BY <1>2, <2>1, <2>2, NextSchedule, NextCover, NextHolding
<1>3. IInv /\ CoverInv => OpenSellsCovered
  BY CoverMeans
<1> QED BY <1>1, <1>2, <1>3, Invariance, PTL DEF Spec

-----------------------------------------------------------------------------
(* Commands one at a time: the gate of a sell phase reads the position     *)
(* that the reconciliation before it compared with the holding, and until  *)
(* then no sell executes.                                                  *)

(* Labels from the comparison with the holding to the gates.               *)
Comparing == {"rec_holding", "rec_unknown", "rec_clear"}
Compared == {"rec_unknown", "rec_clear"} \cup Cleared

(* A tick of a sell phase that has sent nothing yet.                       *)
Intends(l) == Owner(l) /\ l.phase = "SELL" /\ ~l.submitted

(* The position it has compared is that of the row and is covered.         *)
Matched(l, d, b) ==
    /\ l.pc \in Comparing => l.state.quantity = d.state.quantity
    /\ Intends(l) /\ l.pc \in Compared => d.state.quantity <= b.holding
MatchedInv == \A p \in Procs : Matched(proc[p], db, broker)

(* A step of the one process.                                              *)
LEMMA MatchedStep ==
    ASSUME IInv, SoleInv, NEW p \in Procs, proc[p].pc # "absent", Others(p),
           Matched(proc'[p], db', broker')
    PROVE  MatchedInv'
<1>1. ASSUME NEW q \in Procs, q # p PROVE Matched(proc'[q], db', broker')
  <2>1. proc'[q] = proc[q] /\ proc[q].pc = "absent"
    BY <1>1 DEF SoleInv, Alone, At, Others
  <2>2. "absent" \notin Comparing \cup Compared
    BY DEF Comparing, Compared, Cleared
  <2> QED BY <2>1, <2>2 DEF Matched
<1> QED BY <1>1 DEF MatchedInv

(* A step that leads elsewhere.                                            *)
LEMMA ElsewhereMatched ==
    ASSUME IInv, SoleInv, NEW p \in Procs, proc[p].pc # "absent", Others(p),
           proc'[p].pc \notin Comparing \cup Compared
    PROVE  MatchedInv'
<1>1. Matched(proc'[p], db', broker')
  BY DEF Matched
<1> QED BY <1>1, MatchedStep

(* A command that ends, or goes on elsewhere.                              *)
LEMMA LeavesMatched ==
    ASSUME IInv, SoleInv, NEW p \in Procs, proc[p].pc # "absent",
           NEW m, proc' = [proc EXCEPT ![p] = m], m.pc \notin Comparing \cup Compared
    PROVE  MatchedInv'
<1>1. Others(p) /\ proc'[p] = m
  BY DEF IInv, Others
<1> QED BY <1>1, ElsewhereMatched

(* A command that is over has nothing to compare.                          *)
LEMMA EndMatched ==
    ASSUME IInv, SoleInv, NEW p \in Procs, proc[p].pc # "absent", End(p)
    PROVE  MatchedInv'
<1>1. Fresh.pc \notin Comparing \cup Compared
  BY DEF Fresh, Comparing, Compared, Cleared
<1> QED BY <1>1, LeavesMatched DEF End

(* What follows a reconciliation that compared.                            *)
LEMMA ResumeMatched ==
    ASSUME IInv, SoleInv, MatchedInv, NEW p \in Procs, NEW required, Resume(p, required),
           ~required => proc[p].pc \in Comparing \cap Compared,
           db'.state.quantity = db.state.quantity, broker' = broker,
           proc[p].pc # "absent"
    PROVE  MatchedInv'
<1>1. PICK m : /\ proc' = [proc EXCEPT ![p] = m]
               /\ m = CASE proc[p].cmd \in {"run", "tick"} /\ ~proc[p].submitted /\ ~required
                                                    -> Keep(proc[p], "plan_read")
                        [] proc[p].cmd = "on" /\ ~required -> Keep(proc[p], "on_set")
                        [] proc[p].cmd = "off" -> Keep(proc[p], IF required THEN "lock_status"
                                                                            ELSE "off_check")
                        [] OTHER -> Fresh
  BY DEF Resume
<1>2. \/ m = Fresh
      \/ \E label \in {"on_set", "lock_status", "off_check"} : m = Keep(proc[p], label)
      \/ ~required /\ m = Keep(proc[p], "plan_read")
  BY <1>1
<1>3. CASE m = Fresh
  BY <1>1, <1>3, EndMatched DEF End
<1>4. ASSUME NEW label \in {"on_set", "lock_status", "off_check"}, m = Keep(proc[p], label)
      PROVE  MatchedInv'
  <2>1. m.pc = label
    BY <1>4 DEF Keep, Fresh
  <2>2. m.pc \notin Comparing \cup Compared
    BY <2>1 DEF Comparing, Compared, Cleared
  <2> QED BY <1>1, <2>2, LeavesMatched
<1>5. CASE ~required /\ m = Keep(proc[p], "plan_read")
  <2>1. Others(p) /\ proc'[p] = m
    BY <1>1 DEF IInv, Others
  <2>2. /\ m.pc = "plan_read" /\ m.cmd = proc[p].cmd /\ m.phase = proc[p].phase
        /\ m.submitted = proc[p].submitted
    BY <1>5 DEF Keep, Fresh
  <2>3. Matched(proc[p], db, broker) /\ proc[p].pc \in Compared /\ proc[p].pc # "claim"
    BY <1>5 DEF MatchedInv, Comparing
  <2>4. Intends(m) => Intends(proc[p])
    BY <2>2, <2>3 DEF Intends, Owner
  <2>5. m.pc \notin Comparing
    BY <2>2 DEF Comparing
  <2>6. Matched(proc'[p], db', broker')
    BY <2>1, <2>3, <2>4, <2>5 DEF Matched
  <2> QED BY <2>1, <2>6, MatchedStep
<1> QED BY <1>2, <1>3, <1>4, <1>5

(* A reconciliation whose inquiry fails.                                   *)
LEMMA BrokerFailsMatched ==
    ASSUME IInv, SoleInv, NEW p \in Procs, proc[p].pc # "absent", BrokerFails(p)
    PROVE  MatchedInv'
<1>1. CASE Enter(p, "lock_status")
  <2>1. Keep(proc[p], "lock_status").pc = "lock_status"
    BY DEF Keep, Fresh
  <2>2. "lock_status" \notin Comparing \cup Compared
    BY DEF Comparing, Compared, Cleared
  <2> QED BY <1>1, <2>1, <2>2, LeavesMatched DEF Enter
<1> QED BY <1>1, EndMatched DEF BrokerFails

(* Every step of a reconciliation keeps MatchedInv.                        *)
LEMMA ReconcileMatched ==
    ASSUME IInv, SoleInv, FinalInv, MatchedInv, NEW p \in Procs, ReconcileStep(p)
    PROVE  MatchedInv'
<1>0. /\ proc \in [Procs -> Locals] /\ proc[p] \in Locals /\ db \in Database
      /\ Matched(proc[p], db, broker)
  BY DEF IInv, BooksOK, MatchedInv
<1>01. /\ broker' = broker
       /\ "rec_orders" \notin Comparing \cup Compared
       /\ "rec_history" \notin Comparing \cup Compared
       /\ "rec_row" \notin Comparing \cup Compared /\ "rec_fill" \notin Comparing \cup Compared
       /\ "rec_lock" \notin Comparing \cup Compared /\ "rec_apply" \notin Comparing \cup Compared
       /\ "rec_flag" \notin Comparing \cup Compared /\ "rec_quit" \notin Comparing \cup Compared
  BY ReconcileQuiet DEF Comparing, Compared, Cleared
<1>1. CASE RecState(p)
  <2>1. Others(p) /\ proc'[p].pc = "rec_orders" /\ proc[p].pc # "absent"
    BY <1>0, <1>1 DEF RecState, Others, At, Locals
  <2> QED BY <1>01, <2>1, ElsewhereMatched
<1>2. CASE RecOrders(p)
  <2>1. Others(p) /\ proc'[p].pc = "rec_history" /\ proc[p].pc # "absent"
    BY <1>0, <1>2 DEF RecOrders, Others, At, Locals
  <2> QED BY <1>01, <2>1, ElsewhereMatched
<1>3. CASE RecHistory(p)
  <2>0. proc[p].pc # "absent"
    BY <1>3 DEF RecHistory, At
  <2>1. CASE ~BrokerFails(p)
    <3>1. Others(p) /\ proc'[p].pc = "rec_row"
      BY <1>0, <1>3, <2>1 DEF RecHistory, Others, Locals
    <3> QED BY <1>01, <2>0, <3>1, ElsewhereMatched
  <2> QED BY <2>0, <2>1, BrokerFailsMatched
<1>4. CASE RecRow(p)
  <2>0. proc[p].pc # "absent"
    BY <1>4 DEF RecRow, At
  <2>1. PICK row : RecKnownRow(p, row) \/ RecAlienRow(p, row)
    BY <1>4 DEF RecRow
  <2>2. CASE RecKnownRow(p, row)
    <3>1. Others(p) /\ proc'[p].pc \in {"rec_row", "rec_fill"}
      BY <1>0, <2>2 DEF RecKnownRow, Others, Locals
    <3> QED BY <1>01, <2>0, <3>1, ElsewhereMatched
  <2>3. CASE RecAlienRow(p, row)
    <3>1. PICK l : /\ l.pc = "rec_lock"
                   /\ \/ proc' = [proc EXCEPT ![p] = l]
                      \/ \E s : proc' = [proc EXCEPT ![p] = [l EXCEPT !.state = s]]
                      \/ End(p)
                   /\ \A s : [l EXCEPT !.state = s].pc = "rec_lock"
      <4> DEFINE k == [proc[p] EXCEPT !.rows = @ \ {row}, !.alien = TRUE, !.pc = "rec_lock"]
      <4>1. k.pc = "rec_lock" /\ \A s : [k EXCEPT !.state = s].pc = "rec_lock"
        BY <1>0 DEF Locals
      <4>2. \/ proc' = [proc EXCEPT ![p] = k]
            \/ \E s : proc' = [proc EXCEPT ![p] = [k EXCEPT !.state = s]]
            \/ End(p)
        BY <2>3 DEF RecAlienRow
      <4> HIDE DEF k
      <4> QED BY <4>1, <4>2
    <3>2. CASE proc' = [proc EXCEPT ![p] = l]
      BY <1>01, <2>0, <3>1, <3>2, LeavesMatched
    <3>3. ASSUME NEW s, proc' = [proc EXCEPT ![p] = [l EXCEPT !.state = s]]
          PROVE  MatchedInv'
      BY <1>01, <2>0, <3>1, <3>3, LeavesMatched
    <3> QED BY <2>0, <3>1, <3>2, <3>3, EndMatched
  <2> QED BY <2>1, <2>2, <2>3
<1>5. CASE RecFill(p) \/ RecLock(p)
  <2>1. Others(p) /\ proc'[p].pc = "rec_row" /\ proc[p].pc # "absent"
    BY <1>0, <1>5 DEF RecFill, RecLock, Goto, Others, At, Locals
  <2> QED BY <1>01, <2>1, ElsewhereMatched
<1>6. CASE RecPending(p)
  <2>1. /\ Others(p) /\ proc[p].pc = "rec_row" /\ db' = db
        /\ proc'[p].pc \in {"rec_holding", "rec_apply"} /\ proc'[p].state = proc[p].state
    BY <1>0, <1>6 DEF RecPending, Others, At, Locals
  <2>2. proc[p].state = db.state
    BY <2>1 DEF FinalInv, Fetched, Copying, Reading
  <2>3. proc'[p].pc \notin Compared
    BY <2>1 DEF Compared, Cleared
  <2>4. Matched(proc'[p], db', broker')
    BY <2>1, <2>2, <2>3 DEF Matched
  <2> QED BY <2>1, <2>4, MatchedStep
<1>7. CASE RecFold(p)
  <2>0. proc[p].pc = "rec_apply"
    BY <1>7 DEF RecFold, At
  <2>1. CASE End(p)
    BY <2>0, <2>1, EndMatched
  <2>2. CASE ~End(p)
    <3>1. Others(p) /\ proc'[p].pc = "rec_apply"
      BY <1>0, <1>7, <2>0, <2>2 DEF RecFold, Others, Locals
    <3> QED BY <1>01, <2>0, <3>1, ElsewhereMatched
  <2> QED BY <2>1, <2>2
<1>8. CASE RecSave(p)
  <2>0. proc[p].pc = "rec_apply"
    BY <1>8 DEF RecSave, At
  <2>1. CASE End(p)
    BY <2>0, <2>1, EndMatched
  <2>2. CASE ~End(p)
    <3>1. /\ Others(p) /\ proc'[p].pc = "rec_holding" /\ proc'[p].state = proc[p].state
          /\ db' = SaveReconciledState(db, proc[p].state, proc[p].done)
      BY <1>0, <1>8, <2>2 DEF RecSave, Others, Locals
    <3>2. db'.state = proc[p].state
      BY <1>0, <3>1 DEF SaveReconciledState, Database
    <3>3. proc'[p].pc \notin Compared
      BY <3>1 DEF Compared, Cleared
    <3>4. Matched(proc'[p], db', broker')
      BY <3>1, <3>2, <3>3 DEF Matched
    <3> QED BY <2>0, <3>1, <3>4, MatchedStep
  <2> QED BY <2>1, <2>2
<1>9. CASE RecHolding(p)
  <2>0. proc[p].pc = "rec_holding" /\ proc[p].pc \in Comparing
    BY <1>9 DEF RecHolding, At, Comparing
  <2>1. CASE BrokerFails(p)
    BY <2>0, <2>1, BrokerFailsMatched
  <2>2. CASE ~BrokerFails(p)
    <3>1. /\ Others(p) /\ db' = db /\ proc'[p].state = proc[p].state
          /\ proc'[p].pc = IF broker.holding = proc[p].state.quantity THEN "rec_unknown"
                           ELSE IF proc[p].state.required THEN "rec_quit" ELSE "rec_flag"
      BY <1>0, <1>9, <2>2 DEF RecHolding, Goto, Others, Locals
    <3>2. CASE broker.holding = proc[p].state.quantity
      <4>1. proc[p].state.quantity = db.state.quantity /\ broker.holding \in Nat
        BY <1>0, <2>0 DEF Matched, IInv, BooksOK, Account
      <4>2. Matched(proc'[p], db', broker')
        BY <1>01, <3>1, <3>2, <4>1 DEF Matched
      <4> QED BY <2>0, <3>1, <4>2, MatchedStep
    <3>3. CASE broker.holding # proc[p].state.quantity
      BY <1>01, <2>0, <3>1, <3>3, ElsewhereMatched
    <3> QED BY <3>2, <3>3
  <2> QED BY <2>1, <2>2
<1>10. CASE RecFlag(p)
  <2>0. proc[p].pc # "absent"
    BY <1>10 DEF RecFlag, At
  <2>1. CASE End(p)
    BY <2>0, <2>1, EndMatched
  <2>2. CASE ~End(p)
    <3>1. Others(p) /\ proc'[p].pc = "rec_quit"
      BY <1>0, <1>10, <2>2 DEF RecFlag, SaveOrAbort, Others, Locals
    <3> QED BY <1>01, <2>0, <3>1, ElsewhereMatched
  <2> QED BY <2>1, <2>2
<1>11. CASE RecQuit(p)
  <2>1. db'.state = db.state /\ proc[p].pc # "absent" /\ Resume(p, TRUE)
    BY <1>0, <1>11 DEF RecQuit, At, SetProfileStatus, Database
  <2> QED BY <1>01, <2>1, ResumeMatched
<1>12. CASE RecUnknown(p)
  <2>0. /\ proc[p].pc = "rec_unknown" /\ db' = db /\ proc[p].pc \in Comparing \cap Compared
        /\ Resume(p, proc[p].state.required) \/ Goto(p, "rec_clear")
    BY <1>12 DEF RecUnknown, At, Comparing, Compared
  <2>1. CASE Resume(p, proc[p].state.required)
    BY <1>01, <2>0, <2>1, ResumeMatched
  <2>2. CASE Goto(p, "rec_clear")
    <3>1. /\ Others(p) /\ proc'[p].state = proc[p].state /\ proc'[p].cmd = proc[p].cmd
          /\ proc'[p].phase = proc[p].phase /\ proc'[p].submitted = proc[p].submitted
      BY <1>0, <2>2 DEF Goto, Others, Locals
    <3>2. Intends(proc'[p]) => Intends(proc[p])
      BY <2>0, <3>1 DEF Intends, Owner
    <3>3. Matched(proc'[p], db', broker')
      BY <1>0, <1>01, <2>0, <3>1, <3>2 DEF Matched
    <3> QED BY <2>0, <3>1, <3>3, MatchedStep
  <2> QED BY <2>0, <2>1, <2>2
<1>13. CASE RecClear(p)
  <2>0. proc[p].pc = "rec_clear" /\ proc[p].pc \in Comparing \cap Compared
    BY <1>13 DEF RecClear, At, Comparing, Compared
  <2>1. CASE End(p)
    BY <2>0, <2>1, EndMatched
  <2>2. CASE ~End(p)
    <3>1. Resume(p, FALSE) /\ db' = SaveState(db, Flag(proc[p].state, FALSE))
      BY <1>13, <2>2 DEF RecClear
    <3>2. db'.state = Flag(proc[p].state, FALSE) /\ proc[p].state \in StateRow
      BY <1>0, <3>1 DEF SaveState, Database, Locals
    <3>3. db'.state.quantity = proc[p].state.quantity
      BY <3>2 DEF Flag, StateRow
    <3>4. db'.state.quantity = db.state.quantity
      BY <1>0, <2>0, <3>3 DEF Matched
    <3> QED BY <1>01, <2>0, <3>1, <3>4, ResumeMatched
  <2> QED BY <2>1, <2>2
<1> QED BY <1>1, <1>2, <1>3, <1>4, <1>5, <1>6, <1>7, <1>8, <1>9, <1>10, <1>11, <1>12, <1>13
        DEF ReconcileStep

(* A step that stays where the position has been compared.                 *)
LEMMA StaysMatched ==
    ASSUME IInv, SoleInv, MatchedInv, NEW p \in Procs, proc[p].pc \in Cleared, Others(p),
           proc'[p].pc \in Cleared, proc'[p].cmd = proc[p].cmd,
           proc'[p].phase = proc[p].phase, proc'[p].submitted = proc[p].submitted,
           db'.state.quantity = db.state.quantity, broker' = broker
    PROVE  MatchedInv'
<1>1. proc[p].pc # "absent" /\ proc[p].pc # "claim" /\ proc[p].pc \in Compared
  BY DEF Compared, Cleared
<1>2. Intends(proc'[p]) => Intends(proc[p])
  BY <1>1 DEF Intends, Owner
<1>3. proc'[p].pc \notin Comparing
  BY DEF Comparing, Cleared
<1>4. Matched(proc'[p], db', broker')
  BY <1>1, <1>2, <1>3 DEF MatchedInv, Matched
<1> QED BY <1>1, <1>4, MatchedStep

(* Every step of a run keeps MatchedInv.                                   *)
LEMMA RunMatched ==
    ASSUME IInv, SoleInv, MatchedInv, NEW p \in Procs, RunStep(p)
    PROVE  MatchedInv'
<1>0. /\ proc \in [Procs -> Locals] /\ proc[p] \in Locals /\ db \in Database
  BY DEF IInv, BooksOK
<1>01. {"claim", "profile", "rec_state", "exec_check", "exec_place", "exec_record",
        "exec_unknown"} \cap (Comparing \cup Compared) = {}
  BY DEF Comparing, Compared, Cleared
<1>1. ASSUME NEW cmd, NEW phase, NEW day, NEW label \in {"profile", "claim"},
             proc' = [proc EXCEPT ![p] = Started(cmd, phase, day, label)], proc[p].pc = "idle"
      PROVE  MatchedInv'
  <2>1. Started(cmd, phase, day, label).pc = label
    BY DEF Started, Fresh
  <2> QED BY <1>01, <1>1, <2>1, LeavesMatched
<1>2. CASE (\E phase \in Phase : StartRun(p, phase)) \/ StartTick(p)
  BY <1>1, <1>2 DEF StartRun, StartTick, MayStart, At
<1>3. CASE Claim(p)
  <2>0. proc[p].pc # "absent" /\ (End(p) \/ Goto(p, "profile"))
    BY <1>3 DEF Claim, At
  <2>1. CASE Goto(p, "profile")
    <3>1. Others(p) /\ proc'[p].pc = "profile"
      BY <1>0, <2>1 DEF Goto, Others, Locals
    <3> QED BY <1>01, <2>0, <3>1, ElsewhereMatched
  <2> QED BY <2>0, <2>1, EndMatched
<1>4. CASE ReadProfile(p)
  <2>1. Others(p) /\ proc'[p].pc = "rec_state" /\ proc[p].pc # "absent"
    BY <1>0, <1>4 DEF ReadProfile, At, Others, Locals
  <2> QED BY <1>01, <2>1, ElsewhereMatched
<1>5. CASE PlanRead(p)
  <2>0. proc[p].pc = "plan_read" /\ UNCHANGED <<db, broker>>
    BY <1>5 DEF PlanRead, At, Abort
  <2>1. CASE End(p)
    BY <2>0, <2>1, EndMatched
  <2>2. CASE ~End(p)
    <3>1. proc' = [proc EXCEPT
             ![p].state = Prepared(db.state, proc[p].day),
             ![p].base = db.state.version,
             ![p].todo = Plan(Prepared(db.state, proc[p].day), proc[p].day, proc[p].phase,
                              db.status),
             ![p].pc = IF Prepared(db.state, proc[p].day) = db.state THEN "plan_record"
                                                                   ELSE "plan_save"]
      BY <1>5, <2>2 DEF PlanRead, Abort
    <3>2. /\ Others(p) /\ proc'[p].pc \in {"plan_record", "plan_save"}
          /\ proc'[p].cmd = proc[p].cmd
          /\ proc'[p].phase = proc[p].phase /\ proc'[p].submitted = proc[p].submitted
      BY <1>0, <3>1 DEF Others, Locals
    <3>3. proc[p].pc \in Cleared /\ proc'[p].pc \in Cleared
      BY <2>0, <3>1, <3>2 DEF Cleared
    <3> QED BY <2>0, <3>2, <3>3, StaysMatched
  <2> QED BY <2>1, <2>2
<1>6. CASE PlanSave(p)
  <2>0. proc[p].pc = "plan_save"
    BY <1>6 DEF PlanSave, At
  <2>1. CASE End(p)
    BY <2>0, <2>1, EndMatched
  <2>2. CASE ~End(p)
    <3>1. /\ CanSave(db, proc[p].base) /\ db' = SaveState(db, proc[p].state)
          /\ proc' = [proc EXCEPT ![p].pc = "plan_record", ![p].state = proc[p].state]
          /\ broker' = broker
      BY <1>6, <2>2 DEF PlanSave, SaveOrAbort
    <3>2. /\ Others(p) /\ proc'[p].pc = "plan_record" /\ proc'[p].cmd = proc[p].cmd
          /\ proc'[p].phase = proc[p].phase /\ proc'[p].submitted = proc[p].submitted
      BY <1>0, <3>1 DEF Others, Locals
    <3>3. proc[p].pc \in Cleared /\ proc'[p].pc \in Cleared
      BY <2>0, <3>2 DEF Cleared
    <3>4. Preparing(proc[p], db)
      BY <2>0 DEF IInv, LocalInv
    <3>5. proc[p].state.quantity = db.state.quantity
      BY <3>1, <3>4 DEF Preparing, CanSave, SamePosition
    <3>6. db'.state = proc[p].state
      BY <1>0, <3>1 DEF SaveState, Database
    <3> QED BY <3>1, <3>2, <3>3, <3>5, <3>6, StaysMatched
  <2> QED BY <2>1, <2>2
<1>7. CASE PlanRecord(p)
  <2>1. /\ proc[p].pc = "plan_record" /\ broker' = broker
        /\ db' = RecordDecision(db, proc[p].day, proc[p].phase, proc[p].todo)
        /\ proc' = [proc EXCEPT ![p] = Keep(proc[p], "exec_pending")]
    BY <1>7 DEF PlanRecord, At, Enter
  <2>2. db'.state = db.state
    BY <1>0, <2>1 DEF RecordDecision, Database
  <2>3. Others(p) /\ proc'[p] = Keep(proc[p], "exec_pending")
    BY <1>0, <2>1 DEF Others
  <2>4. /\ proc'[p].pc = "exec_pending" /\ proc'[p].cmd = proc[p].cmd
        /\ proc'[p].phase = proc[p].phase /\ proc'[p].submitted = proc[p].submitted
    BY <2>3 DEF Keep, Fresh
  <2>5. proc[p].pc \in Cleared /\ proc'[p].pc \in Cleared
    BY <2>1, <2>4 DEF Cleared
  <2> QED BY <2>1, <2>2, <2>3, <2>4, <2>5, StaysMatched
<1>8. CASE ExecPending(p)
  <2>1. /\ proc[p].pc = "exec_pending" /\ broker' = broker /\ db' = db
        /\ Others(p) /\ proc'[p].pc = "exec_gate" /\ proc'[p].cmd = proc[p].cmd
        /\ proc'[p].phase = proc[p].phase /\ proc'[p].submitted = proc[p].submitted
    BY <1>0, <1>8 DEF ExecPending, At, Others, Locals
  <2>2. proc[p].pc \in Cleared /\ proc'[p].pc \in Cleared
    BY <2>1 DEF Cleared
  <2> QED BY <2>1, <2>2, StaysMatched
<1>9. CASE ExecGate(p)
  <2>0. proc[p].pc # "absent" /\ (End(p) \/ Goto(p, "exec_check"))
    BY <1>9 DEF ExecGate, At
  <2>1. CASE Goto(p, "exec_check")
    <3>1. Others(p) /\ proc'[p].pc = "exec_check"
      BY <1>0, <2>1 DEF Goto, Others, Locals
    <3> QED BY <1>01, <2>0, <3>1, ElsewhereMatched
  <2> QED BY <2>0, <2>1, EndMatched
<1>10. CASE ExecCheck(p)
  <2>0. proc[p].pc # "absent"
    BY <1>10 DEF ExecCheck, At
  <2>1. CASE End(p)
    BY <2>0, <2>1, EndMatched
  <2>2. CASE ~End(p)
    <3>1. PICK todo, intent, label :
             /\ label \in {"exec_check", "exec_place"}
             /\ proc' = [proc EXCEPT ![p].todo = todo, ![p].intent = intent, ![p].pc = label]
      BY <1>10, <2>2 DEF ExecCheck
    <3>2. Others(p) /\ proc'[p].pc = label
      BY <1>0, <3>1 DEF Others, Locals
    <3> QED BY <1>01, <2>0, <3>1, <3>2, ElsewhereMatched
  <2> QED BY <2>1, <2>2
<1>11. CASE ExecPlace(p)
  <2>0. proc[p].pc # "absent"
    BY <1>11 DEF ExecPlace, At
  <2>1. CASE End(p)
    BY <2>0, <2>1, EndMatched
  <2>2. CASE ~End(p)
    <3>1. PICK n : n = Len(broker.orders) + 1
      OBVIOUS
    <3>2. \/ proc' = [proc EXCEPT ![p].order = n, ![p].pc = "exec_record"]
          \/ proc' = [proc EXCEPT ![p].pc = "exec_unknown"]
      BY <1>11, <2>2, <3>1, PlaceOutcomes
    <3>3. Others(p) /\ proc'[p].pc \in {"exec_record", "exec_unknown"}
      BY <1>0, <3>2 DEF Others, Locals
    <3> QED BY <1>01, <2>0, <3>3, ElsewhereMatched
  <2> QED BY <2>1, <2>2
<1>12. CASE ExecRecord(p)
  <2>0. proc[p].pc # "absent"
    BY <1>12 DEF ExecRecord, At
  <2>1. CASE End(p)
    BY <2>0, <2>1, EndMatched
  <2>2. CASE ~End(p)
    <3>1. Others(p) /\ proc'[p].pc = "exec_check"
      BY <1>0, <1>12, <2>2 DEF ExecRecord, Others, Locals
    <3> QED BY <1>01, <2>0, <3>1, ElsewhereMatched
  <2> QED BY <2>1, <2>2
<1>13. CASE ExecUnknown(p)
  BY <1>13, EndMatched DEF ExecUnknown, At
<1>14. CASE ExecDone(p)
  <2>0. proc[p].pc # "absent" /\ (End(p) \/ Enter(p, "rec_state"))
    BY <1>14 DEF ExecDone, At
  <2>1. CASE Enter(p, "rec_state")
    <3>1. Keep(proc[p], "rec_state").pc = "rec_state"
      BY DEF Keep, Fresh
    <3> QED BY <1>01, <2>0, <2>1, <3>1, LeavesMatched DEF Enter
  <2> QED BY <2>0, <2>1, EndMatched
<1> QED BY <1>2, <1>3, <1>4, <1>5, <1>6, <1>7, <1>8, <1>9, <1>10, <1>11, <1>12, <1>13, <1>14
        DEF RunStep

(* No other command compares.                                              *)
LEMMA CommandMatched ==
    ASSUME IInv, SoleInv, MatchedInv, NEW p \in Procs, CommandStep(p)
    PROVE  MatchedInv'
<1>0. proc \in [Procs -> Locals] /\ proc[p] \in Locals
  BY DEF IInv
<1>01. {"idle", "rec_state", "off_orders", "off_cancel", "off_mark", "off_check", "off_unknown",
        "lock_status", "lock_read", "lock_save"} \cap (Comparing \cup Compared) = {}
  BY DEF Comparing, Compared, Cleared
<1>1. CASE StartReconcile(p) \/ StartOn(p) \/ StartOff(p) \/ StartCancel(p)
  <2>1. proc[p].pc # "absent"
    BY <1>1 DEF StartReconcile, StartOn, StartOff, StartCancel, MayStart, At
  <2>2. ASSUME NEW cmd, NEW day, NEW label \in {"rec_state", "off_orders"},
               proc' = [proc EXCEPT ![p] = Started(cmd, "SELL", day, label)]
        PROVE  MatchedInv'
    <3>1. Started(cmd, "SELL", day, label).pc = label
      BY DEF Started, Fresh
    <3> QED BY <1>01, <2>1, <2>2, <3>1, LeavesMatched
  <2>3. ASSUME NEW S, proc' = [proc EXCEPT ![p] =
                        [Started("cancel", "SELL", clock.day, "off_cancel") EXCEPT !.cancel = S]]
        PROVE  MatchedInv'
    <3>1. [Started("cancel", "SELL", clock.day, "off_cancel") EXCEPT !.cancel = S].pc
             = "off_cancel"
      BY DEF Started, Fresh
    <3> QED BY <1>01, <2>1, <2>3, <3>1, LeavesMatched
  <2> QED BY <1>1, <2>2, <2>3 DEF StartReconcile, StartOn, StartOff, StartCancel
<1>2. CASE OnSet(p) \/ OffUnknown(p) \/ LockSave(p)
  BY <1>2, EndMatched DEF OnSet, OffUnknown, LockSave, At
<1>3. CASE OffOrders(p) \/ OffMark(p) \/ OffCheck(p) \/ LockStatus(p) \/ LockRead(p)
  <2>0. proc[p].pc # "absent"
    BY <1>3 DEF OffOrders, OffMark, OffCheck, LockStatus, LockRead, At
  <2>1. CASE End(p)
    BY <2>0, <2>1, EndMatched
  <2>2. CASE ~End(p)
    <3>1. /\ Others(p)
          /\ proc'[p].pc \in {"off_unknown", "off_cancel", "lock_status", "lock_read", "lock_save"}
      BY <1>0, <1>3, <2>2
         DEF OffOrders, OffMark, OffCheck, LockStatus, LockRead, Goto, Others, Locals
    <3> QED BY <1>01, <2>0, <3>1, ElsewhereMatched
  <2> QED BY <2>1, <2>2
<1>4. CASE OffCancel(p)
  <2>0. proc[p].pc # "absent"
    BY <1>4 DEF OffCancel, At
  <2>1. CASE CancelFails(p)
    <3>1. Keep(proc[p], "lock_status").pc = "lock_status"
      BY DEF Keep, Fresh
    <3> QED BY <1>01, <2>0, <2>1, <3>1, LeavesMatched, EndMatched DEF CancelFails, Enter
  <2>2. CASE ~CancelFails(p)
    <3>1. Others(p) /\ proc'[p].pc = "off_mark"
      BY <1>0, <1>4, <2>2 DEF OffCancel, Others, Locals
    <3> QED BY <1>01, <2>0, <3>1, ElsewhereMatched
  <2> QED BY <2>1, <2>2
<1>5. CASE OffCancelled(p)
  <2>1. Keep(proc[p], "rec_state").pc = "rec_state"
    BY DEF Keep, Fresh
  <2> QED BY <1>01, <1>5, <2>1, LeavesMatched DEF OffCancelled, Enter, At
<1>6. CASE EmergencyStop(p)
  <2>1. Others(p) /\ proc'[p].pc = "idle" /\ proc[p].pc # "absent"
    BY <1>6 DEF EmergencyStop, At, Others
  <2> QED BY <1>01, <2>1, ElsewhereMatched
<1> QED BY <1>1, <1>2, <1>3, <1>4, <1>5, <1>6 DEF CommandStep

(* While a tick that has sold nothing is about to, no sell executes.       *)
LEMMA BrokerMatched ==
    ASSUME IInv, ScheduleInv, CoverInv, MatchedInv, BrokerNext, UNCHANGED <<db, proc>>
    PROVE  MatchedInv'
<1>0. /\ broker \in Account /\ broker.orders \in Seq(BrokerOrder) /\ broker.holding \in Nat
      /\ db \in Database
  BY DEF IInv, BooksOK, Account
<1>1. ASSUME NEW n, NEW q, Execute(n, q), NEW p \in Procs, Intends(proc[p]),
             proc[p].pc \in Compared
      PROVE  broker.holding <= broker'.holding
  <2>1. n \in 1..Len(broker.orders) /\ Working(broker.orders[n])
        /\ q \in 1..Remaining(broker.orders[n])
    BY <1>1 DEF Execute
  <2>2. broker.orders[n] \in BrokerOrder
    BY <1>0, <2>1, SeqElement
  <2>3. broker.orders[n].intent.day = clock.day /\ proc[p].day = clock.day
    BY <1>1, <2>1 DEF CoverInv, Covered, Intends, Owner
  <2>4. proc[p].pc \notin Executing
    BY <1>1 DEF Compared, Cleared, Executing
  <2>5. \A i \in Sent(broker) : SlotOf(i) # Slot(proc[p])
    BY <1>1, <2>4 DEF ScheduleInv, Scheduled, Intends
  <2>6. broker.orders[n].intent.phase # "SELL"
    BY <1>1, <2>1, <2>3, <2>5 DEF Sent, SlotOf, Slot, Intends
  <2>7. q \in Nat
    BY <2>1, <2>2 DEF Remaining, BrokerOrder, Intent
  <2>8. broker'.holding = broker.holding + q
    BY <1>0, <1>1, <2>6 DEF Execute, Account
  <2> QED BY <1>0, <2>7, <2>8
<1>2. CASE ~ \E n, q : Execute(n, q)
  <2>1. broker'.holding = broker.holding
    BY <1>0, <1>2 DEF BrokerNext, CancelTakesEffect, Reject, LateArrival, WindowPasses, NextDay,
                      Accepted, Account
  <2> QED BY <2>1 DEF MatchedInv, Matched
<1>3. ASSUME NEW n, NEW q, Execute(n, q) PROVE MatchedInv'
  <2>1. ASSUME NEW p \in Procs PROVE Matched(proc[p], db, broker')
    <3>1. Matched(proc[p], db, broker)
      BY DEF MatchedInv
    <3>2. CASE Intends(proc[p]) /\ proc[p].pc \in Compared
      <4>1. broker.holding <= broker'.holding
        BY <1>1, <1>3, <3>2
      <4>2. db.state.quantity <= broker.holding
        BY <3>1, <3>2 DEF Matched
      <4>3. broker'.holding \in Nat /\ db.state.quantity \in Nat
        BY <1>0, BrokerSteps DEF IInv, BooksOK, Account, Database, StateRow
      <4>4. db.state.quantity <= broker'.holding
        BY <1>0, <4>1, <4>2, <4>3
      <4> QED BY <3>1, <4>4 DEF Matched
    <3>3. CASE ~(Intends(proc[p]) /\ proc[p].pc \in Compared)
      BY <3>1, <3>3 DEF Matched
    <3> QED BY <3>2, <3>3
  <2> QED BY <2>1 DEF MatchedInv
<1> QED BY <1>2, <1>3

(* So does every step.                                                     *)
LEMMA NextMatched ==
    ASSUME IInv, SoleInv, FinalInv, ScheduleInv, CoverInv, MatchedInv, [Next]_vars
    PROVE  MatchedInv'
<1>1. CASE UNCHANGED vars
  BY <1>1 DEF vars, MatchedInv
<1>2. ASSUME NEW p \in Procs, ProcessNext(p) PROVE MatchedInv'
  <2>1. CASE Crash(p)
    BY <2>1, EndMatched DEF Crash, Abort, Busy, At
  <2> QED BY <1>2, <2>1, RunMatched, ReconcileMatched, CommandMatched DEF ProcessNext
<1> QED BY <1>1, <1>2, BrokerMatched DEF Next

(* At first nobody compares.                                               *)
LEMMA InitMatched == Init => MatchedInv
<1> SUFFICES ASSUME Init, NEW p \in Procs PROVE Matched(proc[p], db, broker)
  BY DEF MatchedInv
<1>1. proc[p] \in {Fresh, Absent}
  BY DEF Init, ProcessInit
<1>2. proc[p].pc \in {"idle", "absent"}
  BY <1>1 DEF Fresh, Absent
<1>3. {"idle", "absent"} \cap (Comparing \cup Compared) = {}
  BY DEF Comparing, Compared, Cleared
<1> QED BY <1>2, <1>3 DEF Matched

(* _sell_specs and preflight_intents: when commands run one at a time, the *)
(* phases are run by automation tick only and no tick outlives its         *)
(* session, the sell orders that may still execute never exceed the shares *)
(* held, over any number of sessions, wherever a process dies.             *)
THEOREM SellsCoveredOneAtATime ==
    ASSUME OneAtATime, OnlyScheduledRuns
    PROVE  Spec /\ [][TicksInSession]_vars => []OpenSellsCovered
<1>1. Init => ScheduleInv /\ CoverInv /\ MatchedInv
  BY InitSchedule, InitCover, InitMatched
<1>2. ASSUME IInv, SoleInv, FinalInv, ScheduleInv, CoverInv, MatchedInv, [Next]_vars,
             [TicksInSession]_vars
      PROVE  ScheduleInv' /\ CoverInv' /\ MatchedInv'
  <2>1. TicksInSession
    BY <1>2 DEF TicksInSession, vars
  <2>2. GateCovered
    <3> SUFFICES ASSUME NEW p \in Procs, At(p, "exec_gate"), proc[p].phase = "SELL"
                 PROVE  db.state.quantity <= broker.holding
      BY DEF GateCovered
    <3>1. Owner(proc[p]) /\ ~proc[p].submitted
      BY <1>2, PlanningOwner DEF At, Planning
    <3>2. proc[p].pc \in Compared
      BY DEF At, Compared, Cleared
    <3> QED BY <1>2, <3>1, <3>2 DEF MatchedInv, Matched, Intends
  <2> QED BY <1>2, <2>1, <2>2, NextSchedule, NextCover, NextMatched
<1>3. IInv /\ CoverInv => OpenSellsCovered
  BY CoverMeans
<1> QED BY <1>1, <1>2, <1>3, FinalInvariance, PTL DEF Spec
=============================================================================

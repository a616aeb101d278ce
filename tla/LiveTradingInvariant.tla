------------------------ MODULE LiveTradingInvariant ------------------------
(***************************************************************************)
(* The inductive invariant of LiveTrading.  FillsBookedExactlyOnce alone   *)
(* is not inductive: a reconciliation folds fills into a copy of the state *)
(* it read earlier and stores that copy later.  What makes it safe is that *)
(* the version of the copy identifies the row it was read from.  The       *)
(* position is carried along: a copy that may be stored holds the initial  *)
(* position moved by the fills that will then be marked applied.           *)
(***************************************************************************)
EXTENDS LiveTrading

(* Labels at which a process holds a state it read from or wrote to the    *)
(* database and may store it again.                                        *)
Snapshot == {"rec_orders", "rec_history", "rec_row", "rec_fill", "rec_lock",
             "rec_holding", "rec_flag", "rec_quit", "rec_unknown", "rec_clear",
             "lock_save"}

(* Labels at which the process holds an intent it is sending.              *)
Sending == {"exec_place", "exec_record", "exec_unknown"}

(* Labels a process can reach with nothing but its command to remember.    *)
Plain == Label \ (Snapshot \cup Sending \cup {"rec_apply", "plan_save", "off_mark"})

(* What execution f moves the position by, and the position that results   *)
(* from the executions in "fills".                                         *)
Move(b, f) == IF b.orders[b.execs[f].order].intent.phase = "SELL"
                THEN -b.execs[f].qty ELSE b.execs[f].qty
MovesOf(b) == [f \in 1..Len(b.execs) |-> Move(b, f)]
PositionAfter(b, fills) == InitialQty + SumFunctionOnSet(MovesOf(b), fills)

(* A state that has the version of the row is the row.                     *)
CurrentOrOld(s, d) ==
    /\ s.version <= d.state.version
    /\ s.version = d.state.version => s = d.state

(* While fills are folded: the local state is the row of version "base"    *)
(* with the fills of "done" folded in, and those of "pend" still to come.  *)
Folding(l, d, b) ==
    /\ l.base <= d.state.version
    /\ l.pend \cup l.done # {}
    /\ l.done = {} => l.state.version = l.base
    /\ l.done # {} => l.state.version > l.base
    /\ l.base = d.state.version =>
          /\ l.pend \cap (d.applied \cup l.done) = {}
          /\ \A f \in FillId :
                l.state.folded[f] = IF f \in d.applied \cup l.done THEN 1 ELSE 0
          /\ l.state.quantity = PositionAfter(b, d.applied \cup l.done)

(* Two states in which the same fills are booked.                          *)
SamePosition(s, t) == s.folded = t.folded /\ s.quantity = t.quantity

(* While a prepared state waits to be saved.                               *)
Preparing(l, d) ==
    /\ l.base <= d.state.version
    /\ l.state.version > l.base
    /\ l.base = d.state.version => SamePosition(l.state, d.state)

(* Fill numbers a process has seen are executions of the broker; what it   *)
(* is about to use is there.                                               *)
Grounded(l, d, b) ==
    /\ l.pend \cup l.done \subseteq 1..Len(b.execs)
    /\ l.fill <= Len(b.execs)
    /\ \A row \in l.rows : row.fill <= Len(b.execs)
    /\ \A n \in l.cancel : Recorded(d, n)
    /\ l.pc = "rec_fill" => l.fill >= 1
    /\ l.pc \in Sending => l.intent \in Intent
    /\ l.pc = "exec_record" => l.order \in OrderNo
    /\ l.pc = "off_mark" => l.order \in OrderNo /\ Recorded(d, l.order)

(* What a process knows at each label.                                     *)
LocalInv(l, d, b) ==
    /\ Grounded(l, d, b)
    /\ l.pc \in Snapshot => CurrentOrOld(l.state, d)
    /\ l.pc = "rec_apply" => Folding(l, d, b)
    /\ l.pc = "plan_save" => Preparing(l, d)

(* The database and the broker's books together.                           *)
Booked(d) == \A f \in FillId : d.state.folded[f] = IF f \in d.applied THEN 1 ELSE 0

(* The position of the state row is the initial one moved by the fills     *)
(* marked applied.                                                         *)
Positioned(d, b) == d.state.quantity = PositionAfter(b, d.applied)

(* The database against the broker's books.                                *)
BooksOK(d, b) ==
    /\ d \in Database
    /\ b \in Account
    /\ Len(b.orders) <= MaxOrders
    /\ Len(b.execs) <= MaxFills
    /\ d.fills \cup d.applied \subseteq 1..Len(b.execs)
    /\ \A f \in 1..Len(b.execs) : b.execs[f].order \in 1..Len(b.orders)
    /\ Booked(d)
    /\ Positioned(d, b)

(* The inductive invariant.                                                *)
IInv ==
    /\ BooksOK(db, broker)
    /\ clock \in Clock
    /\ proc \in [Procs -> Locals]
    /\ \A p \in Procs : LocalInv(proc[p], db, broker)

(* The orders of an account keep their numbers and their intents.          *)
KeepsIntents(b, b2) ==
    /\ Len(b.orders) <= Len(b2.orders)
    /\ \A n \in 1..Len(b.orders) : b2.orders[n].intent = b.orders[n].intent

(* What every step does to the books: executions, orders and applied marks *)
(* stay, and either the version rises or neither state nor marks change.   *)
Grows(d, d2, b, b2) ==
    /\ Len(b.execs) <= Len(b2.execs)
    /\ \A f \in 1..Len(b.execs) : b2.execs[f] = b.execs[f]
    /\ KeepsIntents(b, b2)
    /\ \A n \in OrderNo : Recorded(d, n) => Recorded(d2, n)
    /\ d.applied \subseteq d2.applied
    /\ \/ d2.state = d.state /\ d2.applied = d.applied
       \/ d2.state.version > d.state.version

(* What a step of a process does.                                          *)
Advances ==
    /\ IInv'
    /\ Grows(db, db', broker, broker')
    /\ broker'.execs = broker.execs
=============================================================================

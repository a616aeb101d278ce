------------------------------- MODULE Broker -------------------------------
(***************************************************************************)
(* The DB Securities account as broker.py and reconciliation.py use it:    *)
(* orders that are accepted, execute in parts, are cancelled, rejected or  *)
(* expire at the close; a transaction history; a holding.  External code:  *)
(* only what the program can observe of it is modelled.                    *)
(***************************************************************************)
EXTENDS Orders

VARIABLES
    broker,   \* orders: sequence of accepted orders; execs: sequence of
              \* executions; inflight: intents whose request got no answer and
              \* may still arrive; holding: shares in the account
    clock     \* the date under which the broker lists an order it accepts now,
              \* and the phase window ("SELL", "BUY" or "CLOSED")

CONSTANTS
    PhaseDays,     \* days on which anything depends on the windows of a session
    LateRequests   \* kinds of lost answers whose request may arrive later

(* How the program takes the loss of an answer: as AmbiguousOrderError, or *)
(* as a transport or decoding error that _post_order does not catch.       *)
LostAnswer == {"ambiguous", "raised"}

ASSUME BrokerAssumption ==
    PhaseDays \subseteq Day /\ LateRequests \subseteq LostAnswer

Opening(day) == IF day \in PhaseDays THEN "SELL" ELSE "CLOSED"

BrokerOrder == [intent : Intent, day : Day, filled : Nat,
                status : {"working", "cancelled", "rejected", "lapsed"},
                cancelling : BOOLEAN]

Account == [orders : Seq(BrokerOrder),
            execs : Seq([order : OrderNo, qty : Nat \ {0}]),
            inflight : SUBSET Intent,
            holding : Nat]
Clock == [day : Day, window : {"SELL", "BUY", "CLOSED"}]

BrokerType ==
    /\ broker \in Account
    /\ Len(broker.orders) <= MaxOrders
    /\ Len(broker.execs) <= MaxFills
    /\ clock \in Clock

BrokerInit ==
    /\ broker = [orders |-> <<>>, execs |-> <<>>, inflight |-> {},
                 holding |-> InitialQty]
    /\ clock \in {[day |-> day, window |-> Opening(day)] : day \in Day}

Remaining(o) == o.intent.qty - o.filled
Working(o) == o.status = "working" /\ Remaining(o) > 0

(* An accepted order joins the book; its number is its position.           *)
NewOrder(i) == [intent |-> i, day |-> clock.day, filled |-> 0,
                status |-> "working", cancelling |-> FALSE]
Accepted(b, i) == [b EXCEPT !.orders = Append(@, NewOrder(i))]
CanAccept == Len(broker.orders) < MaxOrders

(* Side and size of execution f, the immutable payload of its history row. *)
FillSide(f) == broker.orders[broker.execs[f].order].intent.phase
FillQty(f) == broker.execs[f].qty

(***************************************************************************)
(* The rows transaction_history returns for orders of days from..to: one   *)
(* per execution, or one with execution number 0, each with the status     *)
(* reconciliation.py derives from its reject, cancel, executed and         *)
(* remaining columns.  A lapsed order has nothing remaining and neither    *)
(* flag.                                                                   *)
(***************************************************************************)
RowStatus(o) ==
    CASE o.status = "rejected" -> "REJECTED"
      [] o.status = "cancelled" /\ o.filled > 0 -> "CANCELLED_PARTIAL"
      [] o.status = "cancelled" /\ o.filled = 0 -> "CANCELLED"
      [] Working(o) /\ o.filled > 0 -> "PARTIAL"
      [] Working(o) /\ o.filled = 0 -> "OPEN"
      [] o.status \in {"working", "lapsed"} /\ ~Working(o) ->
            IF o.filled > 0 THEN "FILLED" ELSE "UNKNOWN"

History(from, to) ==
    LET inWindow == {n \in 1..Len(broker.orders) :
                        broker.orders[n].day \in from..to}
        row(n, f) == [order |-> n, day |-> broker.orders[n].day, fill |-> f,
                      status |-> RowStatus(broker.orders[n])]
    IN  {row(broker.execs[f].order, f) :
             f \in {g \in 1..Len(broker.execs) :
                        broker.execs[g].order \in inWindow}}
        \cup {row(n, 0) : n \in {m \in inWindow : broker.orders[m].filled = 0}}

-----------------------------------------------------------------------------
(* Steps the broker and the market take on their own.                      *)

(* Shares of a working order execute; sells never exceed the holding.      *)
Execute(n, q) ==
    /\ n \in 1..Len(broker.orders)
    /\ Working(broker.orders[n])
    /\ q \in 1..Remaining(broker.orders[n])
    /\ Len(broker.execs) < MaxFills
    /\ LET sell == broker.orders[n].intent.phase = "SELL"
       IN  /\ sell => q <= broker.holding
           /\ broker' = [broker EXCEPT
                !.orders[n].filled = @ + q,
                !.execs = Append(@, [order |-> n, qty |-> q]),
                !.holding = IF sell THEN @ - q ELSE @ + q]
    /\ UNCHANGED clock

(* A requested cancellation takes effect on what is still working.         *)
CancelTakesEffect(n) ==
    /\ n \in 1..Len(broker.orders)
    /\ broker.orders[n].cancelling
    /\ Working(broker.orders[n])
    /\ broker' = [broker EXCEPT !.orders[n].status = "cancelled"]
    /\ UNCHANGED clock

(* The exchange rejects an order after the broker accepted it.             *)
Reject(n) ==
    /\ n \in 1..Len(broker.orders)
    /\ Working(broker.orders[n])
    /\ broker.orders[n].filled = 0
    /\ broker' = [broker EXCEPT !.orders[n].status = "rejected"]
    /\ UNCHANGED clock

(* A request that got no answer reaches the broker late.                   *)
LateArrival(i) ==
    /\ i \in broker.inflight
    /\ CanAccept
    /\ broker' = [Accepted(broker, i) EXCEPT !.inflight = @ \ {i}]
    /\ UNCHANGED clock

(***************************************************************************)
(* Time passes: the SELL window, then the BUY window, then the rest of the *)
(* session; then the next day, when orders that did not execute expire,    *)
(* reported cancelled or with nothing remaining, and requests still on     *)
(* their way are lost.                                                     *)
(***************************************************************************)
WindowPasses ==
    /\ clock.window # "CLOSED"
    /\ clock' = [clock EXCEPT !.window = IF @ = "SELL" THEN "BUY" ELSE "CLOSED"]
    /\ UNCHANGED broker

Expired(o, st) == IF Working(o) THEN [o EXCEPT !.status = st] ELSE o

NextDay ==
    /\ clock.window = "CLOSED"
    /\ clock.day < MaxDay
    /\ clock' = [day |-> clock.day + 1, window |-> Opening(clock.day + 1)]
    /\ \E st \in {"cancelled", "lapsed"} :
          broker' = [broker EXCEPT
             !.orders = [n \in DOMAIN @ |-> Expired(@[n], st)],
             !.inflight = {}]

BrokerNext ==
    \/ \E n \in 1..Len(broker.orders) :
          \/ \E q \in 1..Remaining(broker.orders[n]) : Execute(n, q)
          \/ CancelTakesEffect(n)
          \/ Reject(n)
    \/ \E i \in broker.inflight : LateArrival(i)
    \/ WindowPasses
    \/ NextDay
=============================================================================

------------------------------ MODULE Process ------------------------------
(***************************************************************************)
(* CLI processes.  Every command of cli.py runs in a process of its own    *)
(* and shares only the database and the broker account with the others.    *)
(* A process is a program counter and the Python locals that outlive one   *)
(* database transaction or broker call; a step of the model is one         *)
(* transaction or one call.  A process may die between any two steps.      *)
(***************************************************************************)
EXTENDS Store, Broker

CONSTANTS
    Procs,        \* processes
    Deployments,  \* which of them run at the same time, and from which day on
    CommandsOf,   \* for each process the commands it may be asked to run
    Crashes,      \* TRUE when processes may die
    DateOffsets,  \* days by which a session date given by the user, or the
                  \* local date, may differ from the broker's order date
    NoIntent      \* value of the local "intent" when there is none

Command == {"run", "tick", "reconcile", "on", "off", "cancel", "emergency"}

Deployment == [procs : SUBSET Procs, first : Day]

ASSUME ProcessAssumption ==
    /\ Deployments \subseteq Deployment
    /\ CommandsOf \in [Procs -> SUBSET Command]
    /\ Crashes \in BOOLEAN
    /\ DateOffsets \subseteq Int
    /\ NoIntent \notin Intent

VARIABLE proc

Label == {"absent", "idle", "claim", "profile",
          "rec_state", "rec_orders", "rec_history", "rec_row", "rec_fill",
          "rec_lock", "rec_apply", "rec_holding", "rec_flag", "rec_quit",
          "rec_unknown", "rec_clear",
          "plan_read", "plan_save", "plan_record",
          "exec_pending", "exec_gate", "exec_check", "exec_place",
          "exec_record", "exec_unknown",
          "on_set", "off_orders", "off_cancel", "off_mark",
          "off_check", "off_unknown",
          "lock_status", "lock_read", "lock_save"}

HistoryRow == [order : OrderNo, day : Day, fill : Nat, status : OrderStatus]

Locals == [pc : Label,
           cmd : Command \cup {"none"},
           day : Day, phase : Phase,       \* session_date, phase
           on : BOOLEAN,                   \* profile.status = ON when read
           submitted : BOOLEAN,            \* execute_intents submitted an order
           state : StateRow, base : Nat,   \* state, and the version to expect
           from : Day,                     \* start of the history window
           rows : SUBSET HistoryRow,       \* history rows still to process
           fill : Nat,                     \* execution of the current row
           alien : BOOLEAN,                \* unresolved_broker_order
           pend : SUBSET FillId,           \* pending fills not yet folded
           done : SUBSET FillId,           \* pending fills folded into state
           todo : SUBSET Intent,           \* planned or pending intents
           intent : Intent \cup {NoIntent},
           order : Nat,                    \* order number of the last call
           cancel : SUBSET OrderNo]        \* orders still to cancel

ProcessType == proc \in [Procs -> Locals]

Fresh == [pc |-> "idle", cmd |-> "none", day |-> 1, phase |-> "SELL",
          on |-> FALSE, submitted |-> FALSE, state |-> InitialState,
          base |-> 0, from |-> 1, rows |-> {}, fill |-> 0, alien |-> FALSE,
          pend |-> {}, done |-> {}, todo |-> {}, intent |-> NoIntent,
          order |-> 0, cancel |-> {}]

(* A process of another deployment takes no step.                          *)
Absent == [Fresh EXCEPT !.pc = "absent"]

ProcessInit ==
    \E d \in Deployments :
        /\ clock.day = d.first
        /\ proc = [p \in Procs |-> IF p \in d.procs THEN Fresh ELSE Absent]

At(p, label) == proc[p].pc = label
Busy(p) == ~At(p, "idle") /\ ~At(p, "absent")

(* The locals of a command when it moves on to "label" and drops what the  *)
(* part it leaves behind had computed.                                     *)
Keep(l, label) == [Fresh EXCEPT !.pc = label, !.cmd = l.cmd, !.day = l.day,
                                !.phase = l.phase, !.on = l.on,
                                !.submitted = l.submitted]

Goto(p, label) == proc' = [proc EXCEPT ![p].pc = label]
Enter(p, label) == proc' = [proc EXCEPT ![p] = Keep(@, label)]
End(p) == proc' = [proc EXCEPT ![p] = Fresh]

(* A command returned, raised or was interrupted by an error: it is over.  *)
Abort(p) == End(p) /\ UNCHANGED <<db, broker, clock>>
=============================================================================

----------------------------- MODULE Execution -----------------------------
(***************************************************************************)
(* _run_phase: reconcile, plan the phase from the strategy state, pass the *)
(* live gates, submit every pending intent that has no order yet, and      *)
(* reconcile again.  Started by the user (run sell-phase, run buy-phase)   *)
(* or by automation tick, which first claims the phase of the session.     *)
(***************************************************************************)
EXTENDS Reconciliation, Functions

(* The intents of a phase: generate_intents in NORMAL mode.  Prices are    *)
(* left out, so the two half buys are one buy of BuyQty shares.            *)
Specs(phase, quantity) ==
    LET quarter == IF quantity < 4 THEN 1 ELSE quantity \div 4
    IN  IF phase = "BUY"
          THEN {<<IF quantity = 0 THEN "INITIAL_BUY" ELSE "STAR_FULL_BUY", BuyQty>>}
          ELSE {<<"STAR_QUARTER_SELL", quarter>>,
                <<"TARGET_SELL", quantity - quarter>>}

Plan(s, day, phase, status) ==
    IF s.required \/ (phase = "SELL" /\ s.quantity = 0) THEN {}
    ELSE {[day |-> day, phase |-> phase, role |-> spec[1], qty |-> spec[2],
           version |-> s.version, status |-> status] :
             spec \in {x \in Specs(phase, s.quantity) : x[2] > 0}}

(* prepare_state: the first plan of a session moves the state to it.       *)
Prepared(s, day) ==
    IF day > s.session THEN [s EXCEPT !.version = @ + 1, !.session = day] ELSE s

-----------------------------------------------------------------------------
(* Starting a run, and the tick that guards it.                            *)
Started(cmd, phase, day, label) ==
    [Fresh EXCEPT !.pc = label, !.cmd = cmd, !.day = day, !.phase = phase]

(* --session-date or date.today(): not necessarily the broker's date.      *)
SessionDates == {clock.day + o : o \in DateOffsets} \cap Day

MayStart(p, cmd) ==
    /\ At(p, "idle")
    /\ cmd \in CommandsOf[p]
    /\ db.state.version <= MaxVersion

StartRun(p, phase) ==
    /\ MayStart(p, "run")
    /\ \E day \in SessionDates :
          proc' = [proc EXCEPT ![p] = Started("run", phase, day, "profile")]
    /\ UNCHANGED <<db, broker, clock>>

(* tick acts within a phase window and on profiles that are ON; its        *)
(* session is that of New York.                                            *)
StartTick(p) ==
    /\ MayStart(p, "tick")
    /\ clock.window \in Phase
    /\ db.status = "ON"
    /\ proc' = [proc EXCEPT ![p] = Started("tick", clock.window, clock.day, "claim")]
    /\ UNCHANGED <<db, broker, clock>>

(* A bug that runs although the claim was already there.                   *)
ClaimIgnored(p) ==
    /\ At(p, "claim")
    /\ db' = ClaimAutomation(db, <<proc[p].day, proc[p].phase>>)
    /\ Goto(p, "profile")
    /\ UNCHANGED <<broker, clock>>

(* INSERT OR IGNORE of "profile:session:phase": only the first tick runs.  *)
Claim(p) ==
    /\ At(p, "claim")
    /\ LET key == <<proc[p].day, proc[p].phase>>
       IN  IF key \in db.claims
             THEN End(p) /\ UNCHANGED db
             ELSE db' = ClaimAutomation(db, key) /\ Goto(p, "profile")
    /\ UNCHANGED <<broker, clock>>

(* The profile is read once and used by the gates at the end of the run.   *)
ReadProfile(p) ==
    /\ At(p, "profile")
    /\ proc' = [proc EXCEPT ![p].on = (db.status = "ON"), ![p].pc = "rec_state"]
    /\ UNCHANGED <<db, broker, clock>>

-----------------------------------------------------------------------------
(* plan_phase.  Its two reads, profile and state, are taken as one; a      *)
(* failed candle inquiry before it ends the run.                           *)
PlanRead(p) ==
    /\ At(p, "plan_read")
    /\ \/ LET s == Prepared(db.state, proc[p].day)
          IN  /\ proc' = [proc EXCEPT
                   ![p].state = s,
                   ![p].base = db.state.version,
                   ![p].todo = Plan(s, proc[p].day, proc[p].phase, db.status),
                   ![p].pc = IF s = db.state THEN "plan_record" ELSE "plan_save"]
              /\ UNCHANGED <<db, broker, clock>>
       \/ Abort(p)

PlanSave(p) ==
    /\ At(p, "plan_save")
    /\ SaveOrAbort(p, proc[p].state, proc[p].base, "plan_record")

PlanRecord(p) ==
    /\ At(p, "plan_record")
    /\ db' = RecordDecision(db, proc[p].day, proc[p].phase, proc[p].todo)
    /\ Enter(p, "exec_pending")
    /\ UNCHANGED <<broker, clock>>

-----------------------------------------------------------------------------
(* execute_intents.                                                        *)
ExecPending(p) ==
    /\ At(p, "exec_pending")
    /\ proc' = [proc EXCEPT
         ![p].todo = PendingIntents(db, proc[p].day, proc[p].phase),
         ![p].pc = "exec_gate"]
    /\ UNCHANGED <<db, broker, clock>>

(* Shares the intents would sell.                                          *)
SellQty(i) == IF i.phase = "SELL" THEN i.qty ELSE 0
SellTotal(intents) == SumFunctionOnSet([i \in intents |-> SellQty(i)], intents)

(* A bug that does not look at the emergency stop.                         *)
GatesPassNoStop(p) ==
    /\ proc[p].on
    /\ ~db.state.required
    /\ SellTotal(proc[p].todo) <= db.state.quantity

(* assert_live_gates and preflight_intents on the state read just before;  *)
(* the optional notional limits may refuse any plan.                       *)
GatesPass(p) ==
    /\ proc[p].on
    /\ ~db.emergency
    /\ ~db.state.required
    /\ SellTotal(proc[p].todo) <= db.state.quantity

ExecGate(p) ==
    /\ At(p, "exec_gate")
    /\ \/ GatesPass(p) /\ Goto(p, "exec_check")
       \/ End(p)
    /\ UNCHANGED <<db, broker, clock>>

(* The next intent, in the order pending_intents returned them, unless it  *)
(* has an order; a buy is also checked against the orderable amount.       *)
ExecCheck(p) ==
    /\ At(p, "exec_check")
    /\ \E i \in proc[p].todo :
          /\ \A j \in proc[p].todo : RoleRank(i.role) <= RoleRank(j.role)
          /\ \/ proc' = [proc EXCEPT
                   ![p].todo = @ \ {i},
                   ![p].intent = IF HasOrderFor(db, i) THEN NoIntent ELSE i,
                   ![p].pc = IF HasOrderFor(db, i) THEN "exec_check"
                                                   ELSE "exec_place"]
             \/ i.phase = "BUY" /\ ~HasOrderFor(db, i) /\ End(p)
    /\ UNCHANGED <<db, broker, clock>>

(* place_order_for_symbol: the broker accepts and answers; rejects; or     *)
(* the answer is lost, with the order accepted, still under way or gone.   *)
(* A timeout, a network error, a 5xx or a malformed answer is ambiguous; a *)
(* rejection and an error that is not caught end the run.                  *)
ExecPlace(p) ==
    /\ At(p, "exec_place")
    /\ LET i == proc[p].intent
           answered == [proc EXCEPT ![p].order = Len(broker.orders) + 1,
                                    ![p].pc = "exec_record"]
           lost == [kind \in LostAnswer |->
                       IF kind = "ambiguous"
                         THEN [proc EXCEPT ![p].pc = "exec_unknown"]
                         ELSE [proc EXCEPT ![p] = Fresh]]
       IN  \/ /\ CanAccept
              /\ broker' = Accepted(broker, i)
              /\ proc' \in {answered} \cup {lost[kind] : kind \in LostAnswer}
           \/ \E kind \in LateRequests :
                 /\ broker' = [broker EXCEPT !.inflight = @ \cup {i}]
                 /\ proc' = lost[kind]
           \/ \E kind \in LostAnswer : proc' = lost[kind] /\ UNCHANGED broker
    /\ UNCHANGED <<db, clock>>

ExecRecord(p) ==
    /\ At(p, "exec_record")
    /\ IF CanRecordOrder(db, proc[p].order, proc[p].intent)
         THEN /\ db' = RecordBrokerOrder(db, proc[p].order, proc[p].intent)
              /\ proc' = [proc EXCEPT ![p].submitted = TRUE,
                                      ![p].intent = NoIntent,
                                      ![p].order = 0,
                                      ![p].pc = "exec_check"]
         ELSE End(p) /\ UNCHANGED db
    /\ UNCHANGED <<broker, clock>>

ExecUnknown(p) ==
    /\ At(p, "exec_unknown")
    /\ db' = MarkIntentUnknown(db, proc[p].intent)
    /\ End(p)
    /\ UNCHANGED <<broker, clock>>

(* Every intent is dealt with: reconcile if an order was submitted.        *)
ExecDone(p) ==
    /\ At(p, "exec_check")
    /\ proc[p].todo = {}
    /\ IF proc[p].submitted THEN Enter(p, "rec_state") ELSE End(p)
    /\ UNCHANGED <<db, broker, clock>>

RunStep(p) ==
    \/ \E phase \in Phase : StartRun(p, phase)
    \/ StartTick(p) \/ Claim(p) \/ ReadProfile(p)
    \/ PlanRead(p) \/ PlanSave(p) \/ PlanRecord(p)
    \/ ExecPending(p) \/ ExecGate(p) \/ ExecCheck(p) \/ ExecPlace(p)
    \/ ExecRecord(p) \/ ExecUnknown(p) \/ ExecDone(p)
=============================================================================

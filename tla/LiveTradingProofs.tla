------------------------ MODULE LiveTradingProofs ------------------------
(***************************************************************************)
(* Theorems about LiveTrading, for every value of its constants: types,    *)
(* the exactly-once booking of fills, the position they move, the versions *)
(* of the state row, and the refinement of FillLedger.  All follow from    *)
(* the inductive invariant IInv of LiveTradingInvariant and from what each *)
(* step does to the books (Grows).                                         *)
(*                                                                         *)
(* Lemmas about the data, the transactions of the store and steps in       *)
(* general come first, then one lemma per step of reconcile_dbsec, of      *)
(* _run_phase, of the other commands and of the broker, then the theorems. *)
(***************************************************************************)
EXTENDS LiveTradingInvariant, SumProofs


-----------------------------------------------------------------------------
(* Facts about data.                                                       *)

(* A nonempty set of naturals has a least element.                         *)
LEMMA LeastExists ==
    ASSUME NEW S \in SUBSET Nat, S # {}
    PROVE  \E x \in S : \A y \in S : x <= y
<1> DEFINE R == OpToRel(<, Nat)
<1>1. \E x \in S : \A y \in S : ~ (<<y, x>> \in R)
  BY NatLessThanWellFounded, WFMin
<1>2. \A x, y \in Nat : <<x, y>> \in R <=> x < y
  BY DEF OpToRel
<1> HIDE DEF R
<1>3. PICK x \in S : \A y \in S : ~ (<<y, x>> \in R)
  BY <1>1
<1>4. \A y \in S : x \in Nat /\ y \in Nat /\ ~ (y < x)
  BY <1>2, <1>3
<1> QED BY <1>4

(* The elements of a sequence over S are in S.                             *)
LEMMA SeqElement ==
    ASSUME NEW S, NEW s \in Seq(S)
    PROVE  \A n \in 1..Len(s) : s[n] \in S
OBVIOUS

(* Overwriting an element that is there keeps a sequence one of S.         *)
LEMMA ReplaceInSeq ==
    ASSUME NEW S, NEW s \in Seq(S), NEW n, NEW e,
           n \in DOMAIN s => e \in S
    PROVE  /\ [s EXCEPT ![n] = e] \in Seq(S)
           /\ Len([s EXCEPT ![n] = e]) = Len(s)
<1> DEFINE t == [s EXCEPT ![n] = e]
<1>1. s \in [1..Len(s) -> S] /\ Len(s) \in Nat
  OBVIOUS
<1>2. t \in [1..Len(s) -> S]
  BY <1>1
<1>3. t \in Seq(S)
  BY <1>1, <1>2
<1>4. Len(t) = Len(s)
  BY <1>1, <1>2, <1>3
<1> QED BY <1>3, <1>4

(* The locals of an idle process satisfy the local invariant whatever the  *)
(* database and the broker hold.                                           *)
LEMMA FreshLocals ==
    /\ Fresh \in Locals
    /\ \A d, b : b \in Account => LocalInv(Fresh, d, b)
<1>1. InitialState \in StateRow
  BY BoundsAssumption DEF InitialState, StateRow
<1>2. 1 \in Day
  BY BoundsAssumption DEF Day
<1>3. Fresh \in Locals
  BY <1>1, <1>2 DEF Fresh, Locals, Label, Phase
<1>4. ASSUME NEW d, NEW b \in Account
      PROVE  LocalInv(Fresh, d, b)
  BY DEF Account, Fresh, LocalInv, Grounded, Snapshot, Sending
<1> QED BY <1>3, <1>4

(* So do those of a process of another deployment.                         *)
LEMMA AbsentLocals ==
    /\ Absent \in Locals
    /\ \A d, b : b \in Account => LocalInv(Absent, d, b)
<1>1. Absent \in Locals
  BY FreshLocals DEF Absent, Locals, Label
<1>2. ASSUME NEW d, NEW b \in Account
      PROVE  LocalInv(Absent, d, b)
  BY DEF Account, Absent, Fresh, LocalInv, Grounded, Snapshot, Sending
<1> QED BY <1>1, <1>2

(* So do those of a command that moves on to a plain label and drops what  *)
(* it had computed.                                                        *)
LEMMA KeepLocals ==
    ASSUME NEW l \in Locals, NEW label \in Plain
    PROVE  /\ Keep(l, label) \in Locals
           /\ \A d, b : b \in Account => LocalInv(Keep(l, label), d, b)
<1>1. InitialState \in StateRow
  BY BoundsAssumption DEF InitialState, StateRow
<1>2. 1 \in Day
  BY BoundsAssumption DEF Day
<1>3. Keep(l, label) \in Locals
  BY <1>1, <1>2 DEF Keep, Fresh, Locals, Plain
<1>4. ASSUME NEW d, NEW b \in Account
      PROVE  LocalInv(Keep(l, label), d, b)
  BY DEF Account, Keep, Fresh, LocalInv, Grounded, Plain, Snapshot, Sending
<1> QED BY <1>3, <1>4

(* Moving on to a plain label keeps the local invariant.                   *)
LEMMA PlainGoto ==
    ASSUME NEW l \in Locals, NEW label \in Plain, NEW d, NEW b,
           LocalInv(l, d, b)
    PROVE  /\ [l EXCEPT !.pc = label] \in Locals
           /\ LocalInv([l EXCEPT !.pc = label], d, b)
<1>1. [l EXCEPT !.pc = label] \in Locals
  BY DEF Locals, Plain
<1>2. LocalInv([l EXCEPT !.pc = label], d, b)
  BY DEF Locals, LocalInv, Grounded, Plain, Snapshot, Sending
<1> QED BY <1>1, <1>2

-----------------------------------------------------------------------------
(* Steps in general.                                                       *)

(* What an execution moves the position by is an integer, ...              *)
LEMMA MoveInteger ==
    ASSUME NEW b \in Account, NEW f \in 1..Len(b.execs)
    PROVE  b.execs[f].qty \in Nat /\ Move(b, f) \in Int
<1>1. b.execs[f] \in [order : OrderNo, qty : Nat \ {0}]
  BY SeqElement DEF Account
<1> QED BY <1>1 DEF Move

(* A set of executions is finite.                                          *)
LEMMA ExecsFinite ==
    ASSUME NEW b \in Account, NEW S \in SUBSET (1..Len(b.execs))
    PROVE  IsFiniteSet(S)
<1>1. Len(b.execs) \in Nat
  BY DEF Account
<1>2. IsFiniteSet(1..Len(b.execs))
  BY <1>1, FS_Interval
<1> QED BY <1>2, FS_Subset

(* ... and stays the same, so the position that results from a set of      *)
(* executions does, too.                                                   *)
LEMMA PositionKept ==
    ASSUME NEW d, NEW d2, NEW b, NEW b2, BooksOK(d, b), b2 \in Account,
           Grows(d, d2, b, b2), NEW S \in SUBSET (1..Len(b.execs))
    PROVE  PositionAfter(b2, S) = PositionAfter(b, S)
<1>1. /\ b \in Account /\ Len(b.execs) \in Nat /\ Len(b2.execs) \in Nat
      /\ Len(b.execs) <= Len(b2.execs)
  BY DEF BooksOK, Account, Grows
<1>2. ASSUME NEW f \in 1..Len(b.execs)
      PROVE  f \in 1..Len(b2.execs) /\ Move(b2, f) = Move(b, f)
  <2>1. f \in 1..Len(b2.execs)
    BY <1>1
  <2>2. b.execs[f].order \in 1..Len(b.orders) /\ b2.execs[f] = b.execs[f]
    BY DEF BooksOK, Grows
  <2>3. b2.orders[b.execs[f].order].intent = b.orders[b.execs[f].order].intent
    BY <2>2 DEF Grows, KeepsIntents
  <2> QED BY <2>1, <2>2, <2>3 DEF Move
<1>3. \A f \in S : MovesOf(b)[f] = MovesOf(b2)[f]
  BY <1>2 DEF MovesOf
<1>4. IsFiniteSet(S)
  BY <1>1, ExecsFinite
<1>5. SumFunctionOnSet(MovesOf(b), S) = SumFunctionOnSet(MovesOf(b2), S)
  BY <1>3, <1>4, SumAgree
<1> QED BY <1>5 DEF PositionAfter

(* What holds of the locals of a process survives the steps of others.     *)
LEMMA Frame ==
    ASSUME NEW l \in Locals, NEW d, NEW d2, NEW b, NEW b2,
           BooksOK(d, b), BooksOK(d2, b2), Grows(d, d2, b, b2),
           LocalInv(l, d, b)
    PROVE  LocalInv(l, d2, b2)
<1>1. /\ Len(b.execs) \in Nat /\ Len(b2.execs) \in Nat
      /\ d.state.version \in Nat /\ d2.state.version \in Nat
      /\ l.state.version \in Nat /\ l.base \in Nat /\ l.fill \in Nat
      /\ l.cancel \subseteq OrderNo
      /\ \A row \in l.rows : row.fill \in Nat
  <2>1. Len(b.execs) \in Nat /\ Len(b2.execs) \in Nat
    BY DEF BooksOK, Account
  <2>2. d.state \in StateRow /\ d2.state \in StateRow
    BY DEF BooksOK, Database
  <2>3. /\ l.state \in StateRow /\ l.base \in Nat /\ l.fill \in Nat
        /\ l.cancel \subseteq OrderNo /\ l.rows \in SUBSET HistoryRow
    BY DEF Locals
  <2>4. \A s \in StateRow : s.version \in Nat
    BY DEF StateRow
  <2>5. \A row \in HistoryRow : row.fill \in Nat
    BY DEF HistoryRow
  <2> QED BY <2>1, <2>2, <2>3, <2>4, <2>5
<1>2. Grounded(l, d2, b2)
  <2>1. 1..Len(b.execs) \subseteq 1..Len(b2.execs)
    BY <1>1 DEF Grows
  <2> QED BY <1>1, <2>1 DEF Grounded, LocalInv, Grows
<1>3. l.pc \in Snapshot => CurrentOrOld(l.state, d2)
  BY <1>1 DEF CurrentOrOld, LocalInv, Grows
<1>4. l.pc = "rec_apply" => Folding(l, d2, b2)
  <2> SUFFICES ASSUME l.pc = "rec_apply" PROVE Folding(l, d2, b2)
    OBVIOUS
  <2>1. Folding(l, d, b) /\ l.done \subseteq 1..Len(b.execs)
    BY DEF LocalInv, Grounded
  <2>2. l.base = d2.state.version => d2.state = d.state /\ d2.applied = d.applied
                                     /\ l.base = d.state.version
    BY <1>1, <2>1 DEF Folding, Grows
  <2>3. d.applied \cup l.done \subseteq 1..Len(b.execs)
    BY <2>1 DEF BooksOK
  <2>4. PositionAfter(b2, d.applied \cup l.done) = PositionAfter(b, d.applied \cup l.done)
    <3>1. b2 \in Account /\ d.applied \cup l.done \in SUBSET (1..Len(b.execs))
      BY <2>3 DEF BooksOK
    <3> QED BY <3>1, PositionKept
  <2>5. l.base <= d2.state.version
    BY <1>1, <2>1 DEF Folding, Grows
  <2> QED BY <2>1, <2>2, <2>4, <2>5 DEF Folding
<1>5. l.pc = "plan_save" => Preparing(l, d2)
  BY <1>1 DEF Preparing, LocalInv, Grows
<1> QED BY <1>2, <1>3, <1>4, <1>5 DEF LocalInv

(* A step of process p that leaves it with locals l.                       *)
LEMMA OwnStep ==
    ASSUME IInv, NEW p \in Procs, NEW l \in Locals,
           proc' = [proc EXCEPT ![p] = l], clock' = clock,
           BooksOK(db', broker'), Grows(db, db', broker, broker'),
           broker'.execs = broker.execs, LocalInv(l, db', broker')
    PROVE  Advances
<1>1. proc' \in [Procs -> Locals] /\ clock' \in Clock
  BY DEF IInv
<1>2. ASSUME NEW q \in Procs
      PROVE  LocalInv(proc'[q], db', broker')
  <2>1. CASE q = p
    BY <2>1 DEF IInv
  <2>2. CASE q # p
    <3>1. proc'[q] = proc[q] /\ proc[q] \in Locals
      BY <2>2 DEF IInv
    <3> QED BY <3>1, Frame DEF IInv
  <2> QED BY <2>1, <2>2
<1> QED BY <1>1, <1>2 DEF IInv, Advances

(* A step of process p that leaves the database and the broker alone.      *)
LEMMA QuietStep ==
    ASSUME IInv, NEW p \in Procs, NEW l \in Locals,
           proc' = [proc EXCEPT ![p] = l], UNCHANGED <<db, broker, clock>>,
           LocalInv(l, db, broker)
    PROVE  Advances
<1>1. BooksOK(db', broker') /\ Grows(db, db', broker, broker')
  BY DEF IInv, BooksOK, Grows, KeepsIntents, Account
<1> QED BY <1>1, OwnStep

(* The end of a command, and the moves of Keep and Goto to plain labels.   *)
LEMMA Endings ==
    ASSUME IInv, NEW p \in Procs, End(p), UNCHANGED <<db, broker, clock>>
    PROVE  Advances
<1>1. LocalInv(Fresh, db, broker)
  BY FreshLocals DEF IInv, BooksOK
<1> QED BY <1>1, FreshLocals, QuietStep DEF End

(* A command that moves on to a plain label and drops its locals.          *)
LEMMA Entrances ==
    ASSUME IInv, NEW p \in Procs, NEW label \in Plain, Enter(p, label),
           UNCHANGED <<db, broker, clock>>
    PROVE  Advances
<1>1. proc[p] \in Locals /\ proc' = [proc EXCEPT ![p] = Keep(proc[p], label)]
  BY DEF IInv, Enter
<1>2. LocalInv(Keep(proc[p], label), db, broker)
  BY <1>1, KeepLocals DEF IInv, BooksOK
<1> QED BY <1>1, <1>2, KeepLocals, QuietStep

-----------------------------------------------------------------------------
(* The transactions of the store.                                          *)

(* evolved(reconciliation_required=...) raises the version and moves no    *)
(* fill.                                                                   *)
LEMMA FlagState ==
    ASSUME NEW s \in StateRow, NEW r \in BOOLEAN
    PROVE  /\ Flag(s, r) \in StateRow
           /\ Flag(s, r).version > s.version
           /\ SamePosition(Flag(s, r), s)
<1>1. s.version \in Nat /\ s.version + 1 \in Nat
  BY DEF StateRow
<1>2. Flag(s, r) \in StateRow
  <2>1. CASE r = TRUE
    BY <1>1, <2>1 DEF Flag, StateRow
  <2>2. CASE r = FALSE
    BY <1>1, <2>2 DEF Flag, StateRow
  <2> QED BY <2>1, <2>2
<1>3. Flag(s, r).version > s.version
  BY <1>1 DEF Flag, StateRow
<1>4. SamePosition(Flag(s, r), s)
  BY DEF Flag, StateRow, SamePosition
<1> QED BY <1>2, <1>3, <1>4

(* Moving rows between statuses keeps the intents table well typed.        *)
LEMMA MovedIntents ==
    ASSUME NEW intents \in [IntentStatus -> SUBSET Intent],
           NEW S \in SUBSET Intent, NEW st
    PROVE  Moved(intents, S, st) \in [IntentStatus -> SUBSET Intent]
BY DEF Moved

(* A database that differs from d only where the books do not look.        *)
LEMMA KeepsBooks ==
    ASSUME NEW d, NEW d2, NEW b, BooksOK(d, b), d2 \in Database,
           d2.fills = d.fills, d2.applied = d.applied,
           \/ d2.state = d.state
           \/ d2.state.version > d.state.version /\ SamePosition(d2.state, d.state),
           \A n \in OrderNo : Recorded(d, n) => Recorded(d2, n)
    PROVE  BooksOK(d2, b) /\ Grows(d, d2, b, b)
<1>1. Len(b.execs) \in Nat /\ Len(b.orders) \in Nat
  BY DEF BooksOK, Account
<1>2. SamePosition(d2.state, d.state)
  BY DEF SamePosition
<1>3. Booked(d2) /\ Positioned(d2, b)
  BY <1>2 DEF BooksOK, Booked, Positioned, SamePosition
<1>4. KeepsIntents(b, b)
  BY <1>1 DEF KeepsIntents
<1> QED BY <1>1, <1>3, <1>4 DEF BooksOK, Grows

(* Saving a newer state with the same position.                            *)
LEMMA SaveBooks ==
    ASSUME NEW d, NEW b, BooksOK(d, b), NEW s \in StateRow,
           s.version > d.state.version, SamePosition(s, d.state)
    PROVE  /\ BooksOK(SaveState(d, s), b)
           /\ Grows(d, SaveState(d, s), b, b)
           /\ SaveState(d, s).state = s
<1> DEFINE d2 == SaveState(d, s)
<1>1. /\ d2 \in Database /\ d2.state = s /\ d2.orders = d.orders
      /\ d2.fills = d.fills /\ d2.applied = d.applied
  BY DEF BooksOK, SaveState, Database
<1> HIDE DEF d2
<1>2. BooksOK(d2, b) /\ Grows(d, d2, b, b)
  BY <1>1, KeepsBooks DEF Recorded
<1> QED BY <1>1, <1>2 DEF d2

(* Saving a newer state with the fills of "done" folded in and marked.     *)
LEMMA SaveReconciledBooks ==
    ASSUME NEW d, NEW b, BooksOK(d, b), NEW s \in StateRow,
           NEW done \in SUBSET FillId, done \subseteq 1..Len(b.execs),
           s.version > d.state.version,
           \A f \in FillId : s.folded[f] = IF f \in d.applied \cup done THEN 1 ELSE 0,
           s.quantity = PositionAfter(b, d.applied \cup done)
    PROVE  /\ BooksOK(SaveReconciledState(d, s, done), b)
           /\ Grows(d, SaveReconciledState(d, s, done), b, b)
           /\ SaveReconciledState(d, s, done).state = s
<1> DEFINE d2 == SaveReconciledState(d, s, done)
<1>1. /\ d2 \in Database /\ d2.state = s /\ d2.orders = d.orders
      /\ d2.fills = d.fills /\ d2.applied = d.applied \cup done
  BY DEF BooksOK, SaveReconciledState, Database
<1> HIDE DEF d2
<1>2. BooksOK(d2, b)
  BY <1>1 DEF BooksOK, Booked, Positioned
<1>3. Grows(d, d2, b, b)
  BY <1>1 DEF BooksOK, Account, Grows, KeepsIntents, Recorded
<1> QED BY <1>1, <1>2, <1>3 DEF d2

(* set_profile_status does not touch the books.                            *)
LEMMA StatusBooks ==
    ASSUME NEW d, NEW b, BooksOK(d, b), NEW st \in ProfileStatus
    PROVE  /\ BooksOK(SetProfileStatus(d, st), b)
           /\ Grows(d, SetProfileStatus(d, st), b, b)
           /\ SetProfileStatus(d, st).state = d.state
<1> DEFINE d2 == SetProfileStatus(d, st)
<1>1. /\ d2 \in Database /\ d2.state = d.state /\ d2.orders = d.orders
      /\ d2.fills = d.fills /\ d2.applied = d.applied
  BY DEF BooksOK, SetProfileStatus, Database
<1> HIDE DEF d2
<1>2. BooksOK(d2, b) /\ Grows(d, d2, b, b)
  BY <1>1, KeepsBooks DEF Recorded
<1> QED BY <1>1, <1>2 DEF d2

(* Nor does the emergency stop setting,                                    *)
LEMMA EmergencyBooks ==
    ASSUME NEW d, NEW b, BooksOK(d, b), NEW on \in BOOLEAN
    PROVE  /\ BooksOK(SetEmergency(d, on), b)
           /\ Grows(d, SetEmergency(d, on), b, b)
<1> DEFINE d2 == SetEmergency(d, on)
<1>1. /\ d2 \in Database /\ d2.state = d.state /\ d2.orders = d.orders
      /\ d2.fills = d.fills /\ d2.applied = d.applied
  BY DEF BooksOK, SetEmergency, Database
<1> HIDE DEF d2
<1>2. BooksOK(d2, b) /\ Grows(d, d2, b, b)
  BY <1>1, KeepsBooks DEF Recorded
<1> QED BY <1>2 DEF d2

(* nor an automation claim.                                                *)
LEMMA ClaimBooks ==
    ASSUME NEW d, NEW b, BooksOK(d, b), NEW key \in Day \X Phase
    PROVE  /\ BooksOK(ClaimAutomation(d, key), b)
           /\ Grows(d, ClaimAutomation(d, key), b, b)
<1> DEFINE d2 == ClaimAutomation(d, key)
<1>1. /\ d2 \in Database /\ d2.state = d.state /\ d2.orders = d.orders
      /\ d2.fills = d.fills /\ d2.applied = d.applied
  BY DEF BooksOK, ClaimAutomation, Database
<1> HIDE DEF d2
<1>2. BooksOK(d2, b) /\ Grows(d, d2, b, b)
  BY <1>1, KeepsBooks DEF Recorded
<1> QED BY <1>2 DEF d2

(* add_fill stores an execution of the broker; no fill becomes applied.    *)
LEMMA AddFillBooks ==
    ASSUME NEW d, NEW b, BooksOK(d, b), NEW f \in 1..Len(b.execs)
    PROVE  /\ BooksOK(AddFill(d, f), b)
           /\ Grows(d, AddFill(d, f), b, b)
           /\ AddFill(d, f).state = d.state
<1> DEFINE d2 == AddFill(d, f)
<1>1. f \in FillId /\ Len(b.execs) \in Nat
  BY BoundsAssumption DEF BooksOK, Account, FillId
<1>2. /\ d2 \in Database /\ d2.state = d.state /\ d2.orders = d.orders
      /\ d2.fills = d.fills \cup {f} /\ d2.applied = d.applied
  BY <1>1 DEF BooksOK, AddFill, Database
<1> HIDE DEF d2
<1>3. BooksOK(d2, b) /\ Grows(d, d2, b, b)
  <2>1. d2.applied \cup d2.fills \subseteq 1..Len(b.execs)
    BY <1>1, <1>2 DEF BooksOK
  <2>2. Booked(d2) /\ Positioned(d2, b)
    BY <1>2 DEF BooksOK, Booked, Positioned
  <2>3. BooksOK(d2, b)
    BY <1>2, <2>1, <2>2 DEF BooksOK
  <2>4. KeepsIntents(b, b) /\ \A n \in OrderNo : Recorded(d2, n) <=> Recorded(d, n)
    BY <1>2 DEF BooksOK, Account, KeepsIntents, Recorded
  <2> QED BY <1>1, <1>2, <2>3, <2>4 DEF Grows
<1> QED BY <1>2, <1>3 DEF d2

(* A row of broker_orders is never the mark of a missing row.              *)
LEMMA OrderRowRecorded ==
    ASSUME NEW row \in OrderRow
    PROVE  row # NoRow
<1>1. row.status \in OrderStatus /\ NoRow.status = "NONE"
  BY DEF OrderRow, NoRow
<1> QED BY <1>1 DEF OrderStatus

(* update_order_status keeps every recorded order recorded.                *)
LEMMA UpdateOrderBooks ==
    ASSUME NEW d, NEW b, BooksOK(d, b), NEW n \in OrderNo, Recorded(d, n),
           NEW st \in OrderStatus
    PROVE  /\ BooksOK(UpdateOrderStatus(d, n, st), b)
           /\ Grows(d, UpdateOrderStatus(d, n, st), b, b)
           /\ UpdateOrderStatus(d, n, st).state = d.state
<1> DEFINE d2 == UpdateOrderStatus(d, n, st)
<1>1. d.orders \in [OrderNo -> OrderRow \cup {NoRow}] /\ d.orders[n] \in OrderRow
  BY DEF BooksOK, Database, Recorded
<1>2. [d.orders[n] EXCEPT !.status = st] \in OrderRow
  BY <1>1 DEF OrderRow
<1>3. PICK row \in OrderRow : row = [d.orders[n] EXCEPT !.status = st]
  BY <1>2
<1>4. d2 = [d EXCEPT !.orders = [d.orders EXCEPT ![n] = row]]
  BY <1>3 DEF UpdateOrderStatus
<1> HIDE DEF d2
<1>5. [d.orders EXCEPT ![n] = row] \in [OrderNo -> OrderRow \cup {NoRow}]
  BY <1>1
<1>6. /\ d2 \in Database /\ d2.state = d.state
      /\ d2.fills = d.fills /\ d2.applied = d.applied
      /\ d2.orders = [d.orders EXCEPT ![n] = row]
  BY <1>4, <1>5 DEF BooksOK, Database
<1>7. \A m \in OrderNo : Recorded(d, m) => Recorded(d2, m)
  BY <1>1, <1>6, OrderRowRecorded DEF Recorded
<1>8. BooksOK(d2, b) /\ Grows(d, d2, b, b)
  BY <1>6, <1>7, KeepsBooks
<1> QED BY <1>6, <1>8 DEF d2

(* record_decision changes the intents table only.                         *)
LEMMA RecordDecisionBooks ==
    ASSUME NEW d, NEW b, BooksOK(d, b), NEW plan \in SUBSET Intent,
           NEW day, NEW phase
    PROVE  /\ BooksOK(RecordDecision(d, day, phase, plan), b)
           /\ Grows(d, RecordDecision(d, day, phase, plan), b, b)
<1> DEFINE stale == PendingIntents(d, day, phase) \ plan
           known == UNION {d.intents[s] : s \in IntentStatus}
           moved == Moved(Moved(d.intents, stale, "STALE"), plan \ known, "PENDING")
<1>1. d.intents \in [IntentStatus -> SUBSET Intent] /\ stale \in SUBSET Intent
  BY DEF BooksOK, Database, PendingIntents, IntentStatus
<1>2. moved \in [IntentStatus -> SUBSET Intent]
  BY <1>1, MovedIntents
<1>3. RecordDecision(d, day, phase, plan) = [d EXCEPT !.intents = moved]
  BY DEF RecordDecision
<1> HIDE DEF moved
<1>4. \A d2 : d2 = [d EXCEPT !.intents = moved] =>
         /\ d2 \in Database /\ d2.state = d.state /\ d2.orders = d.orders
         /\ d2.fills = d.fills /\ d2.applied = d.applied
  BY <1>2 DEF BooksOK, Database
<1> QED BY <1>3, <1>4, KeepsBooks DEF Recorded

(* record_broker_order adds an order and keeps the others.                 *)
LEMMA RecordOrderBooks ==
    ASSUME NEW d, NEW b, BooksOK(d, b), NEW n \in OrderNo, NEW i \in Intent
    PROVE  /\ BooksOK(RecordBrokerOrder(d, n, i), b)
           /\ Grows(d, RecordBrokerOrder(d, n, i), b, b)
<1> DEFINE d2 == RecordBrokerOrder(d, n, i)
           row == [intent |-> i, status |-> "ACCEPTED"]
           moved == Moved(d.intents, {i}, "SUBMITTED")
<1>1. row \in OrderRow
  BY DEF OrderRow, OrderStatus
<1>2. moved \in [IntentStatus -> SUBSET Intent]
  BY MovedIntents DEF BooksOK, Database
<1>3. d2 = [d EXCEPT !.orders[n] = row, !.intents = moved]
  BY DEF RecordBrokerOrder
<1> HIDE DEF row, moved, d2
<1>4. /\ d2 \in Database /\ d2.state = d.state
      /\ d2.fills = d.fills /\ d2.applied = d.applied
      /\ d2.orders = [d.orders EXCEPT ![n] = row]
  BY <1>1, <1>2, <1>3 DEF BooksOK, Database
<1>5. \A m \in OrderNo : Recorded(d, m) => Recorded(d2, m)
  BY <1>1, <1>4, OrderRowRecorded DEF Recorded, BooksOK, Database
<1>6. BooksOK(d2, b) /\ Grows(d, d2, b, b)
  BY <1>4, <1>5, KeepsBooks
<1> QED BY <1>6 DEF d2

(* mark_intent_unknown raises the version unless the flag was set already, *)
(* and folds no fill.                                                      *)
LEMMA MarkUnknownBooks ==
    ASSUME NEW d, NEW b, BooksOK(d, b), NEW i \in Intent
    PROVE  /\ BooksOK(MarkIntentUnknown(d, i), b)
           /\ Grows(d, MarkIntentUnknown(d, i), b, b)
<1> DEFINE moved == Moved(d.intents, {i}, "UNKNOWN")
           s == IF d.state.required THEN d.state ELSE Flag(d.state, TRUE)
<1>1. moved \in [IntentStatus -> SUBSET Intent]
  BY MovedIntents DEF BooksOK, Database
<1>2. /\ s \in StateRow /\ SamePosition(s, d.state)
      /\ s = d.state \/ s.version > d.state.version
  <2>1. d.state \in StateRow /\ d.state.version \in Nat
    BY DEF BooksOK, Database, StateRow
  <2>2. CASE d.state.required
    BY <2>1, <2>2 DEF SamePosition
  <2>3. CASE ~d.state.required
    <3>1. s = Flag(d.state, TRUE)
      BY <2>3
    <3> QED BY <2>1, <3>1, FlagState
  <2> QED BY <2>2, <2>3
<1>3. MarkIntentUnknown(d, i)
        = [d EXCEPT !.intents = moved, !.status = "LOCKED", !.state = s]
  BY DEF MarkIntentUnknown
<1> HIDE DEF moved, s
<1>4. \A d2 : d2 = [d EXCEPT !.intents = moved, !.status = "LOCKED", !.state = s] =>
         /\ d2 \in Database /\ d2.state = s /\ d2.orders = d.orders
         /\ d2.fills = d.fills /\ d2.applied = d.applied
  BY <1>1, <1>2 DEF BooksOK, Database, ProfileStatus
<1> QED BY <1>2, <1>3, <1>4, KeepsBooks DEF Recorded

(* Locals that hold nothing new, at a label that asks for nothing new but  *)
(* perhaps a state.                                                        *)
LEMMA Settled ==
    ASSUME NEW l \in Locals, NEW m \in Locals, NEW d, NEW b,
           LocalInv(l, d, b), m.pend \subseteq l.pend, m.done \subseteq l.done,
           m.fill \in {0, l.fill}, Len(b.execs) \in Nat,
           m.rows \subseteq l.rows, m.cancel \subseteq l.cancel,
           m.pc \in (Plain \cup Snapshot) \ {"rec_fill"},
           m.pc \in Snapshot => CurrentOrOld(m.state, d)
    PROVE  LocalInv(m, d, b)
<1>1. Grounded(m, d, b)
  BY DEF LocalInv, Grounded, Plain, Snapshot, Sending
<1>2. m.pc \notin {"rec_apply", "plan_save"}
  BY DEF Plain, Snapshot
<1> QED BY <1>1, <1>2 DEF LocalInv

(* What the invariant says of one process.                                 *)
LEMMA OfProcess ==
    ASSUME IInv, NEW p \in Procs
    PROVE  /\ proc[p] \in Locals /\ LocalInv(proc[p], db, broker)
           /\ BooksOK(db, broker) /\ Len(broker.execs) \in Nat
           /\ db \in Database /\ db.state \in StateRow
           /\ db.state.version \in Nat /\ proc[p].state \in StateRow
           /\ proc[p].state.version \in Nat /\ proc[p].base \in Nat
<1>1. proc[p] \in Locals /\ LocalInv(proc[p], db, broker) /\ BooksOK(db, broker)
  BY DEF IInv
<1>2. Len(broker.execs) \in Nat
  BY <1>1 DEF BooksOK, Account
<1>3. db \in Database /\ db.state \in StateRow
  BY <1>1 DEF BooksOK, Database
<1>4. proc[p].state \in StateRow /\ proc[p].base \in Nat
  BY <1>1 DEF Locals
<1>5. db.state.version \in Nat /\ proc[p].state.version \in Nat
  BY <1>3, <1>4 DEF StateRow
<1> QED BY <1>1, <1>2, <1>3, <1>4, <1>5

(* A step of process p, with what it does to the database and the broker,  *)
(* that leaves p with settled locals m; the state m may store again is     *)
(* current or the one p had before.                                        *)
LEMMA SettledStep ==
    ASSUME IInv, NEW p \in Procs, NEW m \in Locals,
           proc' = [proc EXCEPT ![p] = m], clock' = clock,
           BooksOK(db', broker'), Grows(db, db', broker, broker'),
           broker'.execs = broker.execs,
           m.pend \subseteq proc[p].pend, m.done \subseteq proc[p].done,
           m.fill \in {0, proc[p].fill},
           m.rows \subseteq proc[p].rows, m.cancel \subseteq proc[p].cancel,
           m.pc \in (Plain \cup Snapshot) \ {"rec_fill"},
           m.pc \in Snapshot =>
              \/ CurrentOrOld(m.state, db')
              \/ m.state = proc[p].state /\ proc[p].pc \in Snapshot
    PROVE  Advances
<1>1. /\ proc[p] \in Locals /\ LocalInv(proc[p], db, broker) /\ BooksOK(db, broker)
      /\ Len(broker.execs) \in Nat
  BY OfProcess
<1>2. LocalInv(proc[p], db', broker')
  BY <1>1, Frame
<1>3. m.pc \in Snapshot => CurrentOrOld(m.state, db')
  BY <1>2 DEF LocalInv
<1>4. LocalInv(m, db', broker')
  BY <1>1, <1>2, <1>3, Settled
<1> QED BY <1>4, OwnStep

(* The same for a command that ends, ...                                   *)
LEMMA EndStep ==
    ASSUME IInv, NEW p \in Procs, End(p), clock' = clock,
           BooksOK(db', broker'), Grows(db, db', broker, broker'),
           broker'.execs = broker.execs
    PROVE  Advances
<1>1. LocalInv(Fresh, db', broker')
  BY FreshLocals DEF BooksOK
<1> QED BY <1>1, FreshLocals, OwnStep DEF End

(* ... one that moves on and drops its locals, ...                         *)
LEMMA EnterStep ==
    ASSUME IInv, NEW p \in Procs, NEW label \in Plain,
           proc' = [proc EXCEPT ![p] = Keep(proc[p], label)], clock' = clock,
           BooksOK(db', broker'), Grows(db, db', broker, broker'),
           broker'.execs = broker.execs
    PROVE  Advances
<1>1. proc[p] \in Locals
  BY OfProcess
<1>2. Keep(proc[p], label) \in Locals /\ LocalInv(Keep(proc[p], label), db', broker')
  BY <1>1, KeepLocals DEF BooksOK
<1> QED BY <1>2, OwnStep

(* ... and one that moves on and keeps them.                               *)
LEMMA GotoStep ==
    ASSUME IInv, NEW p \in Procs, NEW label \in Plain, Goto(p, label),
           clock' = clock, BooksOK(db', broker'),
           Grows(db, db', broker, broker'), broker'.execs = broker.execs
    PROVE  Advances
<1>1. proc[p] \in Locals /\ LocalInv(proc[p], db, broker) /\ BooksOK(db, broker)
  BY OfProcess
<1>2. LocalInv(proc[p], db', broker')
  BY <1>1, Frame
<1> DEFINE m == [proc[p] EXCEPT !.pc = label]
<1>3. m \in Locals /\ LocalInv(m, db', broker')
  BY <1>1, <1>2, PlainGoto
<1>4. proc' = [proc EXCEPT ![p] = m]
  BY DEF Goto
<1> HIDE DEF m
<1> QED BY <1>3, <1>4, OwnStep

(* A step that changes neither the database nor the broker.                *)
LEMMA Unmoved ==
    ASSUME IInv, UNCHANGED <<db, broker>>
    PROVE  /\ BooksOK(db', broker') /\ Grows(db, db', broker, broker')
           /\ broker'.execs = broker.execs
<1>1. BooksOK(db, broker) /\ Len(broker.execs) \in Nat /\ Len(broker.orders) \in Nat
  BY DEF IInv, BooksOK, Account
<1> QED BY <1>1 DEF Grows, KeepsIntents

(* The plain labels that commands go to.                                   *)
LEMMA PlainLabels ==
    {"claim", "profile", "rec_state", "plan_read", "plan_record",
     "exec_pending", "exec_gate", "exec_check", "on_set", "off_orders",
     "off_cancel", "off_check", "off_unknown", "lock_status", "lock_read"}
        \subseteq Plain
BY DEF Plain, Label, Snapshot, Sending

(* Storing a state, or giving up when its version was overtaken.           *)
LEMMA SaveOrAbortStep ==
    ASSUME IInv, NEW p \in Procs, NEW s \in StateRow, NEW expected,
           NEW label \in (Plain \cup Snapshot) \ {"rec_fill"},
           SaveOrAbort(p, s, expected, label),
           CanSave(db, expected) =>
              s.version > db.state.version /\ SamePosition(s, db.state)
    PROVE  Advances
<1>1. proc[p] \in Locals /\ BooksOK(db, broker)
  BY OfProcess
<1>2. CASE CanSave(db, expected)
  <2> DEFINE m == [proc[p] EXCEPT !.pc = label, !.state = s]
             d2 == SaveState(db, s)
  <2>1. BooksOK(d2, broker) /\ Grows(db, d2, broker, broker) /\ d2.state = s
    BY <1>1, <1>2, SaveBooks
  <2>2. /\ proc' = [proc EXCEPT ![p] = m] /\ db' = d2
        /\ UNCHANGED <<broker, clock>>
    BY <1>2 DEF SaveOrAbort
  <2>3. /\ m \in Locals /\ m.state = s /\ m.pc = label
        /\ m.pend = proc[p].pend /\ m.done = proc[p].done /\ m.fill = proc[p].fill
        /\ m.rows = proc[p].rows /\ m.cancel = proc[p].cancel
    <3>1. label \in Label
      BY DEF Plain, Snapshot, Label
    <3> QED BY <1>1, <3>1 DEF Locals
  <2> HIDE DEF m, d2
  <2>4. CurrentOrOld(m.state, db')
    BY <2>1, <2>2, <2>3 DEF CurrentOrOld, StateRow
  <2> QED BY <2>1, <2>2, <2>3, <2>4, SettledStep
<1>3. CASE ~CanSave(db, expected)
  BY <1>3, Endings DEF SaveOrAbort
<1> QED BY <1>2, <1>3

-----------------------------------------------------------------------------
(* The steps of reconcile_dbsec.                                           *)

(* The state is read: a snapshot of the row.                               *)
LEMMA RecStateStep ==
    ASSUME IInv, NEW p \in Procs, RecState(p)
    PROVE  Advances
<1> DEFINE l == [proc[p] EXCEPT !.state = db.state, !.pc = "rec_orders"]
<1>1. proc[p] \in Locals /\ db.state \in StateRow /\ db.state.version \in Nat
  BY DEF IInv, BooksOK, Database, StateRow
<1>2. l \in Locals /\ l.state = db.state /\ l.pc = "rec_orders"
  BY <1>1 DEF Locals, Label
<1>3. LocalInv(l, db, broker)
  BY <1>1 DEF IInv, LocalInv, Grounded, CurrentOrOld, Locals, Snapshot, Sending
<1>4. proc' = [proc EXCEPT ![p] = l]
  BY DEF RecState
<1> QED BY <1>2, <1>3, <1>4, QuietStep DEF RecState

(* The history window starts at a day of the calendar: the oldest of the   *)
(* unresolved orders has one.                                              *)
LEMMA WindowStartDay ==
    ASSUME NEW d \in Database, NEW session \in Day
    PROVE  WindowStart(d, session) \in Day
<1> DEFINE days == {d.orders[n].intent.day : n \in UnresolvedOrders(d)}
<1>1. ASSUME NEW n \in UnresolvedOrders(d)
      PROVE  d.orders[n].intent.day \in Day
  <2>1. n \in OrderNo /\ d.orders[n] \in OrderRow
    BY DEF UnresolvedOrders, Recorded, Database
  <2> QED BY <2>1 DEF OrderRow, Intent
<1>2. days \subseteq Day
  BY <1>1
<1>3. CASE days = {}
  BY <1>3 DEF WindowStart
<1>4. CASE days # {}
  <2>1. \E x \in days : \A y \in days : x <= y
    <3>1. days \in SUBSET Nat
      BY <1>2, BoundsAssumption DEF Day
    <3> HIDE DEF days
    <3> QED BY <1>4, <3>1, LeastExists
  <2>2. WindowStart(d, session) = CHOOSE x \in days : \A y \in days : x <= y
    BY <1>4 DEF WindowStart
  <2> QED BY <1>2, <2>1, <2>2
<1> QED BY <1>3, <1>4

(* The unresolved orders fix the start of the window.                      *)
LEMMA RecOrdersStep ==
    ASSUME IInv, NEW p \in Procs, RecOrders(p)
    PROVE  Advances
<1> DEFINE l == [proc[p] EXCEPT !.from = WindowStart(db, proc[p].day),
                                !.pc = "rec_history"]
<1>1. proc[p] \in Locals /\ proc[p].pc = "rec_orders" /\ LocalInv(proc[p], db, broker)
  BY DEF IInv, RecOrders, At
<1>2. WindowStart(db, proc[p].day) \in Day
  BY <1>1, WindowStartDay DEF IInv, BooksOK, Locals
<1>3. l \in Locals
  BY <1>1, <1>2 DEF Locals, Label
<1>4. LocalInv(l, db, broker)
  BY <1>1 DEF LocalInv, Grounded, Locals, Snapshot, Sending
<1>5. proc' = [proc EXCEPT ![p] = l]
  BY DEF RecOrders
<1> QED BY <1>3, <1>4, <1>5, QuietStep DEF RecOrders

(* The rows of the transaction history are well typed and name executions  *)
(* that took place.                                                        *)
LEMMA HistoryRows ==
    ASSUME NEW from \in Day, NEW to \in Day, BooksOK(db, broker)
    PROVE  \A row \in History(from, to) :
               row \in HistoryRow /\ row.fill <= Len(broker.execs)
<1>1. /\ broker.orders \in Seq(BrokerOrder) /\ Len(broker.orders) \in Nat
      /\ broker.execs \in Seq([order : OrderNo, qty : Nat \ {0}])
      /\ Len(broker.execs) \in Nat
  BY DEF BooksOK, Account
<1>2. \A f \in 1..Len(broker.execs) : broker.execs[f].order \in OrderNo
  <2>1. \A f \in 1..Len(broker.execs) :
           broker.execs[f] \in [order : OrderNo, qty : Nat \ {0}]
    BY <1>1, SeqElement
  <2> QED BY <2>1
<1>3. ASSUME NEW n \in 1..Len(broker.orders)
      PROVE  /\ n \in OrderNo
             /\ broker.orders[n].day \in Day
             /\ RowStatus(broker.orders[n]) \in OrderStatus
  <2>1. n \in OrderNo
    BY <1>1, BoundsAssumption DEF BooksOK, OrderNo
  <2>2. broker.orders[n] \in BrokerOrder
    BY <1>1
  <2>3. broker.orders[n].day \in Day
    BY <2>2 DEF BrokerOrder
  <2>4. RowStatus(broker.orders[n]) \in OrderStatus
    <3>1. PICK o : o = broker.orders[n]
      OBVIOUS
    <3>2. /\ o.status \in {"working", "cancelled", "rejected", "lapsed"} /\ o.filled \in Nat
          /\ Working(o) => o.status = "working"
      BY <2>2, <3>1 DEF BrokerOrder, Working
    <3>3. o.filled > 0 \/ o.filled = 0
      BY <3>2
    <3>4. RowStatus(o) \in OrderStatus
      <4>1. CASE o.status = "rejected"
        BY <3>2, <4>1 DEF RowStatus, OrderStatus
      <4>2. CASE o.status = "cancelled"
        BY <3>2, <3>3, <4>2 DEF RowStatus, OrderStatus
      <4>3. CASE o.status \in {"working", "lapsed"} /\ ~Working(o)
        BY <3>2, <4>3 DEF RowStatus, OrderStatus
      <4>4. CASE o.status = "working" /\ Working(o)
        BY <3>2, <3>3, <4>4 DEF RowStatus, OrderStatus
      <4> QED BY <3>2, <4>1, <4>2, <4>3, <4>4
    <3> QED BY <3>1, <3>4
  <2> QED BY <2>1, <2>3, <2>4
<1>4. ASSUME NEW row \in History(from, to)
      PROVE  \E n \in 1..Len(broker.orders), f \in 0..Len(broker.execs) :
                 row = [order |-> n, day |-> broker.orders[n].day, fill |-> f,
                        status |-> RowStatus(broker.orders[n])]
  <2> DEFINE inWindow == {n \in 1..Len(broker.orders) :
                            broker.orders[n].day \in from..to}
             line(n, f) == [order |-> n, day |-> broker.orders[n].day, fill |-> f,
                            status |-> RowStatus(broker.orders[n])]
  <2>1. \/ \E f \in 1..Len(broker.execs) :
              broker.execs[f].order \in inWindow /\ row = line(broker.execs[f].order, f)
        \/ \E n \in inWindow : row = line(n, 0)
    BY DEF History
  <2>2. \A f \in 1..Len(broker.execs) : f \in 0..Len(broker.execs)
    BY <1>1
  <2>3. 0 \in 0..Len(broker.execs)
    BY <1>1
  <2> QED BY <2>1, <2>2, <2>3
<1>5. \A n \in 1..Len(broker.orders), f \in 0..Len(broker.execs) :
          /\ f \in Nat /\ f <= Len(broker.execs)
          /\ [order |-> n, day |-> broker.orders[n].day, fill |-> f,
              status |-> RowStatus(broker.orders[n])] \in HistoryRow
  BY <1>1, <1>3 DEF HistoryRow
<1> QED BY <1>4, <1>5

(* The broker call failed: lock the profile or give up.                    *)
LEMMA BrokerFailsStep ==
    ASSUME IInv, NEW p \in Procs, BrokerFails(p)
    PROVE  Advances
<1>1. "lock_status" \in Plain
  BY DEF Plain, Label, Snapshot, Sending
<1> QED BY <1>1, Entrances, Endings DEF BrokerFails

(* The history is fetched, or the call fails.                              *)
LEMMA RecHistoryStep ==
    ASSUME IInv, NEW p \in Procs, RecHistory(p)
    PROVE  Advances
<1>1. CASE BrokerFails(p)
  BY <1>1, BrokerFailsStep
<1>2. CASE ~BrokerFails(p)
  <2> DEFINE rows == History(proc[p].from, proc[p].day)
             l == [proc[p] EXCEPT !.rows = rows, !.from = 1, !.pc = "rec_row"]
  <2>1. /\ proc' = [proc EXCEPT ![p] = l] /\ UNCHANGED <<db, broker, clock>>
        /\ proc[p].pc = "rec_history"
    BY <1>2 DEF RecHistory, At
  <2>2. proc[p] \in Locals /\ LocalInv(proc[p], db, broker) /\ BooksOK(db, broker)
    BY OfProcess
  <2>3. \A row \in rows : row \in HistoryRow /\ row.fill <= Len(broker.execs)
    BY <2>2, HistoryRows DEF Locals
  <2> HIDE DEF rows
  <2>4. l \in Locals
    <3>1. 1 \in Day /\ rows \in SUBSET HistoryRow
      BY <2>3, BoundsAssumption DEF Day
    <3> QED BY <2>2, <3>1 DEF Locals, Label
  <2>5. LocalInv(l, db, broker)
    BY <2>1, <2>2, <2>3 DEF LocalInv, Grounded, Locals, Snapshot, Sending
  <2> QED BY <2>1, <2>4, <2>5, QuietStep
<1> QED BY <1>1, <1>2

(* A row of a known order: its status is overwritten and its fill noted.   *)
LEMMA RecKnownRowStep ==
    ASSUME IInv, NEW p \in Procs, At(p, "rec_row"), NEW row \in proc[p].rows,
           RecKnownRow(p, row)
    PROVE  Advances
<1> DEFINE l == [proc[p] EXCEPT !.rows = @ \ {row}, !.fill = row.fill,
                                !.pc = IF row.fill = 0 THEN "rec_row" ELSE "rec_fill"]
           d2 == UpdateOrderStatus(db, row.order, row.status)
<1>1. proc[p] \in Locals /\ LocalInv(proc[p], db, broker) /\ BooksOK(db, broker)
  BY OfProcess
<1>2. row \in HistoryRow /\ row.fill \in Nat /\ row.fill <= Len(broker.execs)
  BY <1>1 DEF Locals, LocalInv, Grounded, HistoryRow
<1>3. BooksOK(d2, broker) /\ Grows(db, d2, broker, broker)
  BY <1>1, <1>2, UpdateOrderBooks DEF RecKnownRow, LocalOrder, HistoryRow
<1>4. LocalInv(proc[p], d2, broker)
  BY <1>1, <1>3, Frame
<1>5. proc' = [proc EXCEPT ![p] = l] /\ db' = d2 /\ UNCHANGED <<broker, clock>>
  BY DEF RecKnownRow
<1> HIDE DEF d2
<1>6. l \in Locals
  <2>1. proc[p].rows \ {row} \in SUBSET HistoryRow
    BY <1>1 DEF Locals
  <2>2. CASE row.fill = 0
    BY <1>1, <1>2, <2>1, <2>2 DEF Locals, Label
  <2>3. CASE row.fill # 0
    BY <1>1, <1>2, <2>1, <2>3 DEF Locals, Label
  <2> QED BY <2>2, <2>3
<1>7. LocalInv(l, d2, broker)
  BY <1>1, <1>2, <1>4 DEF At, LocalInv, Grounded, Locals, Snapshot, Sending
<1> QED BY <1>3, <1>5, <1>6, <1>7, OwnStep

(* A row of an unknown order: the flag is raised, unless it is up already, *)
(* if the row still has the version that was read.                         *)
LEMMA RecAlienRowStep ==
    ASSUME IInv, NEW p \in Procs, At(p, "rec_row"), NEW row \in proc[p].rows,
           RecAlienRow(p, row)
    PROVE  Advances
<1> DEFINE l == [proc[p] EXCEPT !.rows = @ \ {row}, !.alien = TRUE,
                                !.pc = "rec_lock"]
           flagged == Flag(proc[p].state, TRUE)
<1>1. /\ proc[p] \in Locals /\ LocalInv(proc[p], db, broker) /\ BooksOK(db, broker)
      /\ proc[p].state \in StateRow /\ Len(broker.execs) \in Nat
  BY OfProcess
<1>2. CurrentOrOld(proc[p].state, db)
  BY <1>1 DEF LocalInv, At, Snapshot
<1>3. l \in Locals /\ l.state = proc[p].state
  BY <1>1 DEF Locals, Label
<1>4. /\ UNCHANGED <<broker, clock>>
      /\ \/ proc' = [proc EXCEPT ![p] = l] /\ UNCHANGED db
         \/ /\ CanSave(db, proc[p].state.version) /\ db' = SaveState(db, flagged)
            /\ proc' = [proc EXCEPT ![p] = [l EXCEPT !.state = flagged]]
         \/ End(p) /\ UNCHANGED db
  BY <1>3 DEF RecAlienRow
<1>5. CASE proc' = [proc EXCEPT ![p] = l] /\ UNCHANGED db
  <2>1. LocalInv(l, db, broker)
    BY <1>1, <1>2, <1>3, Settled DEF Locals, Snapshot
  <2> QED BY <1>3, <1>4, <1>5, <2>1, QuietStep
<1>6. CASE /\ CanSave(db, proc[p].state.version) /\ db' = SaveState(db, flagged)
           /\ proc' = [proc EXCEPT ![p] = [l EXCEPT !.state = flagged]]
  <2> DEFINE m == [l EXCEPT !.state = flagged]
             d2 == SaveState(db, flagged)
  <2>1. /\ flagged \in StateRow /\ flagged.version > db.state.version
        /\ SamePosition(flagged, db.state)
    BY <1>1, <1>2, <1>6, FlagState DEF CanSave, CurrentOrOld
  <2> HIDE DEF flagged
  <2>2. BooksOK(d2, broker) /\ Grows(db, d2, broker, broker) /\ d2.state = flagged
    BY <1>1, <2>1, SaveBooks
  <2>3. m \in Locals /\ m.state = flagged
    BY <1>3, <2>1 DEF Locals
  <2>4. LocalInv(proc[p], d2, broker)
    BY <1>1, <2>2, Frame
  <2>5. CurrentOrOld(m.state, d2)
    BY <2>1, <2>2, <2>3 DEF CurrentOrOld, StateRow
  <2>6. LocalInv(m, d2, broker)
    BY <1>1, <2>3, <2>4, <2>5, Settled DEF Locals, Snapshot
  <2> QED BY <1>4, <1>6, <2>2, <2>3, <2>6, OwnStep
<1>7. CASE End(p) /\ UNCHANGED db
  BY <1>4, <1>7, Endings
<1> QED BY <1>4, <1>5, <1>6, <1>7

(* The next history row, of either kind.                                   *)
LEMMA RecRowStep ==
    ASSUME IInv, NEW p \in Procs, RecRow(p)
    PROVE  Advances
<1>1. PICK row \in proc[p].rows : RecKnownRow(p, row) \/ RecAlienRow(p, row)
  BY DEF RecRow
<1> QED BY <1>1, RecKnownRowStep, RecAlienRowStep DEF RecRow

(* The fill of a row is stored; it is an execution of the broker.          *)
LEMMA RecFillStep ==
    ASSUME IInv, NEW p \in Procs, RecFill(p)
    PROVE  Advances
<1> DEFINE m == [proc[p] EXCEPT !.fill = 0, !.pc = "rec_row"]
           d2 == AddFill(db, proc[p].fill)
<1>1. /\ proc[p] \in Locals /\ LocalInv(proc[p], db, broker) /\ BooksOK(db, broker)
      /\ Len(broker.execs) \in Nat /\ proc[p].pc = "rec_fill"
  BY OfProcess DEF RecFill, At
<1>2. proc[p].fill \in 1..Len(broker.execs)
  BY <1>1 DEF LocalInv, Grounded, Locals
<1>3. BooksOK(d2, broker) /\ Grows(db, d2, broker, broker)
  BY <1>1, <1>2, AddFillBooks
<1>4. /\ proc' = [proc EXCEPT ![p] = m] /\ db' = d2
      /\ UNCHANGED <<broker, clock>>
  BY DEF RecFill
<1>5. /\ m \in Locals /\ m.fill = 0 /\ m.pc = "rec_row" /\ m.state = proc[p].state
      /\ m.pend = proc[p].pend /\ m.done = proc[p].done
      /\ m.rows = proc[p].rows /\ m.cancel = proc[p].cancel
  BY <1>1 DEF Locals, Label
<1> HIDE DEF m, d2
<1>6. m.pc \in (Plain \cup Snapshot) \ {"rec_fill"} /\ proc[p].pc \in Snapshot
  BY <1>1, <1>5 DEF Snapshot
<1> QED BY <1>3, <1>4, <1>5, <1>6, SettledStep

(* The profile is locked for an unknown order.                             *)
LEMMA RecLockStep ==
    ASSUME IInv, NEW p \in Procs, RecLock(p)
    PROVE  Advances
<1> DEFINE m == [proc[p] EXCEPT !.pc = "rec_row"]
           d2 == SetProfileStatus(db, "LOCKED")
<1>1. /\ proc[p] \in Locals /\ BooksOK(db, broker) /\ proc[p].pc = "rec_lock"
  BY OfProcess DEF RecLock, At
<1>2. BooksOK(d2, broker) /\ Grows(db, d2, broker, broker)
  BY <1>1, StatusBooks DEF ProfileStatus
<1>3. /\ proc' = [proc EXCEPT ![p] = m] /\ db' = d2
      /\ UNCHANGED <<broker, clock>>
  BY DEF RecLock, Goto
<1>4. /\ m \in Locals /\ m.fill = proc[p].fill /\ m.pc = "rec_row"
      /\ m.state = proc[p].state
      /\ m.pend = proc[p].pend /\ m.done = proc[p].done
      /\ m.rows = proc[p].rows /\ m.cancel = proc[p].cancel
  BY <1>1 DEF Locals, Label
<1> HIDE DEF m, d2
<1>5. m.pc \in (Plain \cup Snapshot) \ {"rec_fill"} /\ proc[p].pc \in Snapshot
  BY <1>1, <1>4 DEF Snapshot
<1> QED BY <1>2, <1>3, <1>4, <1>5, SettledStep

(* The pending fills are read: those to fold are not applied yet, as far   *)
(* as the state is still the one in the row.                               *)
LEMMA RecPendingStep ==
    ASSUME IInv, NEW p \in Procs, RecPending(p)
    PROVE  Advances
<1> DEFINE pend == PendingFills(db)
           m == [proc[p] EXCEPT !.pend = pend, !.done = {},
                   !.base = IF pend = {} THEN 0 ELSE proc[p].state.version,
                   !.pc = IF pend = {} THEN "rec_holding" ELSE "rec_apply"]
<1>1. /\ proc[p] \in Locals /\ LocalInv(proc[p], db, broker) /\ BooksOK(db, broker)
      /\ Len(broker.execs) \in Nat /\ proc[p].pc = "rec_row"
      /\ proc[p].state.version \in Nat
      /\ UNCHANGED <<db, broker, clock>> /\ proc' = [proc EXCEPT ![p] = m]
  BY OfProcess DEF RecPending, At
<1>2. CurrentOrOld(proc[p].state, db)
  BY <1>1 DEF LocalInv, Snapshot
<1>3. /\ pend \in SUBSET FillId /\ pend \cap db.applied = {}
      /\ pend \subseteq 1..Len(broker.execs)
  BY <1>1 DEF BooksOK, Database, PendingFills
<1> HIDE DEF pend
<1>4. CASE pend = {}
  <2>1. /\ m \in Locals /\ m.fill = proc[p].fill /\ m.pc = "rec_holding"
        /\ m.state = proc[p].state /\ m.pend = {} /\ m.done = {}
        /\ m.rows = proc[p].rows /\ m.cancel = proc[p].cancel
    <3>1. m = [proc[p] EXCEPT !.pend = {}, !.done = {}, !.base = 0, !.pc = "rec_holding"]
      BY <1>4
    <3> QED BY <1>1, <3>1 DEF Locals, Label
  <2> HIDE DEF m
  <2>2. m.pc \in (Plain \cup Snapshot) \ {"rec_fill"} /\ proc[p].pc \in Snapshot
    BY <1>1, <2>1 DEF Snapshot
  <2> QED BY <1>1, <2>1, <2>2, Unmoved, SettledStep
<1>5. CASE pend # {}
  <2>1. /\ m \in Locals /\ m.fill = proc[p].fill /\ m.pc = "rec_apply"
        /\ m.state = proc[p].state /\ m.pend = pend /\ m.done = {}
        /\ m.rows = proc[p].rows /\ m.cancel = proc[p].cancel
        /\ m.base = proc[p].state.version
    BY <1>1, <1>3, <1>5 DEF Locals, Label
  <2> HIDE DEF m
  <2>2. Grounded(m, db, broker)
    BY <1>1, <1>3, <2>1 DEF LocalInv, Grounded, Sending
  <2>3. Folding(m, db, broker)
    <3>1. m.base = db.state.version => m.state = db.state
      BY <1>2, <2>1 DEF CurrentOrOld
    <3>2. Booked(db) /\ db.state.quantity = PositionAfter(broker, db.applied \cup {})
      BY <1>1 DEF BooksOK, Positioned
    <3> QED BY <1>2, <1>3, <1>5, <2>1, <3>1, <3>2 DEF Folding, CurrentOrOld, Booked
  <2>4. LocalInv(m, db, broker)
    BY <2>1, <2>2, <2>3 DEF LocalInv, Snapshot
  <2> QED BY <1>1, <2>1, <2>4, QuietStep
<1> QED BY <1>4, <1>5

(* Folding a fill yields a state of a higher version that counts the fill  *)
(* once more and no other fill.                                            *)
LEMMA FoldState ==
    ASSUME BooksOK(db, broker), NEW s \in StateRow,
           NEW f \in FillId, f \in 1..Len(broker.execs), CanFold(s, f)
    PROVE  /\ Fold(s, f) \in StateRow
           /\ Fold(s, f).version = s.version + 1
           /\ Fold(s, f).folded = [s.folded EXCEPT ![f] = @ + 1]
           /\ Fold(s, f).quantity = s.quantity + Move(broker, f)
<1>1. FillQty(f) \in Nat
  <2>1. broker.execs[f] \in [order : OrderNo, qty : Nat \ {0}]
    BY SeqElement DEF BooksOK, Account
  <2> QED BY <2>1 DEF FillQty
<1> DEFINE q == IF FillSide(f) = "SELL" THEN s.quantity - FillQty(f)
                                        ELSE s.quantity + FillQty(f)
           c == [s.folded EXCEPT ![f] = @ + 1]
<1>2. s.version + 1 \in Nat /\ s.quantity \in Nat /\ s.folded \in [FillId -> Nat]
  BY DEF StateRow
<1>3. q \in Nat /\ q = s.quantity + Move(broker, f)
  BY <1>1, <1>2 DEF CanFold, Move, FillSide, FillQty
<1>4. c \in [FillId -> Nat]
  BY <1>2
<1>5. Fold(s, f) = [s EXCEPT !.version = @ + 1, !.quantity = q, !.folded = c]
  BY DEF Fold
<1> HIDE DEF q, c
<1>6. /\ [s EXCEPT !.version = @ + 1, !.quantity = q, !.folded = c] \in StateRow
      /\ [s EXCEPT !.version = @ + 1, !.quantity = q, !.folded = c].folded = c
      /\ [s EXCEPT !.version = @ + 1, !.quantity = q, !.folded = c].quantity = q
      /\ [s EXCEPT !.version = @ + 1, !.quantity = q, !.folded = c].version = s.version + 1
  BY <1>2, <1>3, <1>4 DEF StateRow
<1> QED BY <1>3, <1>5, <1>6 DEF c

(* One more execution moves the position once.                             *)
LEMMA PositionGrows ==
    ASSUME NEW b \in Account, NEW S \in SUBSET (1..Len(b.execs)),
           NEW f \in 1..Len(b.execs), f \notin S
    PROVE  PositionAfter(b, S \cup {f}) = PositionAfter(b, S) + Move(b, f)
<1>1. \A g \in 1..Len(b.execs) : MovesOf(b)[g] = Move(b, g) /\ MovesOf(b)[g] \in Int
  BY MoveInteger DEF MovesOf
<1>2. IsFiniteSet(S)
  BY ExecsFinite
<1> DEFINE sum == SumFunctionOnSet(MovesOf(b), S)
<1>3. SumFunctionOnSet(MovesOf(b), S \cup {f}) = sum + MovesOf(b)[f] /\ sum \in Int
  BY <1>1, <1>2, SumAdd, SumInteger
<1> HIDE DEF sum
<1>4. InitialQty \in Int
  BY BoundsAssumption
<1>5. PositionAfter(b, S \cup {f}) = InitialQty + (sum + Move(b, f))
      /\ PositionAfter(b, S) = InitialQty + sum /\ Move(b, f) \in Int
  BY <1>1, <1>3 DEF PositionAfter, sum
<1> QED BY <1>3, <1>4, <1>5

(* One more pending fill is folded into the local state: it moves from     *)
(* "pend" to "done", and is counted once.                                  *)
LEMMA RecFoldStep ==
    ASSUME IInv, NEW p \in Procs, RecFold(p)
    PROVE  Advances
<1>1. /\ proc[p] \in Locals /\ LocalInv(proc[p], db, broker) /\ BooksOK(db, broker)
      /\ Len(broker.execs) \in Nat /\ proc[p].pc = "rec_apply"
      /\ proc[p].state \in StateRow /\ UNCHANGED <<db, broker, clock>>
      /\ proc[p].state.version \in Nat /\ proc[p].base \in Nat
  BY OfProcess DEF RecFold, At
<1>2. PICK f \in proc[p].pend :
         IF CanFold(proc[p].state, f)
           THEN proc' = [proc EXCEPT ![p].state = Fold(@, f), ![p].pend = @ \ {f},
                                     ![p].done = @ \cup {f}]
           ELSE End(p)
  BY DEF RecFold
<1>3. CASE ~CanFold(proc[p].state, f)
  BY <1>1, <1>2, <1>3, Endings
<1>4. CASE CanFold(proc[p].state, f)
  <2> DEFINE s == Fold(proc[p].state, f)
             m == [proc[p] EXCEPT !.state = s, !.pend = @ \ {f}, !.done = @ \cup {f}]
  <2>1. proc' = [proc EXCEPT ![p] = m]
    BY <1>2, <1>4
  <2>2. f \in FillId /\ f \in 1..Len(broker.execs) /\ Folding(proc[p], db, broker)
    BY <1>1 DEF Locals, LocalInv, Grounded
  <2>3. /\ s \in StateRow /\ s.version = proc[p].state.version + 1
        /\ s.folded = [proc[p].state.folded EXCEPT ![f] = @ + 1]
        /\ s.quantity = proc[p].state.quantity + Move(broker, f)
        /\ proc[p].state.folded \in [FillId -> Nat]
    <3>1. proc[p].state.folded \in [FillId -> Nat]
      BY <1>1 DEF StateRow
    <3> QED BY <1>1, <1>4, <2>2, <3>1, FoldState
  <2> HIDE DEF s
  <2>4. /\ m \in Locals /\ m.fill = proc[p].fill /\ m.pc = "rec_apply"
        /\ m.state = s /\ m.pend = proc[p].pend \ {f} /\ m.done = proc[p].done \cup {f}
        /\ m.rows = proc[p].rows /\ m.cancel = proc[p].cancel
        /\ m.base = proc[p].base
    BY <1>1, <2>2, <2>3 DEF Locals, Label
  <2> HIDE DEF m
  <2>5. Grounded(m, db, broker)
    BY <1>1, <2>2, <2>4 DEF LocalInv, Grounded, Sending
  <2>6. Folding(m, db, broker)
    <3>1. m.state.version > m.base /\ m.done # {} /\ m.base <= db.state.version
      BY <1>1, <2>2, <2>3, <2>4 DEF Folding
    <3>2. ASSUME m.base = db.state.version
          PROVE  /\ m.pend \cap (db.applied \cup m.done) = {}
                 /\ \A g \in FillId : m.state.folded[g]
                        = IF g \in db.applied \cup m.done THEN 1 ELSE 0
                 /\ m.state.quantity = PositionAfter(broker, db.applied \cup m.done)
      <4>1. /\ proc[p].pend \cap (db.applied \cup proc[p].done) = {}
            /\ \A g \in FillId : proc[p].state.folded[g]
                  = IF g \in db.applied \cup proc[p].done THEN 1 ELSE 0
            /\ proc[p].state.quantity
                  = PositionAfter(broker, db.applied \cup proc[p].done)
        BY <2>2, <2>4, <3>2 DEF Folding
      <4>2. f \notin db.applied \cup proc[p].done
        BY <1>2, <4>1
      <4>3. db.applied \cup proc[p].done \subseteq 1..Len(broker.execs)
        BY <1>1 DEF BooksOK, LocalInv, Grounded
      <4>4. PositionAfter(broker, (db.applied \cup proc[p].done) \cup {f})
               = PositionAfter(broker, db.applied \cup proc[p].done) + Move(broker, f)
        BY <1>1, <2>2, <4>2, <4>3, PositionGrows DEF BooksOK
      <4>5. (db.applied \cup proc[p].done) \cup {f} = db.applied \cup m.done
        BY <2>4
      <4>6. m.state.quantity = PositionAfter(broker, db.applied \cup m.done)
        BY <2>3, <2>4, <4>1, <4>4, <4>5
      <4>7. /\ m.pend \cap (db.applied \cup m.done) = {}
            /\ \A g \in FillId : m.state.folded[g]
                  = IF g \in db.applied \cup m.done THEN 1 ELSE 0
        BY <2>2, <2>3, <2>4, <4>1, <4>2
      <4> QED BY <4>6, <4>7
    <3> QED BY <3>1, <3>2 DEF Folding
  <2>7. LocalInv(m, db, broker)
    BY <2>4, <2>5, <2>6 DEF LocalInv, Snapshot
  <2> QED BY <1>1, <2>1, <2>4, <2>7, QuietStep
<1> QED BY <1>3, <1>4

(* The fills folded in are marked in the transaction that stores them.     *)
LEMMA RecSaveStep ==
    ASSUME IInv, NEW p \in Procs, RecSave(p)
    PROVE  Advances
<1>1. /\ proc[p] \in Locals /\ LocalInv(proc[p], db, broker) /\ BooksOK(db, broker)
      /\ proc[p].pc = "rec_apply" /\ proc[p].state \in StateRow
      /\ proc[p].pend = {}
      /\ proc[p].state.version \in Nat /\ proc[p].base \in Nat
      /\ db.state.version \in Nat
  BY OfProcess DEF RecSave, At
<1>2. CASE ~CanSave(db, proc[p].base)
  BY <1>2, Endings DEF RecSave
<1>3. CASE CanSave(db, proc[p].base)
  <2> DEFINE m == [proc[p] EXCEPT !.done = {}, !.base = 0, !.pc = "rec_holding"]
             d2 == SaveReconciledState(db, proc[p].state, proc[p].done)
  <2>1. /\ proc' = [proc EXCEPT ![p] = m] /\ db' = d2 /\ UNCHANGED <<broker, clock>>
    BY <1>3 DEF RecSave
  <2>2. /\ proc[p].done \in SUBSET FillId
        /\ proc[p].done \subseteq 1..Len(broker.execs)
        /\ Folding(proc[p], db, broker) /\ proc[p].base = db.state.version
    BY <1>1, <1>3 DEF Locals, LocalInv, Grounded, CanSave
  <2>3. BooksOK(d2, broker) /\ Grows(db, d2, broker, broker) /\ d2.state = proc[p].state
    <3>1. proc[p].state.version > db.state.version
      BY <1>1, <2>2 DEF Folding
    <3>2. \A f \in FillId : proc[p].state.folded[f]
             = IF f \in db.applied \cup proc[p].done THEN 1 ELSE 0
      BY <2>2 DEF Folding
    <3>3. proc[p].state.quantity
             = PositionAfter(broker, db.applied \cup proc[p].done)
      BY <2>2 DEF Folding
    <3> QED BY <1>1, <2>2, <3>1, <3>2, <3>3, SaveReconciledBooks
  <2>4. /\ m \in Locals /\ m.fill = proc[p].fill /\ m.pc = "rec_holding"
        /\ m.state = proc[p].state /\ m.pend = proc[p].pend /\ m.done = {}
        /\ m.rows = proc[p].rows /\ m.cancel = proc[p].cancel
    BY <1>1 DEF Locals, Label
  <2> HIDE DEF m, d2
  <2>5. m.pc \in (Plain \cup Snapshot) \ {"rec_fill"}
    BY <2>4 DEF Snapshot
  <2>6. CurrentOrOld(m.state, db')
    BY <1>1, <2>1, <2>3, <2>4 DEF CurrentOrOld
  <2> QED BY <2>1, <2>3, <2>4, <2>5, <2>6, SettledStep
<1> QED BY <1>2, <1>3

(* The holding is compared with the position, or the call fails.           *)
LEMMA RecHoldingStep ==
    ASSUME IInv, NEW p \in Procs, RecHolding(p)
    PROVE  Advances
<1>1. CASE BrokerFails(p)
  BY <1>1, BrokerFailsStep
<1>2. CASE ~BrokerFails(p)
  <2>1. /\ proc[p] \in Locals /\ proc[p].pc = "rec_holding"
        /\ UNCHANGED <<db, broker, clock>>
    BY <1>2, OfProcess DEF RecHolding, At
  <2>2. PICK label \in {"rec_unknown", "rec_quit", "rec_flag"} :
           proc' = [proc EXCEPT ![p].pc = label]
    BY <1>2 DEF RecHolding, Goto
  <2> DEFINE m == [proc[p] EXCEPT !.pc = label]
  <2>3. proc' = [proc EXCEPT ![p] = m]
    BY <2>2
  <2>4. label \in Label /\ label \in Snapshot \ {"rec_fill"}
    BY <2>2 DEF Label, Snapshot
  <2>5. /\ m \in Locals /\ m.fill = proc[p].fill /\ m.pc = label
        /\ m.state = proc[p].state /\ m.pend = proc[p].pend /\ m.done = proc[p].done
        /\ m.rows = proc[p].rows /\ m.cancel = proc[p].cancel
    BY <2>1, <2>4 DEF Locals
  <2> HIDE DEF m
  <2>6. proc[p].pc \in Snapshot
    BY <2>1 DEF Snapshot
  <2> QED BY <2>1, <2>3, <2>4, <2>5, <2>6, Unmoved, SettledStep
<1> QED BY <1>1, <1>2

(* The mismatch is flagged in the row that was read.                       *)
LEMMA RecFlagStep ==
    ASSUME IInv, NEW p \in Procs, RecFlag(p)
    PROVE  Advances
<1> DEFINE s == proc[p].state
           flagged == Flag(s, TRUE)
<1>1. /\ LocalInv(proc[p], db, broker) /\ s \in StateRow /\ proc[p].pc = "rec_flag"
      /\ SaveOrAbort(p, flagged, s.version, "rec_quit")
  BY OfProcess DEF RecFlag, At
<1>2. CurrentOrOld(s, db)
  BY <1>1 DEF LocalInv, Snapshot
<1>3. flagged \in StateRow /\ flagged.version > s.version /\ SamePosition(flagged, s)
  BY <1>1, FlagState
<1>4. "rec_quit" \in (Plain \cup Snapshot) \ {"rec_fill"}
  BY DEF Snapshot
<1> HIDE DEF flagged
<1>5. CanSave(db, s.version) =>
         flagged.version > db.state.version /\ SamePosition(flagged, db.state)
  BY <1>2, <1>3 DEF CanSave, CurrentOrOld
<1> QED BY <1>1, <1>3, <1>4, <1>5, SaveOrAbortStep

(* What the caller does next.                                              *)
LEMMA ResumeStep ==
    ASSUME IInv, NEW p \in Procs, NEW r, Resume(p, r), clock' = clock,
           BooksOK(db', broker'), Grows(db, db', broker, broker'),
           broker'.execs = broker.execs
    PROVE  Advances
<1>1. \/ End(p)
      \/ \E label \in {"plan_read", "on_set", "lock_status", "off_check"} :
            proc' = [proc EXCEPT ![p] = Keep(proc[p], label)]
  BY DEF Resume, End
<1> QED BY <1>1, PlainLabels, EndStep, EnterStep

(* The profile is locked for a mismatch and the caller goes on.            *)
LEMMA RecQuitStep ==
    ASSUME IInv, NEW p \in Procs, RecQuit(p)
    PROVE  Advances
<1>1. BooksOK(db', broker') /\ Grows(db, db', broker, broker')
  BY OfProcess, StatusBooks DEF RecQuit, ProfileStatus
<1> QED BY <1>1, ResumeStep DEF RecQuit

(* The flag stays or may be cleared.                                       *)
LEMMA RecUnknownStep ==
    ASSUME IInv, NEW p \in Procs, RecUnknown(p)
    PROVE  Advances
<1>1. /\ proc[p] \in Locals /\ proc[p].pc = "rec_unknown"
      /\ UNCHANGED <<db, broker, clock>>
  BY OfProcess DEF RecUnknown, At
<1>2. CASE Resume(p, proc[p].state.required)
  BY <1>1, <1>2, Unmoved, ResumeStep
<1>3. CASE Goto(p, "rec_clear")
  <2> DEFINE m == [proc[p] EXCEPT !.pc = "rec_clear"]
  <2>1. proc' = [proc EXCEPT ![p] = m]
    BY <1>3 DEF Goto
  <2>2. /\ m \in Locals /\ m.fill = proc[p].fill /\ m.pc = "rec_clear"
        /\ m.state = proc[p].state /\ m.pend = proc[p].pend /\ m.done = proc[p].done
        /\ m.rows = proc[p].rows /\ m.cancel = proc[p].cancel
    BY <1>1 DEF Locals, Label
  <2> HIDE DEF m
  <2>3. proc[p].pc \in Snapshot /\ m.pc \in (Plain \cup Snapshot) \ {"rec_fill"}
    BY <1>1, <2>2 DEF Snapshot
  <2> QED BY <1>1, <2>1, <2>2, <2>3, Unmoved, SettledStep
<1> QED BY <1>2, <1>3 DEF RecUnknown

(* The flag is cleared in the row that was read, and the caller goes on.   *)
LEMMA RecClearStep ==
    ASSUME IInv, NEW p \in Procs, RecClear(p)
    PROVE  Advances
<1> DEFINE s == proc[p].state
           cleared == Flag(s, FALSE)
<1>1. /\ LocalInv(proc[p], db, broker) /\ s \in StateRow /\ proc[p].pc = "rec_clear"
      /\ BooksOK(db, broker) /\ UNCHANGED <<broker, clock>>
  BY OfProcess DEF RecClear, At
<1>2. CurrentOrOld(s, db)
  BY <1>1 DEF LocalInv, Snapshot
<1>3. cleared \in StateRow /\ cleared.version > s.version /\ SamePosition(cleared, s)
  BY <1>1, FlagState
<1>4. CASE CanSave(db, s.version)
  <2>1. db' = SaveState(db, cleared) /\ Resume(p, FALSE)
    BY <1>4 DEF RecClear
  <2> HIDE DEF cleared
  <2>2. cleared.version > db.state.version /\ SamePosition(cleared, db.state)
    BY <1>2, <1>3, <1>4 DEF CanSave, CurrentOrOld
  <2>3. BooksOK(db', broker') /\ Grows(db, db', broker, broker')
    BY <1>1, <1>3, <2>1, <2>2, SaveBooks
  <2> QED BY <1>1, <2>1, <2>3, ResumeStep
<1>5. CASE ~CanSave(db, s.version)
  BY <1>5, Endings DEF RecClear
<1> QED BY <1>4, <1>5

(* Every step of a reconciliation keeps the invariant.                     *)
LEMMA ReconcileSteps ==
    ASSUME IInv, NEW p \in Procs, ReconcileStep(p)
    PROVE  Advances
BY RecStateStep, RecOrdersStep, RecHistoryStep, RecRowStep, RecFillStep,
   RecLockStep, RecPendingStep, RecFoldStep, RecSaveStep, RecHoldingStep,
   RecFlagStep, RecQuitStep, RecUnknownStep, RecClearStep DEF ReconcileStep

-----------------------------------------------------------------------------
(* The steps of _run_phase and of automation tick.                         *)

(* The locals of a command that starts.                                    *)
LEMMA StartedLocals ==
    ASSUME NEW cmd \in Command, NEW phase \in Phase, NEW day \in Day, NEW label \in Plain
    PROVE  /\ Started(cmd, phase, day, label) \in Locals
           /\ Started(cmd, phase, day, label).pc = label
           /\ \A d, b : b \in Account => LocalInv(Started(cmd, phase, day, label), d, b)
<1>1. label \in Label
  BY DEF Plain
<1>2. Started(cmd, phase, day, label) \in Locals
  BY <1>1, FreshLocals DEF Started, Locals
<1>3. Started(cmd, phase, day, label).pc = label
  BY FreshLocals DEF Started, Fresh
<1>4. ASSUME NEW d, NEW b \in Account
      PROVE  LocalInv(Started(cmd, phase, day, label), d, b)
  BY DEF Account, Started, Fresh, LocalInv, Grounded, Plain, Snapshot, Sending
<1> QED BY <1>2, <1>3, <1>4

(* A command that starts at a plain label.                                 *)
LEMMA StartStep ==
    ASSUME IInv, NEW p \in Procs, NEW cmd \in Command, NEW phase \in Phase,
           NEW day \in Day, NEW label \in Plain,
           proc' = [proc EXCEPT ![p] = Started(cmd, phase, day, label)],
           clock' = clock, BooksOK(db', broker'),
           Grows(db, db', broker, broker'), broker'.execs = broker.execs
    PROVE  Advances
<1> DEFINE l == Started(cmd, phase, day, label)
<1>1. l \in Locals /\ LocalInv(l, db', broker')
  BY StartedLocals DEF BooksOK
<1> HIDE DEF l
<1> QED BY <1>1, OwnStep DEF l

(* run sell-phase and run buy-phase start.                                 *)
LEMMA StartRunStep ==
    ASSUME IInv, NEW p \in Procs, NEW phase \in Phase, StartRun(p, phase)
    PROVE  Advances
<1>1. PICK day \in Day : proc' = [proc EXCEPT ![p] = Started("run", phase, day, "profile")]
  BY DEF StartRun, SessionDates
<1> QED BY <1>1, PlainLabels, Unmoved, StartStep DEF StartRun, Command

(* automation tick starts for the window of the clock.                     *)
LEMMA StartTickStep ==
    ASSUME IInv, NEW p \in Procs, StartTick(p)
    PROVE  Advances
<1>1. clock.day \in Day
  BY DEF IInv, Clock
<1> QED BY <1>1, PlainLabels, Unmoved, StartStep DEF StartTick, Command

(* The claim is new, or the tick ends.                                     *)
LEMMA ClaimStep ==
    ASSUME IInv, NEW p \in Procs, Claim(p)
    PROVE  Advances
<1> DEFINE key == <<proc[p].day, proc[p].phase>>
<1>1. CASE key \in db.claims
  BY <1>1, Endings DEF Claim
<1>2. CASE key \notin db.claims
  <2>1. /\ db' = ClaimAutomation(db, key) /\ Goto(p, "profile")
        /\ UNCHANGED <<broker, clock>>
    BY <1>2 DEF Claim
  <2>2. key \in Day \X Phase /\ BooksOK(db, broker)
    BY OfProcess DEF Locals
  <2>3. BooksOK(db', broker') /\ Grows(db, db', broker, broker')
    BY <2>1, <2>2, ClaimBooks
  <2> QED BY <2>1, <2>3, PlainLabels, GotoStep
<1> QED BY <1>1, <1>2

(* The profile is read.                                                    *)
LEMMA ReadProfileStep ==
    ASSUME IInv, NEW p \in Procs, ReadProfile(p)
    PROVE  Advances
<1> DEFINE on == db.status = "ON"
           m == [proc[p] EXCEPT !.on = on, !.pc = "rec_state"]
<1>1. proc[p] \in Locals /\ on \in BOOLEAN
  BY OfProcess
<1>2. proc' = [proc EXCEPT ![p] = m] /\ UNCHANGED <<db, broker, clock>>
  BY DEF ReadProfile
<1> HIDE DEF on
<1>3. /\ m \in Locals /\ m.fill = proc[p].fill /\ m.pc = "rec_state"
      /\ m.pend = proc[p].pend /\ m.done = proc[p].done
      /\ m.rows = proc[p].rows /\ m.cancel = proc[p].cancel
  <2>1. [proc[p] EXCEPT !.on = TRUE, !.pc = "rec_state"] \in Locals
    BY <1>1 DEF Locals, Label
  <2>2. [proc[p] EXCEPT !.on = FALSE, !.pc = "rec_state"] \in Locals
    BY <1>1 DEF Locals, Label
  <2>3. m \in Locals
    BY <1>1, <2>1, <2>2
  <2> QED BY <1>1, <2>3 DEF Locals
<1> HIDE DEF m
<1>4. m.pc \in Plain /\ m.pc \notin Snapshot /\ m.pc # "rec_fill"
  BY <1>3 DEF Plain, Label, Snapshot, Sending
<1> QED BY <1>2, <1>3, <1>4, Unmoved, SettledStep

-----------------------------------------------------------------------------
(* Planning.                                                               *)

(* Every planned intent is one: its quantity is a positive number.         *)
LEMMA PlanIntents ==
    ASSUME NEW s \in StateRow, NEW day \in Day, NEW phase \in Phase,
           NEW status \in ProfileStatus
    PROVE  Plan(s, day, phase, status) \in SUBSET Intent
<1>1. s.quantity \in Nat /\ s.version \in Nat /\ BuyQty \in Nat \ {0}
  BY BoundsAssumption DEF StateRow
<1>2. ASSUME NEW spec \in Specs(phase, s.quantity), spec[2] > 0
      PROVE  spec[1] \in Role /\ spec[2] \in Nat \ {0}
  <2> DEFINE quarter == IF s.quantity < 4 THEN 1 ELSE s.quantity \div 4
  <2>1. quarter \in Nat
    BY <1>1
  <2>2. CASE phase = "BUY"
    BY <1>1, <1>2, <2>2 DEF Specs, Role
  <2>3. CASE phase # "BUY"
    <3>1. \/ spec = <<"STAR_QUARTER_SELL", quarter>>
          \/ spec = <<"TARGET_SELL", s.quantity - quarter>>
      BY <2>3 DEF Specs
    <3> HIDE DEF quarter
    <3>2. s.quantity - quarter \in Int
      BY <1>1, <2>1
    <3> QED BY <1>2, <2>1, <3>1, <3>2 DEF Role
  <2> QED BY <2>2, <2>3
<1>3. ASSUME NEW spec \in Specs(phase, s.quantity), spec[2] > 0
      PROVE  [day |-> day, phase |-> phase, role |-> spec[1], qty |-> spec[2],
              version |-> s.version, status |-> status] \in Intent
  BY <1>1, <1>2, <1>3 DEF Intent
<1> QED BY <1>3 DEF Plan

(* The state prepared for a session differs from the row in version and    *)
(* session only.                                                           *)
LEMMA PreparedState ==
    ASSUME NEW s \in StateRow, NEW day \in Day
    PROVE  /\ Prepared(s, day) \in StateRow
           /\ SamePosition(Prepared(s, day), s)
           /\ Prepared(s, day) = s \/ Prepared(s, day).version > s.version
<1>1. s.version \in Nat /\ s.version + 1 \in Nat /\ day \in Nat
  BY BoundsAssumption DEF StateRow, Day
<1>2. CASE day > s.session
  <2>1. Prepared(s, day) = [s EXCEPT !.version = @ + 1, !.session = day]
    BY <1>2 DEF Prepared
  <2>2. /\ [s EXCEPT !.version = @ + 1, !.session = day] \in StateRow
        /\ SamePosition([s EXCEPT !.version = @ + 1, !.session = day], s)
        /\ [s EXCEPT !.version = @ + 1, !.session = day].version = s.version + 1
    BY <1>1 DEF StateRow, SamePosition
  <2> QED BY <1>1, <2>1, <2>2
<1>3. CASE ~(day > s.session)
  BY <1>3 DEF Prepared, SamePosition
<1> QED BY <1>2, <1>3

(* plan_phase reads the state; a prepared state waits to be saved with the *)
(* version it was read at.                                                 *)
LEMMA PlanReadStep ==
    ASSUME IInv, NEW p \in Procs, PlanRead(p)
    PROVE  Advances
<1> DEFINE s == Prepared(db.state, proc[p].day)
           plan == Plan(s, proc[p].day, proc[p].phase, db.status)
           label == IF s = db.state THEN "plan_record" ELSE "plan_save"
           m == [proc[p] EXCEPT !.state = s, !.base = db.state.version,
                                !.todo = plan, !.pc = label]
<1>1. CASE Abort(p)
  BY <1>1, Endings DEF Abort
<1>2. CASE ~Abort(p)
  <2>1. /\ proc' = [proc EXCEPT ![p] = m] /\ UNCHANGED <<db, broker, clock>>
        /\ proc[p].pc = "plan_read"
    BY <1>2 DEF PlanRead, At
  <2>2. /\ proc[p] \in Locals /\ LocalInv(proc[p], db, broker)
        /\ db.state \in StateRow /\ db.state.version \in Nat
        /\ proc[p].day \in Day /\ proc[p].phase \in Phase
        /\ db.status \in ProfileStatus
    BY OfProcess DEF Locals, Database
  <2>3. /\ s \in StateRow /\ SamePosition(s, db.state)
        /\ s = db.state \/ s.version > db.state.version
    BY <2>2, PreparedState
  <2> HIDE DEF s
  <2>4. plan \in SUBSET Intent
    BY <2>2, <2>3, PlanIntents
  <2> HIDE DEF plan
  <2>5. label \in Label
    BY DEF Label
  <2>6. /\ m \in Locals /\ m.fill = proc[p].fill /\ m.pc = label
        /\ m.state = s /\ m.base = db.state.version
        /\ m.pend = proc[p].pend /\ m.done = proc[p].done
        /\ m.rows = proc[p].rows /\ m.cancel = proc[p].cancel
    <3> HIDE DEF label
    <3> QED BY <2>2, <2>3, <2>4, <2>5 DEF Locals
  <2> HIDE DEF m
  <2>7. Grounded(m, db, broker)
    <3>1. m.pc \notin Sending \cup {"rec_fill", "exec_record", "off_mark"}
      BY <2>6 DEF Sending
    <3> HIDE DEF label
    <3> QED BY <2>2, <2>6, <3>1 DEF LocalInv, Grounded
  <2>8. m.pc = "plan_save" => Preparing(m, db)
    BY <2>2, <2>3, <2>6 DEF Preparing
  <2>9. m.pc \notin Snapshot \cup {"rec_apply"}
    BY <2>6 DEF Snapshot
  <2>10. LocalInv(m, db, broker)
    BY <2>7, <2>8, <2>9 DEF LocalInv
  <2> QED BY <2>1, <2>6, <2>10, QuietStep
<1> QED BY <1>1, <1>2

(* The prepared state is saved if the row has not moved.                   *)
LEMMA PlanSaveStep ==
    ASSUME IInv, NEW p \in Procs, PlanSave(p)
    PROVE  Advances
<1>1. /\ LocalInv(proc[p], db, broker) /\ proc[p].state \in StateRow
      /\ proc[p].pc = "plan_save"
      /\ SaveOrAbort(p, proc[p].state, proc[p].base, "plan_record")
  BY OfProcess DEF PlanSave, At
<1>2. Preparing(proc[p], db)
  BY <1>1 DEF LocalInv
<1>3. CanSave(db, proc[p].base) =>
         /\ proc[p].state.version > db.state.version
         /\ SamePosition(proc[p].state, db.state)
  BY <1>2 DEF Preparing, CanSave
<1>4. "plan_record" \in (Plain \cup Snapshot) \ {"rec_fill"}
  BY PlainLabels
<1> QED BY <1>1, <1>3, <1>4, SaveOrAbortStep

(* The plan is recorded; every planned intent is one.                      *)
LEMMA PlanRecordStep ==
    ASSUME IInv, NEW p \in Procs, PlanRecord(p)
    PROVE  Advances
<1>1. proc[p] \in Locals /\ BooksOK(db, broker) /\ proc[p].todo \in SUBSET Intent
  BY OfProcess DEF Locals
<1>2. BooksOK(db', broker') /\ Grows(db, db', broker, broker')
  BY <1>1, RecordDecisionBooks DEF PlanRecord
<1>3. proc' = [proc EXCEPT ![p] = Keep(proc[p], "exec_pending")]
  BY DEF PlanRecord, Enter
<1> QED BY <1>2, <1>3, PlainLabels, EnterStep DEF PlanRecord

-----------------------------------------------------------------------------
(* Submitting.                                                             *)

(* The pending intents of the phase are read.                              *)
LEMMA ExecPendingStep ==
    ASSUME IInv, NEW p \in Procs, ExecPending(p)
    PROVE  Advances
<1> DEFINE todo == PendingIntents(db, proc[p].day, proc[p].phase)
           m == [proc[p] EXCEPT !.todo = todo, !.pc = "exec_gate"]
<1>1. proc[p] \in Locals /\ todo \in SUBSET Intent
  BY OfProcess DEF PendingIntents, Database, IntentStatus
<1>2. proc' = [proc EXCEPT ![p] = m] /\ UNCHANGED <<db, broker, clock>>
  BY DEF ExecPending
<1> HIDE DEF todo
<1>3. /\ m \in Locals /\ m.fill = proc[p].fill /\ m.pc = "exec_gate"
      /\ m.pend = proc[p].pend /\ m.done = proc[p].done
      /\ m.rows = proc[p].rows /\ m.cancel = proc[p].cancel
  BY <1>1 DEF Locals, Label
<1> HIDE DEF m
<1>4. m.pc \in Plain /\ m.pc \notin Snapshot /\ m.pc # "rec_fill"
  BY <1>3 DEF Plain, Label, Snapshot, Sending
<1> QED BY <1>2, <1>3, <1>4, Unmoved, SettledStep

(* The live gates pass or refuse.                                          *)
LEMMA ExecGateStep ==
    ASSUME IInv, NEW p \in Procs, ExecGate(p)
    PROVE  Advances
<1>1. CASE End(p)
  BY <1>1, Endings DEF ExecGate
<1>2. CASE Goto(p, "exec_check")
  BY <1>2, PlainLabels, Unmoved, GotoStep DEF ExecGate
<1> QED BY <1>1, <1>2 DEF ExecGate

(* An intent of the plan is taken up to be sent, or left out.              *)
LEMMA ExecCheckStep ==
    ASSUME IInv, NEW p \in Procs, ExecCheck(p)
    PROVE  Advances
<1>1. /\ proc[p] \in Locals /\ LocalInv(proc[p], db, broker)
      /\ UNCHANGED <<db, broker, clock>>
  BY OfProcess DEF ExecCheck
<1>2. CASE End(p)
  BY <1>1, <1>2, Endings
<1>3. CASE ~End(p)
  <2>1. PICK i \in proc[p].todo :
           proc' = [proc EXCEPT
              ![p].todo = @ \ {i},
              ![p].intent = IF HasOrderFor(db, i) THEN NoIntent ELSE i,
              ![p].pc = IF HasOrderFor(db, i) THEN "exec_check" ELSE "exec_place"]
    BY <1>3 DEF ExecCheck
  <2>2. i \in Intent /\ proc[p].todo \ {i} \in SUBSET Intent
    BY <1>1 DEF Locals
  <2>3. CASE HasOrderFor(db, i)
    <3> DEFINE m == [proc[p] EXCEPT !.todo = @ \ {i}, !.intent = NoIntent,
                                    !.pc = "exec_check"]
    <3>1. proc' = [proc EXCEPT ![p] = m]
      BY <2>1, <2>3
    <3>2. /\ m \in Locals /\ m.fill = proc[p].fill /\ m.pc = "exec_check"
          /\ m.pend = proc[p].pend /\ m.done = proc[p].done
          /\ m.rows = proc[p].rows /\ m.cancel = proc[p].cancel
      BY <1>1, <2>2 DEF Locals, Label
    <3> HIDE DEF m
    <3>3. m.pc \in Plain /\ m.pc \notin Snapshot /\ m.pc # "rec_fill"
      BY <3>2 DEF Plain, Label, Snapshot, Sending
    <3> QED BY <1>1, <3>1, <3>2, <3>3, Unmoved, SettledStep
  <2>4. CASE ~HasOrderFor(db, i)
    <3> DEFINE m == [proc[p] EXCEPT !.todo = @ \ {i}, !.intent = i,
                                    !.pc = "exec_place"]
    <3>1. proc' = [proc EXCEPT ![p] = m]
      BY <2>1, <2>4
    <3>2. /\ m \in Locals /\ m.fill = proc[p].fill /\ m.pc = "exec_place"
          /\ m.pend = proc[p].pend /\ m.done = proc[p].done
          /\ m.rows = proc[p].rows /\ m.cancel = proc[p].cancel
          /\ m.intent = i
      BY <1>1, <2>2 DEF Locals, Label
    <3> HIDE DEF m
    <3>3. LocalInv(m, db, broker)
      BY <1>1, <2>2, <3>2 DEF LocalInv, Grounded, Snapshot
    <3> QED BY <1>1, <3>1, <3>2, <3>3, QuietStep
  <2> QED BY <2>3, <2>4
<1> QED BY <1>2, <1>3

(* A broker account with the same executions keeps the books.              *)
LEMMA BrokerBooks ==
    ASSUME BooksOK(db, broker), NEW b \in Account, b.execs = broker.execs,
           Len(b.orders) <= MaxOrders, KeepsIntents(broker, b)
    PROVE  BooksOK(db, b) /\ Grows(db, db, broker, b)
<1>1. /\ Len(broker.execs) \in Nat /\ Len(broker.orders) \in Nat
      /\ Len(b.orders) \in Nat
  BY DEF BooksOK, Account
<1>2. Grows(db, db, broker, b)
  BY <1>1 DEF Grows
<1>3. \A f \in 1..Len(b.execs) : b.execs[f].order \in 1..Len(b.orders)
  BY <1>1 DEF BooksOK, KeepsIntents
<1>4. db.applied \in SUBSET (1..Len(broker.execs))
  BY DEF BooksOK
<1>5. PositionAfter(b, db.applied) = PositionAfter(broker, db.applied)
  BY <1>2, <1>4, PositionKept
<1>6. Positioned(db, b)
  BY <1>5 DEF BooksOK, Positioned
<1> QED BY <1>2, <1>3, <1>6 DEF BooksOK

(* An accepted order joins the account and has a number within bounds.     *)
LEMMA AcceptedAccount ==
    ASSUME IInv, NEW i \in Intent, CanAccept
    PROVE  /\ Accepted(broker, i) \in Account
           /\ Accepted(broker, i).execs = broker.execs
           /\ Accepted(broker, i).inflight = broker.inflight
           /\ Len(Accepted(broker, i).orders) = Len(broker.orders) + 1
           /\ Len(broker.orders) + 1 \in OrderNo
           /\ KeepsIntents(broker, Accepted(broker, i))
<1>1. /\ broker \in Account /\ broker.orders \in Seq(BrokerOrder)
      /\ Len(broker.orders) \in Nat /\ clock.day \in Day
  BY DEF IInv, BooksOK, Account, Clock
<1>2. NewOrder(i) \in BrokerOrder
  BY <1>1 DEF NewOrder, BrokerOrder
<1> DEFINE orders == Append(broker.orders, NewOrder(i))
<1>3. /\ orders \in Seq(BrokerOrder) /\ Len(orders) = Len(broker.orders) + 1
      /\ \A n \in 1..Len(broker.orders) : orders[n] = broker.orders[n]
  BY <1>1, <1>2
<1>4. Len(broker.orders) + 1 \in OrderNo
  BY <1>1, BoundsAssumption DEF CanAccept, OrderNo
<1>5. Accepted(broker, i) = [broker EXCEPT !.orders = orders]
  BY DEF Accepted
<1> HIDE DEF orders
<1>6. /\ [broker EXCEPT !.orders = orders] \in Account
      /\ [broker EXCEPT !.orders = orders].execs = broker.execs
      /\ [broker EXCEPT !.orders = orders].inflight = broker.inflight
      /\ [broker EXCEPT !.orders = orders].orders = orders
  BY <1>1, <1>3 DEF Account
<1>7. KeepsIntents(broker, Accepted(broker, i))
  BY <1>1, <1>3, <1>5, <1>6 DEF KeepsIntents
<1> QED BY <1>3, <1>4, <1>5, <1>6, <1>7

(* The broker answers, refuses, or does not answer.                        *)
LEMMA ExecPlaceStep ==
    ASSUME IInv, NEW p \in Procs, ExecPlace(p)
    PROVE  Advances
<1> DEFINE i == proc[p].intent
           answered == [proc[p] EXCEPT !.order = Len(broker.orders) + 1,
                                       !.pc = "exec_record"]
           ambiguous == [proc[p] EXCEPT !.pc = "exec_unknown"]
           lost == [kind \in LostAnswer |->
                      IF kind = "ambiguous" THEN [proc EXCEPT ![p].pc = "exec_unknown"]
                                            ELSE [proc EXCEPT ![p] = Fresh]]
<1>1. /\ proc[p] \in Locals /\ LocalInv(proc[p], db, broker) /\ BooksOK(db, broker)
      /\ proc[p].pc = "exec_place" /\ UNCHANGED <<db, clock>>
  BY OfProcess DEF ExecPlace, At
<1>2. i \in Intent
  BY <1>1 DEF LocalInv, Grounded, Sending
<1>3. BooksOK(db', broker') /\ Grows(db, db', broker, broker')
      /\ broker'.execs = broker.execs
  <2>1. CASE CanAccept /\ broker' = Accepted(broker, i)
    <3>1. Len(broker'.orders) <= MaxOrders
      BY <1>2, <2>1, AcceptedAccount, BoundsAssumption DEF OrderNo
    <3> QED BY <1>1, <1>2, <2>1, <3>1, AcceptedAccount, BrokerBooks
  <2>2. CASE broker' = [broker EXCEPT !.inflight = @ \cup {i}]
    <3>1. broker' \in Account /\ broker'.execs = broker.execs
          /\ broker'.orders = broker.orders
      BY <1>1, <1>2, <2>2 DEF BooksOK, Account
    <3>2. KeepsIntents(broker, broker')
      BY <1>1, <3>1 DEF BooksOK, Account, KeepsIntents
    <3> QED BY <1>1, <3>1, <3>2, BrokerBooks DEF BooksOK
  <2>3. CASE broker' = broker
    BY <1>1, <2>3, Unmoved
  <2> QED BY <2>1, <2>2, <2>3 DEF ExecPlace
<1>4. \/ End(p)
      \/ proc' = [proc EXCEPT ![p] = ambiguous]
      \/ CanAccept /\ proc' = [proc EXCEPT ![p] = answered]
  <2>1. \/ CanAccept /\ proc' = [proc EXCEPT ![p] = answered]
        \/ \E kind \in LostAnswer : proc' = lost[kind]
    BY BrokerAssumption DEF ExecPlace
  <2>2. \A kind \in LostAnswer :
           \/ lost[kind] = [proc EXCEPT ![p] = Fresh]
           \/ lost[kind] = [proc EXCEPT ![p] = ambiguous]
    OBVIOUS
  <2> HIDE DEF lost, ambiguous, answered
  <2> QED BY <2>1, <2>2 DEF End
<1>5. CASE End(p)
  BY <1>1, <1>3, <1>5, EndStep
<1>6. LocalInv(proc[p], db', broker')
  BY <1>1, <1>3, Frame
<1>7. CASE proc' = [proc EXCEPT ![p] = ambiguous]
  <2>1. ambiguous \in Locals
    BY <1>1 DEF Locals, Label
  <2>2. LocalInv(ambiguous, db', broker')
    BY <1>1, <1>2, <1>6 DEF Locals, LocalInv, Grounded, Snapshot, Sending
  <2> QED BY <1>1, <1>3, <1>7, <2>1, <2>2, OwnStep
<1>8. CASE CanAccept /\ proc' = [proc EXCEPT ![p] = answered]
  <2>1. Len(broker.orders) + 1 \in OrderNo /\ Len(broker.orders) + 1 \in Nat
    BY <1>2, <1>8, AcceptedAccount, BoundsAssumption DEF OrderNo
  <2>2. answered \in Locals
    BY <1>1, <2>1 DEF Locals, Label
  <2>3. LocalInv(answered, db', broker')
    BY <1>1, <1>2, <1>6, <2>1 DEF Locals, LocalInv, Grounded, Snapshot, Sending
  <2> QED BY <1>1, <1>3, <1>8, <2>2, <2>3, OwnStep
<1> QED BY <1>4, <1>5, <1>7, <1>8

(* The accepted order is recorded, or a row for it exists and the command  *)
(* fails.                                                                  *)
LEMMA ExecRecordStep ==
    ASSUME IInv, NEW p \in Procs, ExecRecord(p)
    PROVE  Advances
<1>1. /\ proc[p] \in Locals /\ LocalInv(proc[p], db, broker) /\ BooksOK(db, broker)
      /\ proc[p].pc = "exec_record"
  BY OfProcess DEF ExecRecord, At
<1>2. proc[p].intent \in Intent /\ proc[p].order \in OrderNo
  BY <1>1 DEF LocalInv, Grounded, Sending
<1>3. CASE End(p) /\ UNCHANGED db
  BY <1>3, Endings DEF ExecRecord
<1>4. CASE ~(End(p) /\ UNCHANGED db)
  <2> DEFINE m == [proc[p] EXCEPT !.submitted = TRUE, !.intent = NoIntent,
                                  !.order = 0, !.pc = "exec_check"]
  <2>1. /\ db' = RecordBrokerOrder(db, proc[p].order, proc[p].intent)
        /\ proc' = [proc EXCEPT ![p] = m] /\ UNCHANGED <<broker, clock>>
    BY <1>4 DEF ExecRecord
  <2>2. BooksOK(db', broker') /\ Grows(db, db', broker, broker')
    BY <1>1, <1>2, <2>1, RecordOrderBooks
  <2>3. /\ m \in Locals /\ m.fill = proc[p].fill /\ m.pc = "exec_check"
        /\ m.pend = proc[p].pend /\ m.done = proc[p].done
        /\ m.rows = proc[p].rows /\ m.cancel = proc[p].cancel
    BY <1>1 DEF Locals, Label
  <2> HIDE DEF m
  <2>4. m.pc \in Plain /\ m.pc \notin Snapshot /\ m.pc # "rec_fill"
    BY <2>3 DEF Plain, Label, Snapshot, Sending
  <2> QED BY <2>1, <2>2, <2>3, <2>4, SettledStep
<1> QED BY <1>3, <1>4

(* An ambiguous answer marks the intent UNKNOWN.                           *)
LEMMA ExecUnknownStep ==
    ASSUME IInv, NEW p \in Procs, ExecUnknown(p)
    PROVE  Advances
<1>1. /\ LocalInv(proc[p], db, broker) /\ BooksOK(db, broker)
      /\ proc[p].pc = "exec_unknown"
  BY OfProcess DEF ExecUnknown, At
<1>2. proc[p].intent \in Intent
  BY <1>1 DEF LocalInv, Grounded, Sending
<1>3. BooksOK(db', broker') /\ Grows(db, db', broker, broker')
  BY <1>1, <1>2, MarkUnknownBooks DEF ExecUnknown
<1> QED BY <1>3, EndStep DEF ExecUnknown

(* No intent is left: the closing reconciliation starts, or the command    *)
(* ends.                                                                   *)
LEMMA ExecDoneStep ==
    ASSUME IInv, NEW p \in Procs, ExecDone(p)
    PROVE  Advances
BY PlainLabels, Entrances, Endings DEF ExecDone

(* Every step of a run keeps the invariant.                                *)
LEMMA RunSteps ==
    ASSUME IInv, NEW p \in Procs, RunStep(p)
    PROVE  Advances
BY StartRunStep, StartTickStep, ClaimStep, ReadProfileStep, PlanReadStep,
   PlanSaveStep, PlanRecordStep, ExecPendingStep, ExecGateStep, ExecCheckStep,
   ExecPlaceStep, ExecRecordStep, ExecUnknownStep, ExecDoneStep DEF RunStep

-----------------------------------------------------------------------------
(* The steps of the other commands, and the death of a process.            *)

(* cli reconcile: the command starts.                                      *)
LEMMA StartReconcileStep ==
    ASSUME IInv, NEW p \in Procs, StartReconcile(p)
    PROVE  Advances
<1>1. PICK day \in Day :
        proc' = [proc EXCEPT ![p] = Started("reconcile", "SELL", day, "rec_state")]
  BY DEF StartReconcile, SessionDates
<1> QED BY <1>1, PlainLabels, Unmoved, StartStep DEF StartReconcile, Command, Phase

(* automation on: the readiness checks passed.                             *)
LEMMA StartOnStep ==
    ASSUME IInv, NEW p \in Procs, StartOn(p)
    PROVE  Advances
<1>1. PICK day \in Day : proc' = [proc EXCEPT ![p] = Started("on", "SELL", day, "rec_state")]
  BY DEF StartOn, SessionDates
<1> QED BY <1>1, PlainLabels, Unmoved, StartStep DEF StartOn, Command, Phase

(* automation on: the status is written, or its settings were refused.     *)
LEMMA OnSetStep ==
    ASSUME IInv, NEW p \in Procs, OnSet(p)
    PROVE  Advances
<1>1. BooksOK(db', broker') /\ Grows(db, db', broker, broker')
  <2>1. CASE UNCHANGED db
    BY <2>1, Unmoved DEF OnSet
  <2>2. CASE db' = SetProfileStatus(db, "ON")
    BY <2>2, OfProcess, StatusBooks DEF OnSet, ProfileStatus
  <2> QED BY <2>1, <2>2 DEF OnSet
<1> QED BY <1>1, EndStep DEF OnSet

(* automation off: OFF is written first.                                   *)
LEMMA StartOffStep ==
    ASSUME IInv, NEW p \in Procs, StartOff(p)
    PROVE  Advances
<1>1. BooksOK(db', broker') /\ Grows(db, db', broker, broker')
  BY OfProcess, StatusBooks DEF StartOff, ProfileStatus
<1>2. "off" \in Command /\ "SELL" \in Phase
  BY DEF Command, Phase
<1>3. PICK day \in Day : proc' = [proc EXCEPT ![p] = Started("off", "SELL", day, "off_orders")]
  BY DEF StartOff, SessionDates
<1>4. clock' = clock /\ broker' = broker
  BY DEF StartOff
<1> QED BY <1>1, <1>2, <1>3, <1>4, PlainLabels, StartStep

(* The orders to cancel are rows of the database.                          *)
LEMMA OffOrdersStep ==
    ASSUME IInv, NEW p \in Procs, OffOrders(p)
    PROVE  Advances
<1> DEFINE cancel == {n \in UnresolvedOrders(db) :
                         db.orders[n].status \notin {"UNKNOWN", "CANCEL_REQUESTED"}}
           label == IF UnresolvedOrders(db) = {} THEN "off_unknown" ELSE "off_cancel"
           m == [proc[p] EXCEPT !.cancel = cancel, !.pc = label]
<1>1. proc[p] \in Locals /\ LocalInv(proc[p], db, broker)
  BY OfProcess
<1>2. proc' = [proc EXCEPT ![p] = m] /\ UNCHANGED <<db, broker, clock>>
  BY DEF OffOrders
<1>3. cancel \in SUBSET OrderNo /\ \A n \in cancel : Recorded(db, n)
  BY DEF UnresolvedOrders
<1>4. label \in Plain /\ label \in Label
  BY PlainLabels DEF Plain
<1> HIDE DEF cancel, label
<1>5. /\ m \in Locals /\ m.fill = proc[p].fill /\ m.pc = label
      /\ m.pend = proc[p].pend /\ m.done = proc[p].done
      /\ m.rows = proc[p].rows /\ m.cancel = cancel
  BY <1>1, <1>3, <1>4 DEF Locals
<1> HIDE DEF m
<1>6. LocalInv(m, db, broker)
  BY <1>1, <1>3, <1>4, <1>5 DEF LocalInv, Grounded, Plain, Snapshot, Sending
<1> QED BY <1>2, <1>5, <1>6, QuietStep

(* orders cancel: the named order is in the database.                      *)
LEMMA StartCancelStep ==
    ASSUME IInv, NEW p \in Procs, StartCancel(p)
    PROVE  Advances
<1> DEFINE l == Started("cancel", "SELL", clock.day, "off_cancel")
<1>0. clock.day \in Day
  BY DEF IInv, Clock
<1>1. /\ l \in Locals /\ l.pc = "off_cancel" /\ LocalInv(l, db, broker)
      /\ UNCHANGED <<db, broker, clock>>
  BY <1>0, OfProcess, StartedLocals, PlainLabels
     DEF StartCancel, Command, Phase, BooksOK
<1>2. PICK n \in OrderNo :
         Recorded(db, n) /\ proc' = [proc EXCEPT ![p] = [l EXCEPT !.cancel = {n}]]
  BY DEF StartCancel
<1> HIDE DEF l
<1> DEFINE m == [l EXCEPT !.cancel = {n}]
<1>3. m \in Locals
  BY <1>1, <1>2 DEF Locals
<1>4. LocalInv(m, db, broker)
  BY <1>1, <1>2 DEF Locals, LocalInv, Grounded, Snapshot, Sending
<1> QED BY <1>1, <1>2, <1>3, <1>4, QuietStep

(* A cancellation is requested: the account keeps its executions and the   *)
(* process remembers an order of the database.                             *)
LEMMA OffCancelStep ==
    ASSUME IInv, NEW p \in Procs, OffCancel(p)
    PROVE  Advances
<1>1. /\ proc[p] \in Locals /\ LocalInv(proc[p], db, broker) /\ BooksOK(db, broker)
      /\ UNCHANGED <<db, clock>>
  BY OfProcess DEF OffCancel
<1>2. PICK n \in proc[p].cancel :
         \/ /\ broker' = [broker EXCEPT !.orders[n].cancelling = TRUE]
            /\ \/ proc' = [proc EXCEPT ![p].cancel = @ \ {n}, ![p].order = n,
                                       ![p].pc = "off_mark"]
               \/ CancelFails(p)
         \/ CancelFails(p) /\ UNCHANGED broker
  BY DEF OffCancel
<1>3. BooksOK(db', broker') /\ Grows(db, db', broker, broker')
      /\ broker'.execs = broker.execs
  <2>1. CASE UNCHANGED broker
    BY <1>1, <2>1, Unmoved
  <2>2. CASE broker' = [broker EXCEPT !.orders[n].cancelling = TRUE]
    <3> DEFINE o == [broker.orders[n] EXCEPT !.cancelling = TRUE]
               orders == [broker.orders EXCEPT ![n] = o]
    <3>1. broker.orders \in Seq(BrokerOrder) /\ broker \in Account
      BY <1>1 DEF BooksOK, Account
    <3>2. n \in DOMAIN broker.orders => o \in BrokerOrder
      <4>1. n \in DOMAIN broker.orders => broker.orders[n] \in BrokerOrder
        BY <3>1
      <4> QED BY <4>1 DEF BrokerOrder
    <3>3. broker' = [broker EXCEPT !.orders = orders]
      BY <2>2
    <3> HIDE DEF o
    <3>4. orders \in Seq(BrokerOrder) /\ Len(orders) = Len(broker.orders)
      <4> SUFFICES ASSUME NEW e, e = o
                   PROVE  /\ [broker.orders EXCEPT ![n] = e] \in Seq(BrokerOrder)
                          /\ Len([broker.orders EXCEPT ![n] = e]) = Len(broker.orders)
        OBVIOUS
      <4> QED BY <3>1, <3>2, ReplaceInSeq
    <3> HIDE DEF orders
    <3>5. /\ broker' \in Account /\ broker'.execs = broker.execs
          /\ broker'.orders = orders
      BY <3>1, <3>3, <3>4 DEF Account
    <3>6. KeepsIntents(broker, broker')
      BY <3>1, <3>4, <3>5 DEF KeepsIntents, orders, o
    <3> QED BY <1>1, <3>4, <3>5, <3>6, BrokerBooks DEF BooksOK
  <2> QED BY <1>2, <2>1, <2>2
<1>4. CASE CancelFails(p)
  <2>1. End(p) \/ proc' = [proc EXCEPT ![p] = Keep(proc[p], "lock_status")]
    BY <1>4 DEF CancelFails, Enter
  <2> QED BY <1>1, <1>3, <2>1, PlainLabels, EndStep, EnterStep
<1>5. CASE proc' = [proc EXCEPT ![p].cancel = @ \ {n}, ![p].order = n,
                                ![p].pc = "off_mark"]
  <2> DEFINE m == [proc[p] EXCEPT !.cancel = @ \ {n}, !.order = n,
                                  !.pc = "off_mark"]
  <2>1. proc' = [proc EXCEPT ![p] = m]
    BY <1>5
  <2>2. n \in OrderNo /\ Recorded(db, n) /\ n \in Nat
        /\ proc[p].cancel \ {n} \in SUBSET OrderNo
    BY <1>1, BoundsAssumption DEF Locals, LocalInv, Grounded, OrderNo
  <2>3. m \in Locals
    BY <1>1, <2>2 DEF Locals, Label
  <2>4. LocalInv(proc[p], db', broker')
    BY <1>1, <1>3, Frame
  <2>5. LocalInv(m, db', broker')
    BY <1>1, <2>2, <2>4 DEF Locals, LocalInv, Grounded, Snapshot, Sending
  <2> QED BY <1>1, <1>3, <2>1, <2>3, <2>5, OwnStep
<1> QED BY <1>2, <1>4, <1>5

(* The cancelled order is marked; it is in the database, where no order is *)
(* ever removed.                                                           *)
LEMMA OffMarkStep ==
    ASSUME IInv, NEW p \in Procs, OffMark(p)
    PROVE  Advances
<1>1. /\ LocalInv(proc[p], db, broker) /\ BooksOK(db, broker)
      /\ proc[p].pc = "off_mark"
  BY OfProcess DEF OffMark, At
<1>2. proc[p].order \in OrderNo /\ Recorded(db, proc[p].order)
  BY <1>1 DEF LocalInv, Grounded
<1>3. BooksOK(db', broker') /\ Grows(db, db', broker, broker')
  BY <1>1, <1>2, UpdateOrderBooks DEF OffMark, OrderStatus
<1>4. UNCHANGED <<broker, clock>> /\ (End(p) \/ Goto(p, "off_cancel"))
  BY DEF OffMark
<1> QED BY <1>3, <1>4, PlainLabels, EndStep, GotoStep

(* All cancellations are requested: the reconciliation starts.             *)
LEMMA OffCancelledStep ==
    ASSUME IInv, NEW p \in Procs, OffCancelled(p)
    PROVE  Advances
BY PlainLabels, Entrances DEF OffCancelled

(* The unresolved orders are looked at again.                              *)
LEMMA OffCheckStep ==
    ASSUME IInv, NEW p \in Procs, OffCheck(p)
    PROVE  Advances
<1>1. Goto(p, "off_unknown") \/ Goto(p, "lock_status")
  BY DEF OffCheck
<1> QED BY <1>1, PlainLabels, Unmoved, GotoStep DEF OffCheck

(* An UNKNOWN intent locks the profile.                                    *)
LEMMA OffUnknownStep ==
    ASSUME IInv, NEW p \in Procs, OffUnknown(p)
    PROVE  Advances
<1>1. BooksOK(db', broker') /\ Grows(db, db', broker, broker')
  <2>1. CASE UNCHANGED db
    BY <2>1, Unmoved DEF OffUnknown
  <2>2. CASE db' = SetProfileStatus(db, "LOCKED")
    BY <2>2, OfProcess, StatusBooks DEF OffUnknown, ProfileStatus
  <2> QED BY <2>1, <2>2 DEF OffUnknown
<1> QED BY <1>1, EndStep DEF OffUnknown

(* LOCKED is written in a transaction of its own, ...                      *)
LEMMA LockStatusStep ==
    ASSUME IInv, NEW p \in Procs, LockStatus(p)
    PROVE  Advances
<1>1. BooksOK(db', broker') /\ Grows(db, db', broker, broker')
  BY OfProcess, StatusBooks DEF LockStatus, ProfileStatus
<1> QED BY <1>1, PlainLabels, GotoStep DEF LockStatus

(* ... the state is read in the next, ...                                  *)
LEMMA LockReadStep ==
    ASSUME IInv, NEW p \in Procs, LockRead(p)
    PROVE  Advances
<1>1. CASE End(p)
  BY <1>1, Endings DEF LockRead
<1>2. CASE ~End(p)
  <2> DEFINE m == [proc[p] EXCEPT !.state = db.state, !.pc = "lock_save"]
  <2>1. proc' = [proc EXCEPT ![p] = m] /\ UNCHANGED <<db, broker, clock>>
    BY <1>2 DEF LockRead
  <2>2. proc[p] \in Locals /\ db.state \in StateRow /\ db.state.version \in Nat
    BY OfProcess
  <2>3. /\ m \in Locals /\ m.fill = proc[p].fill /\ m.pc = "lock_save"
        /\ m.state = db.state /\ m.pend = proc[p].pend /\ m.done = proc[p].done
        /\ m.rows = proc[p].rows /\ m.cancel = proc[p].cancel
    BY <2>2 DEF Locals, Label
  <2> HIDE DEF m
  <2>4. m.pc \in (Plain \cup Snapshot) \ {"rec_fill"}
    BY <2>3 DEF Snapshot
  <2>5. CurrentOrOld(m.state, db')
    BY <2>1, <2>2, <2>3 DEF CurrentOrOld
  <2> QED BY <2>1, <2>3, <2>4, <2>5, Unmoved, SettledStep
<1> QED BY <1>1, <1>2

(* ... and the flag is stored if the version is still the one read.        *)
LEMMA LockSaveStep ==
    ASSUME IInv, NEW p \in Procs, LockSave(p)
    PROVE  Advances
<1> DEFINE s == proc[p].state
           flagged == Flag(s, TRUE)
<1>1. /\ LocalInv(proc[p], db, broker) /\ s \in StateRow /\ BooksOK(db, broker)
      /\ proc[p].pc = "lock_save" /\ End(p) /\ UNCHANGED <<broker, clock>>
  BY OfProcess DEF LockSave, At
<1>2. CurrentOrOld(s, db)
  BY <1>1 DEF LocalInv, Snapshot
<1>3. flagged \in StateRow /\ flagged.version > s.version /\ SamePosition(flagged, s)
  BY <1>1, FlagState
<1>4. db' = IF CanSave(db, s.version) THEN SaveState(db, flagged) ELSE db
  BY DEF LockSave
<1> HIDE DEF flagged
<1>5. BooksOK(db', broker') /\ Grows(db, db', broker, broker')
  <2>1. CASE CanSave(db, s.version)
    <3>1. flagged.version > db.state.version /\ SamePosition(flagged, db.state)
      BY <1>2, <1>3, <2>1 DEF CanSave, CurrentOrOld
    <3> QED BY <1>1, <1>3, <1>4, <2>1, <3>1, SaveBooks
  <2>2. CASE ~CanSave(db, s.version)
    BY <1>1, <1>4, <2>2, Unmoved
  <2> QED BY <2>1, <2>2
<1> QED BY <1>1, <1>5, EndStep

(* The emergency stop is switched; no process moves.                       *)
LEMMA EmergencyStopStep ==
    ASSUME IInv, NEW p \in Procs, EmergencyStop(p)
    PROVE  Advances
<1>1. BooksOK(db', broker') /\ Grows(db, db', broker, broker')
  BY OfProcess, EmergencyBooks DEF EmergencyStop
<1>2. proc[p] \in Locals /\ LocalInv(proc[p], db, broker) /\ BooksOK(db, broker)
  BY OfProcess
<1>3. LocalInv(proc[p], db', broker')
  BY <1>1, <1>2, Frame
<1>4. proc' = [proc EXCEPT ![p] = proc[p]]
  BY DEF EmergencyStop, IInv
<1> QED BY <1>1, <1>2, <1>3, <1>4, OwnStep DEF EmergencyStop

(* A process dies: its locals are gone and nothing else changes.           *)
LEMMA CrashStep ==
    ASSUME IInv, NEW p \in Procs, Crash(p)
    PROVE  Advances
BY Endings DEF Crash, Abort

(* Every step of the other commands keeps the invariant.                   *)
LEMMA CommandSteps ==
    ASSUME IInv, NEW p \in Procs, CommandStep(p)
    PROVE  Advances
BY StartReconcileStep, StartOnStep, StartOffStep, StartCancelStep, OnSetStep,
   OffOrdersStep, OffCancelStep, OffMarkStep, OffCancelledStep, OffCheckStep,
   OffUnknownStep, LockStatusStep, LockReadStep, LockSaveStep,
   EmergencyStopStep DEF CommandStep

-----------------------------------------------------------------------------
(* Steps of the broker and the clock.                                      *)

(* A step of the broker or the clock.                                      *)
LEMMA OutsideStep ==
    ASSUME IInv, UNCHANGED <<db, proc>>, clock' \in Clock,
           BooksOK(db', broker'), Grows(db, db', broker, broker')
    PROVE  IInv'
<1>1. ASSUME NEW p \in Procs
      PROVE  LocalInv(proc'[p], db', broker')
  <2>1. proc[p] \in Locals /\ LocalInv(proc[p], db, broker) /\ BooksOK(db, broker)
    BY OfProcess
  <2> QED BY <2>1, Frame
<1> QED BY <1>1 DEF IInv

(* An execution adds one to the executions and changes one order.          *)
LEMMA ExecuteStep ==
    ASSUME IInv, NEW n, NEW q, Execute(n, q), UNCHANGED <<db, proc>>
    PROVE  /\ IInv'
           /\ Grows(db, db', broker, broker')
           /\ 1..Len(broker'.execs) = 1..Len(broker.execs) \cup {Len(broker.execs) + 1}
           /\ Len(broker.execs) + 1 \in FillId
<1>1. /\ broker \in Account /\ broker.orders \in Seq(BrokerOrder)
      /\ Len(broker.orders) \in Nat /\ Len(broker.orders) <= MaxOrders
      /\ broker.execs \in Seq([order : OrderNo, qty : Nat \ {0}])
      /\ Len(broker.execs) \in Nat /\ Len(broker.execs) <= MaxFills
      /\ broker.holding \in Nat /\ BooksOK(db, broker) /\ clock \in Clock
  BY DEF IInv, BooksOK, Account
<1>2. /\ n \in 1..Len(broker.orders) /\ q \in 1..Remaining(broker.orders[n])
      /\ Len(broker.execs) < MaxFills
  BY DEF Execute
<1>3. broker.orders[n] \in BrokerOrder /\ n \in OrderNo
  BY <1>1, <1>2, BoundsAssumption DEF OrderNo
<1>4. q \in Nat \ {0} /\ broker.orders[n].filled + q \in Nat
  BY <1>2, <1>3 DEF Remaining, BrokerOrder, Intent
<1> DEFINE sell == broker.orders[n].intent.phase = "SELL"
           o == [broker.orders[n] EXCEPT !.filled = @ + q]
           orders == [broker.orders EXCEPT ![n] = o]
           e == [order |-> n, qty |-> q]
           execs == Append(broker.execs, e)
           holding == IF sell THEN broker.holding - q ELSE broker.holding + q
<1>5. broker' = [broker EXCEPT !.orders = orders, !.execs = execs, !.holding = holding]
  BY DEF Execute
<1>6. o \in BrokerOrder
  BY <1>3, <1>4 DEF BrokerOrder
<1>7. holding \in Nat
  BY <1>1, <1>4 DEF Execute
<1> HIDE DEF o, holding
<1>8. orders \in Seq(BrokerOrder) /\ Len(orders) = Len(broker.orders)
  <2> SUFFICES ASSUME NEW e2, e2 = o
               PROVE  /\ [broker.orders EXCEPT ![n] = e2] \in Seq(BrokerOrder)
                      /\ Len([broker.orders EXCEPT ![n] = e2]) = Len(broker.orders)
    OBVIOUS
  <2> QED BY <1>1, <1>6, ReplaceInSeq
<1>9. e \in [order : OrderNo, qty : Nat \ {0}]
  BY <1>3, <1>4
<1> HIDE DEF e
<1>10. /\ execs \in Seq([order : OrderNo, qty : Nat \ {0}])
       /\ Len(execs) = Len(broker.execs) + 1
  BY <1>1, <1>9
<1> HIDE DEF orders, execs
<1>11. /\ broker' \in Account /\ broker'.orders = orders /\ broker'.execs = execs
  BY <1>1, <1>5, <1>7, <1>8, <1>10 DEF Account
<1>12. /\ 1..Len(broker'.execs) = 1..Len(broker.execs) \cup {Len(broker.execs) + 1}
       /\ Len(broker.execs) + 1 \in FillId /\ Len(broker'.execs) <= MaxFills
       /\ Len(broker.execs) <= Len(broker'.execs)
  <2>1. Len(broker'.execs) = Len(broker.execs) + 1 /\ MaxFills \in Nat
    BY <1>10, <1>11, BoundsAssumption
  <2>2. \A k \in Nat : 1..(k + 1) = 1..k \cup {k + 1}
    OBVIOUS
  <2>3. Len(broker.execs) \in Nat /\ Len(broker.execs) + 1 <= MaxFills
    <3>1. \A k \in Nat : k < MaxFills => k + 1 <= MaxFills
      BY <2>1
    <3> QED BY <1>1, <1>2, <3>1
  <2>4. 1..(Len(broker.execs) + 1) = 1..Len(broker.execs) \cup {Len(broker.execs) + 1}
    BY <2>2, <2>3
  <2>5. Len(broker.execs) + 1 \in FillId
    <3>1. \A k \in Nat : k + 1 <= MaxFills => k + 1 \in 1..MaxFills
      BY <2>1
    <3> QED BY <2>3, <3>1 DEF FillId
  <2>6. \A k \in Nat : k <= k + 1
    OBVIOUS
  <2> QED BY <2>1, <2>3, <2>4, <2>5, <2>6
<1>13. KeepsIntents(broker, broker')
  BY <1>1, <1>2, <1>8, <1>11 DEF KeepsIntents, orders, o
<1>14. /\ \A f \in 1..Len(broker.execs) : broker'.execs[f] = broker.execs[f]
       /\ broker'.execs[Len(broker.execs) + 1].order = n
  BY <1>1, <1>10, <1>11 DEF execs, e
<1>15. Grows(db, db', broker, broker')
  BY <1>1, <1>12, <1>13, <1>14 DEF Grows
<1>16. \A f \in 1..Len(broker'.execs) : broker'.execs[f].order \in 1..Len(broker'.orders)
  BY <1>1, <1>2, <1>8, <1>11, <1>12, <1>14 DEF BooksOK
<1>17. Positioned(db', broker')
  <2>1. db.applied \in SUBSET (1..Len(broker.execs)) /\ Positioned(db, broker)
    BY <1>1 DEF BooksOK
  <2>2. PositionAfter(broker', db.applied) = PositionAfter(broker, db.applied)
    BY <1>1, <1>11, <1>15, <2>1, PositionKept
  <2> QED BY <2>1, <2>2 DEF Positioned
<1>18. BooksOK(db', broker')
  BY <1>1, <1>8, <1>11, <1>12, <1>16, <1>17 DEF BooksOK
<1> QED BY <1>1, <1>12, <1>15, <1>18, OutsideStep DEF Execute

(* A change of one order that is in the account.                           *)
LEMMA OrderStep ==
    ASSUME IInv, NEW n \in 1..Len(broker.orders), NEW o \in BrokerOrder,
           o.intent = broker.orders[n].intent,
           broker' = [broker EXCEPT !.orders[n] = o], UNCHANGED <<db, proc, clock>>
    PROVE  IInv' /\ Grows(db, db', broker, broker') /\ broker'.execs = broker.execs
<1>1. broker \in Account /\ broker.orders \in Seq(BrokerOrder) /\ BooksOK(db, broker)
  BY DEF IInv, BooksOK, Account
<1> DEFINE orders == [broker.orders EXCEPT ![n] = o]
<1>2. orders \in Seq(BrokerOrder) /\ Len(orders) = Len(broker.orders)
  BY <1>1, ReplaceInSeq
<1>3. broker' = [broker EXCEPT !.orders = orders]
  OBVIOUS
<1> HIDE DEF orders
<1>4. broker' \in Account /\ broker'.orders = orders /\ broker'.execs = broker.execs
  BY <1>1, <1>2, <1>3 DEF Account
<1>5. KeepsIntents(broker, broker')
  BY <1>1, <1>2, <1>4 DEF KeepsIntents, orders
<1>6. BooksOK(db', broker') /\ Grows(db, db', broker, broker')
  BY <1>1, <1>2, <1>4, <1>5, BrokerBooks DEF BooksOK
<1> QED BY <1>4, <1>6, OutsideStep DEF IInv

(* A cancellation takes effect on one order.                               *)
LEMMA CancelTakesEffectStep ==
    ASSUME IInv, NEW n, CancelTakesEffect(n), UNCHANGED <<db, proc>>
    PROVE  IInv' /\ Grows(db, db', broker, broker') /\ broker'.execs = broker.execs
<1> DEFINE o == [broker.orders[n] EXCEPT !.status = "cancelled"]
<1>1. n \in 1..Len(broker.orders) /\ broker.orders \in Seq(BrokerOrder)
  BY DEF CancelTakesEffect, IInv, BooksOK, Account
<1>2. broker.orders[n] \in BrokerOrder
  BY <1>1
<1>3. o \in BrokerOrder /\ o.intent = broker.orders[n].intent
  BY <1>2 DEF BrokerOrder
<1>4. broker' = [broker EXCEPT !.orders[n] = o]
  BY DEF CancelTakesEffect
<1> HIDE DEF o
<1> QED BY <1>1, <1>3, <1>4, OrderStep DEF CancelTakesEffect

(* The exchange rejects one order.                                         *)
LEMMA RejectStep ==
    ASSUME IInv, NEW n, Reject(n), UNCHANGED <<db, proc>>
    PROVE  IInv' /\ Grows(db, db', broker, broker') /\ broker'.execs = broker.execs
<1> DEFINE o == [broker.orders[n] EXCEPT !.status = "rejected"]
<1>1. n \in 1..Len(broker.orders) /\ broker.orders \in Seq(BrokerOrder)
  BY DEF Reject, IInv, BooksOK, Account
<1>2. broker.orders[n] \in BrokerOrder
  BY <1>1
<1>3. o \in BrokerOrder /\ o.intent = broker.orders[n].intent
  BY <1>2 DEF BrokerOrder
<1>4. broker' = [broker EXCEPT !.orders[n] = o]
  BY DEF Reject
<1> HIDE DEF o
<1> QED BY <1>1, <1>3, <1>4, OrderStep DEF Reject

(* A late request becomes an order.                                        *)
LEMMA LateArrivalStep ==
    ASSUME IInv, NEW i, LateArrival(i), UNCHANGED <<db, proc>>
    PROVE  IInv' /\ Grows(db, db', broker, broker') /\ broker'.execs = broker.execs
<1> DEFINE b == Accepted(broker, i)
<1>1. /\ CanAccept /\ i \in Intent /\ BooksOK(db, broker)
      /\ broker' = [b EXCEPT !.inflight = broker.inflight \ {i}]
  <2>1. /\ CanAccept /\ i \in broker.inflight /\ BooksOK(db, broker)
        /\ broker' = [b EXCEPT !.inflight = @ \ {i}]
    BY DEF LateArrival, IInv
  <2>2. i \in Intent
    BY <2>1 DEF BooksOK, Account
  <2> QED BY <2>1, <2>2, AcceptedAccount
<1>2. /\ b \in Account /\ b.execs = broker.execs
      /\ Len(b.orders) = Len(broker.orders) + 1
      /\ Len(broker.orders) + 1 \in OrderNo
      /\ KeepsIntents(broker, b)
  BY <1>1, AcceptedAccount
<1> HIDE DEF b
<1>3. broker.inflight \ {i} \in SUBSET Intent
  BY <1>1 DEF BooksOK, Account
<1>4. /\ broker' \in Account /\ broker'.execs = broker.execs
      /\ broker'.orders = b.orders
  BY <1>1, <1>2, <1>3 DEF Account
<1>5. Len(broker'.orders) <= MaxOrders
  BY <1>2, <1>4, BoundsAssumption DEF OrderNo
<1>6. BooksOK(db', broker') /\ Grows(db, db', broker, broker')
  BY <1>1, <1>2, <1>4, <1>5, BrokerBooks DEF KeepsIntents
<1> QED BY <1>4, <1>6, OutsideStep DEF IInv, LateArrival

(* The clock moves to the next window.                                     *)
LEMMA WindowPassesStep ==
    ASSUME IInv, WindowPasses, UNCHANGED <<db, proc>>
    PROVE  IInv' /\ Grows(db, db', broker, broker') /\ broker'.execs = broker.execs
<1>1. clock' \in Clock
  BY DEF IInv, WindowPasses, Clock
<1> QED BY <1>1, Unmoved, OutsideStep DEF WindowPasses

(* Overnight working orders expire; executions stay.                       *)
LEMMA NextDayStep ==
    ASSUME IInv, NextDay, UNCHANGED <<db, proc>>
    PROVE  IInv' /\ Grows(db, db', broker, broker') /\ broker'.execs = broker.execs
<1>1. /\ broker \in Account /\ broker.orders \in Seq(BrokerOrder)
      /\ Len(broker.orders) \in Nat /\ BooksOK(db, broker) /\ clock \in Clock
  BY DEF IInv, BooksOK, Account
<1>2. clock' \in Clock
  BY <1>1, BoundsAssumption DEF NextDay, Clock, Day, Opening
<1>9. PICK st \in {"cancelled", "lapsed"} :
        broker' = [broker EXCEPT
                     !.orders = [n \in DOMAIN @ |-> Expired(@[n], st)],
                     !.inflight = {}]
  BY DEF NextDay
<1> DEFINE orders == [n \in DOMAIN broker.orders |-> Expired(broker.orders[n], st)]
<1>3. broker' = [broker EXCEPT !.orders = orders, !.inflight = {}]
  BY <1>9
<1>4. \A n \in 1..Len(broker.orders) : Expired(broker.orders[n], st) \in BrokerOrder
  <2>1. ASSUME NEW n \in 1..Len(broker.orders)
        PROVE  Expired(broker.orders[n], st) \in BrokerOrder
    <3>1. broker.orders[n] \in BrokerOrder
      BY <1>1
    <3> QED BY <3>1 DEF Expired, BrokerOrder
  <2> QED BY <2>1
<1>5. orders \in Seq(BrokerOrder) /\ Len(orders) = Len(broker.orders)
  <2>1. DOMAIN broker.orders = 1..Len(broker.orders)
    BY <1>1
  <2>2. orders \in [1..Len(broker.orders) -> BrokerOrder]
    BY <1>4, <2>1
  <2> HIDE DEF orders
  <2> QED BY <1>1, <2>2
<1> HIDE DEF orders
<1>6. broker' \in Account /\ broker'.orders = orders /\ broker'.execs = broker.execs
  BY <1>1, <1>3, <1>5 DEF Account
<1>7. KeepsIntents(broker, broker')
  BY <1>1, <1>5, <1>6 DEF KeepsIntents, orders, Expired
<1>8. BooksOK(db', broker') /\ Grows(db, db', broker, broker')
  BY <1>1, <1>5, <1>6, <1>7, BrokerBooks DEF BooksOK
<1> QED BY <1>2, <1>6, <1>8, OutsideStep

-----------------------------------------------------------------------------
(* The invariant.                                                          *)

(* The invariant holds initially: nothing is executed, applied or folded.  *)
LEMMA InitIInv == Init => IInv
<1> SUFFICES ASSUME Init PROVE IInv
  OBVIOUS
<1>1. db \in Database /\ db.fills = {} /\ db.applied = {} /\ db.state = InitialState
  <2>1. InitialState \in StateRow
    BY BoundsAssumption DEF InitialState, StateRow
  <2>2. [s \in IntentStatus |-> {}] \in [IntentStatus -> SUBSET Intent]
    OBVIOUS
  <2>3. [n \in OrderNo |-> NoRow] \in [OrderNo -> OrderRow \cup {NoRow}]
    OBVIOUS
  <2> QED BY <2>1, <2>2, <2>3 DEF Init, StoreInit, Database, ProfileStatus
<1>2. /\ broker \in Account /\ broker.orders = <<>> /\ broker.execs = <<>>
      /\ clock \in Clock
  <2>1. InitialQty \in Nat /\ \A d \in Day : Opening(d) \in {"SELL", "BUY", "CLOSED"}
    BY BoundsAssumption DEF Opening
  <2> QED BY <2>1 DEF Init, BrokerInit, Account, Clock
<1>3. BooksOK(db, broker)
  <2>1. InitialQty \in Nat /\ MaxOrders \in Nat /\ MaxFills \in Nat
    BY BoundsAssumption
  <2>2. Positioned(db, broker)
    BY <1>1, <2>1, SumEmpty DEF Positioned, PositionAfter, InitialState
  <2> QED BY <1>1, <1>2, <2>1, <2>2 DEF BooksOK, Booked, InitialState
<1>4. proc \in [Procs -> Locals] /\ \A p \in Procs : LocalInv(proc[p], db, broker)
  BY <1>2, FreshLocals, AbsentLocals DEF Init, ProcessInit
<1> QED BY <1>2, <1>3, <1>4 DEF IInv

(* Every step of a process keeps the invariant and the executions.         *)
LEMMA ProcessSteps ==
    ASSUME IInv, NEW p \in Procs, ProcessNext(p)
    PROVE  Advances
BY RunSteps, ReconcileSteps, CommandSteps, CrashStep DEF ProcessNext

(* Every step of the broker keeps it, and executes at most one fill.       *)
LEMMA BrokerSteps ==
    ASSUME IInv, BrokerNext, UNCHANGED <<db, proc>>
    PROVE  /\ IInv'
           /\ Grows(db, db', broker, broker')
           /\ \/ broker'.execs = broker.execs
              \/ /\ 1..Len(broker'.execs)
                       = 1..Len(broker.execs) \cup {Len(broker.execs) + 1}
                 /\ Len(broker.execs) + 1 \in FillId
BY ExecuteStep, CancelTakesEffectStep, RejectStep, LateArrivalStep,
   WindowPassesStep, NextDayStep DEF BrokerNext

(* Every step keeps the invariant and lets the books only grow.            *)
LEMMA NextIInv ==
    IInv /\ [Next]_vars => IInv' /\ Grows(db, db', broker, broker')
<1> SUFFICES ASSUME IInv, [Next]_vars
             PROVE  IInv' /\ Grows(db, db', broker, broker')
  OBVIOUS
<1>1. CASE UNCHANGED vars
  <2>1. IInv'
    BY <1>1 DEF IInv, vars
  <2>2. Grows(db, db', broker, broker')
    BY <1>1, Unmoved DEF vars
  <2> QED BY <2>1, <2>2
<1>2. CASE BrokerNext /\ UNCHANGED <<db, proc>>
  BY <1>2, BrokerSteps
<1>3. CASE \E p \in Procs : ProcessNext(p)
  BY <1>3, ProcessSteps DEF Advances
<1> QED BY <1>1, <1>2, <1>3 DEF Next

(* So the invariant always holds.                                          *)
LEMMA Invariance == Spec => []IInv
<1>1. Init => IInv
  BY InitIInv
<1>2. IInv /\ [Next]_vars => IInv'
  BY NextIInv
<1> QED BY <1>1, <1>2, PTL DEF Spec

-----------------------------------------------------------------------------
(* The theorems.                                                           *)

(* The database, the broker's books and all locals keep their types.       *)
THEOREM TypeCorrect == Spec => []TypeOK
<1>1. IInv => TypeOK
  BY DEF IInv, BooksOK, TypeOK, StoreType, BrokerType, ProcessType
<1> QED BY <1>1, Invariance, PTL

(* reconcile_dbsec and save_reconciled_state: whatever processes do at the *)
(* same time and wherever they die, a fill marked applied is folded into   *)
(* the state exactly once, and no other fill is.                           *)
THEOREM ExactlyOnce == Spec => []FillsBookedExactlyOnce
<1>1. IInv => FillsBookedExactlyOnce
  BY DEF IInv, BooksOK, Booked, FillsBookedExactlyOnce
<1> QED BY <1>1, Invariance, PTL

(* apply_fills_with_cycles and save_reconciled_state: the position in the  *)
(* state row is always the initial position moved by the fills that are    *)
(* marked applied, whatever processes do and wherever they die.            *)
THEOREM PositionFollowsFills == Spec => []PositionIsAppliedFills
<1>1. IInv => PositionIsAppliedFills
  <2>1. MovesOf(broker) = Moves
    BY DEF MovesOf, Moves, Move, FillSide, FillQty
  <2> QED BY <2>1 DEF IInv, BooksOK, Positioned, PositionAfter, PositionIsAppliedFills
<1> QED BY <1>1, Invariance, PTL

(* _save_state: every step that changes the state row raises its version.  *)
THEOREM VersionsAdvance == Spec => StateVersionsAdvance
<1>1. IInv /\ [Next]_vars =>
         [db'.state # db.state => db'.state.version > db.state.version]_vars
  BY NextIInv DEF Grows
<1> QED BY <1>1, Invariance, PTL DEF Spec, StateVersionsAdvance

(* Fills as the store and the reconciliations book them implement the      *)
(* abstract ledger: a step of a process books the fills it newly marks     *)
(* applied, a step of the broker executes at most one.                     *)
THEOREM ImplementsLedger == Spec => FillsAreLedger
<1>1. Init => Ledger!LedgerInit
  BY DEF Init, StoreInit, BrokerInit, InitialState, Ledger!LedgerInit
<1>2. IInv /\ [Next]_vars =>
         [Ledger!LedgerNext]_<<1..Len(broker.execs), db.state.folded>>
  <2> SUFFICES ASSUME IInv, [Next]_vars
               PROVE  [Ledger!LedgerNext]_<<1..Len(broker.execs), db.state.folded>>
    OBVIOUS
  <2>1. CASE UNCHANGED vars
    BY <2>1 DEF vars
  <2>2. CASE BrokerNext /\ UNCHANGED <<db, proc>>
    <3>1. CASE broker'.execs = broker.execs
      BY <2>2, <3>1
    <3>2. CASE broker'.execs # broker.execs
      <4> DEFINE f == Len(broker.execs) + 1
      <4>1. f \in FillId /\ 1..Len(broker'.execs) = 1..Len(broker.execs) \cup {f}
        BY <2>2, <3>2, BrokerSteps
      <4>2. f \notin 1..Len(broker.execs)
        BY DEF IInv, BooksOK, Account
      <4> HIDE DEF f
      <4> QED BY <2>2, <4>1, <4>2 DEF Ledger!LedgerNext, Ledger!Executes
    <3> QED BY <3>1, <3>2
  <2>3. CASE \E p \in Procs : ProcessNext(p)
    <3> DEFINE S == db'.applied \ db.applied
    <3>1. IInv' /\ Grows(db, db', broker, broker') /\ broker'.execs = broker.execs
      BY <2>3, ProcessSteps DEF Advances
    <3>2. /\ Booked(db) /\ Booked(db') /\ db.applied \subseteq db'.applied
          /\ db'.applied \subseteq 1..Len(broker.execs)
          /\ db'.applied \subseteq FillId
          /\ db'.state.folded \in [FillId -> Nat]
      BY <3>1 DEF IInv, BooksOK, Grows, Database, StateRow
    <3>3. S \in SUBSET {f \in 1..Len(broker.execs) : db.state.folded[f] = 0}
      BY <3>2 DEF Booked
    <3>4. db'.state.folded = [f \in FillId |-> IF f \in S THEN 1 ELSE db.state.folded[f]]
      <4>1. \A f \in FillId : db'.state.folded[f] = IF f \in S THEN 1 ELSE db.state.folded[f]
        BY <3>2 DEF Booked
      <4>2. db'.state.folded = [f \in FillId |-> db'.state.folded[f]]
        BY <3>2
      <4> HIDE DEF S
      <4> QED BY <4>1, <4>2
    <3> HIDE DEF S
    <3> QED BY <3>1, <3>3, <3>4 DEF Ledger!LedgerNext, Ledger!Books
  <2> QED BY <2>1, <2>2, <2>3 DEF Next
<1> QED BY <1>1, <1>2, Invariance, PTL DEF Spec, FillsAreLedger, Ledger!LedgerSpec
=============================================================================

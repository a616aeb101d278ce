--------------------------- MODULE CapitalLedger ---------------------------
(***************************************************************************)
(* Money that enters or leaves an account and the profiles it is assigned  *)
(* to: capital_events and capital_allocations (capital.py), the capital    *)
(* column of profiles, and the cash of strategy_states with the cycle rows *)
(* of position_cycles, as apply_fills_with_cycles (positions.py) keeps     *)
(* them.                                                                   *)
(*                                                                         *)
(* A step is one database transaction.  The rows of capital_allocations    *)
(* are only ever read as sums, so they are kept as sums: per event, and    *)
(* per profile those that wait for the next cycle.  Between the first buy  *)
(* and the sell-out of a cycle, cash stands for cash plus the cost of the  *)
(* shares, which is what cash is again when the profile is flat; a cycle   *)
(* is two fills, the buy that opens it and the sell that closes it.        *)
(***************************************************************************)
EXTENDS Integers, Sequences, FiniteSetsExt, Functions

CONSTANTS
    Profiles,          \* profiles of the account
    Events,            \* keys of capital events, in order of occurred_at
    Procs,             \* processes
    Teams,             \* sets of processes that may share a database
    CrashingTeams,     \* those of which any process may die at any step
    WithdrawingTeams,  \* those beside which money is withdrawn
    Deposits,          \* amounts of deposits, conversions and sale proceeds
    Withdrawals,       \* amounts of withdrawals
    Requests,          \* amounts an operator asks to allocate
    Timings,           \* timings an operator asks for
    Gains,             \* profits a sell-out may make
    InitialCapital,    \* capital of a new profile
    MaxFills,          \* bound on the fills of a profile, per size of a team
    MaxVersion         \* bound on the writes of other commands, likewise

ASSUME CapitalAssumption ==
    /\ Events \subseteq Nat /\ IsFiniteSet(Events)
    /\ Profiles # {} /\ IsFiniteSet(Profiles)
    /\ Deposits \subseteq Nat \ {0} /\ Withdrawals \subseteq Nat \ {0}
    /\ Requests \subseteq Nat \ {0}
    /\ Timings \subseteq {"current_cycle", "next_cycle"}
    /\ Gains \subseteq Int /\ InitialCapital \in Nat
    /\ IsFiniteSet(Procs) /\ Teams \subseteq SUBSET Procs
    /\ CrashingTeams \subseteq Teams /\ WithdrawingTeams \subseteq Teams
    /\ MaxFills \in [1..Cardinality(Procs) -> Nat]
    /\ MaxVersion \in [1..Cardinality(Procs) -> Nat]

VARIABLES
    event,      \* capital_events: amount (0: not recorded), settled in USD
    allocated,  \* capital_allocations: sum per event
    waiting,    \* capital_allocations: sum per profile, waiting_next_cycle
    profile,    \* profiles: capital, LOCKED
    state,      \* strategy_states
    cycles,     \* position_cycles
    fills,      \* executions in the order of filled_at: their profits
    applied,    \* number of fills marked applied
    booked,     \* history: profit of the applied fills
    proc        \* processes: program counter and locals

vars == <<event, allocated, waiting, profile, state, cycles, fills, applied,
          booked, proc>>
ledger == <<event, allocated, waiting>>
books == <<cycles, fills, applied, booked>>

StateRow == [version : Nat, cash : Int, open : BOOLEAN, cycle : Nat,
             flagged : BOOLEAN]
CycleRow == [starting : Int, added : Int, closed : BOOLEAN, realized : Int]
Locals == [pc : {"absent", "idle", "commit", "pending", "fold", "open", "save",
                 "clear"},
           profile : Profiles, amount : Nat,
           timing : {"current_cycle", "next_cycle"},
           state : StateRow, base : Nat,     \* state, and the version expected
           next : Nat, last : Nat,           \* pending fills still to fold
           gain : Int]                       \* profit of the fills folded

(* Type invariant.                                                         *)
TypeOK ==
    /\ event \in [Events -> [amount : Int, settled : BOOLEAN]]
    /\ allocated \in [Events -> Nat]
    /\ waiting \in [Profiles -> Nat]
    /\ profile \in [Profiles -> [capital : Nat, locked : BOOLEAN]]
    /\ state \in [Profiles -> StateRow]
    /\ cycles \in [Profiles -> Seq(CycleRow)]
    /\ fills \in [Profiles -> Seq(Int)]
    /\ applied \in [Profiles -> Nat]
    /\ booked \in [Profiles -> Int]
    /\ proc \in [Procs -> Locals]

NewState == [version |-> 0, cash |-> InitialCapital, open |-> FALSE,
             cycle |-> 1, flagged |-> FALSE]

Idle(f) == [pc |-> "idle", profile |-> f, amount |-> 0,
            timing |-> "current_cycle", state |-> NewState, base |-> 0,
            next |-> 1, last |-> 0, gain |-> 0]

AnyProfile == CHOOSE f \in Profiles : TRUE

(* A process of another team takes no step.                                *)
Absent == [Idle(AnyProfile) EXCEPT !.pc = "absent"]

Init ==
    /\ event = [e \in Events |-> [amount |-> 0, settled |-> FALSE]]
    /\ allocated = [e \in Events |-> 0]
    /\ waiting = [f \in Profiles |-> 0]
    /\ profile = [f \in Profiles |->
                    [capital |-> InitialCapital, locked |-> FALSE]]
    /\ state = [f \in Profiles |-> NewState]
    /\ cycles = [f \in Profiles |-> <<>>]
    /\ fills = [f \in Profiles |-> <<>>]
    /\ applied = [f \in Profiles |-> 0]
    /\ booked = [f \in Profiles |-> 0]
    /\ \E team \in Teams :
          proc = [p \in Procs |-> IF p \in team THEN Idle(AnyProfile)
                                               ELSE Absent]

At(p, label) == proc[p].pc = label
Team == {p \in Procs : ~At(p, "absent")}
End(p) == proc' = [proc EXCEPT ![p] = Idle(AnyProfile)]

(* A process is free to run a command that is a single transaction.        *)
SomeoneFree == \E p \in Procs : At(p, "idle")

(***************************************************************************)
(* Capital events.                                                         *)
(***************************************************************************)

(* StateStore.record_capital_event: a row per event key, the first one     *)
(* stays.  normalize_capital_rows gives a withdrawal a negative amount and *)
(* never marks it authorized, so it locks every profile of the account in  *)
(* the same transaction.                                                   *)
RecordRow(e, amount, settled) ==
    /\ SomeoneFree
    /\ event[e].amount = 0
    /\ event' = [event EXCEPT ![e] = [amount |-> amount, settled |-> settled]]
    /\ UNCHANGED <<allocated, waiting, books, proc>>

RecordDeposit(e, amount, settled) ==
    /\ RecordRow(e, amount, settled)
    /\ UNCHANGED <<profile, state>>

RecordWithdrawal(e, amount, settled) ==
    /\ Team \in WithdrawingTeams
    /\ RecordRow(e, -amount, settled)
    /\ profile' = [f \in Profiles |-> [profile[f] EXCEPT !.locked = TRUE]]
    /\ state' = [f \in Profiles |->
                   IF state[f].flagged THEN state[f]
                   ELSE [state[f] EXCEPT !.flagged = TRUE, !.version = @ + 1]]

(* Settled money of a positive event that is not allocated yet.            *)
Positive(e) == event[e].settled /\ event[e].amount > 0
Free(e) == event[e].amount - allocated[e]

(* available_settled_usd: the rows of the sums are read after the events;  *)
(* as sums only grow, reading both at once admits every amount the code    *)
(* admits.                                                                 *)
Available ==
    Max({0, SumFunction([e \in {g \in Events : event[g].settled} |->
                           IF Positive(e) THEN Free(e) ELSE event[e].amount])})

(* Mutant: an event gives its whole amount again.                          *)
SplitWhole(amount) ==
    {take \in [Events -> 0..amount] :
        /\ \A e \in Events : take[e] > 0 =>
                             Positive(e) /\ take[e] <= event[e].amount
        /\ SumFunction(take) = amount}

(* apply_allocation, the loop over the positive events: each event gives   *)
(* what it has left before the next one is touched.  There is no split     *)
(* when the events do not cover the amount.                                *)
Split(amount) ==
    {take \in [Events -> 0..amount] :
        /\ \A e \in Events : take[e] > 0 => Positive(e) /\ take[e] <= Free(e)
        /\ \A e, g \in Events : e < g /\ Positive(e) /\ take[g] > 0
                                  => take[e] = Free(e)
        /\ SumFunction(take) = amount}

(***************************************************************************)
(* apply_allocation.                                                       *)
(***************************************************************************)

(* The amount is compared with the settled money in transactions of their  *)
(* own; amounts above it end the command.                                  *)
AllocCheck(p, f, amount, timing) ==
    /\ At(p, "idle")
    /\ amount <= Available
    /\ proc' = [proc EXCEPT ![p] = [Idle(f) EXCEPT
                  !.pc = "commit", !.amount = amount, !.timing = timing]]
    /\ UNCHANGED <<ledger, profile, state, books>>

(* Reserved orders exceed the cash of the profile, or no split exists: the *)
(* error rolls back.                                                       *)
AllocRefuse(p) ==
    /\ At(p, "commit")
    /\ End(p)
    /\ UNCHANGED <<ledger, profile, state, books>>

(* Mutants: the capital, or the money added to the cycle, is forgotten.    *)
CreditCurrentNoCapital(f, amount) ==
    /\ state' = [state EXCEPT ![f].cash = @ + amount, ![f].version = @ + 1]
    /\ UNCHANGED <<waiting, profile, cycles>>

CreditCurrentNoCycle(f, amount) ==
    /\ state' = [state EXCEPT ![f].cash = @ + amount, ![f].version = @ + 1]
    /\ profile' = [profile EXCEPT ![f].capital = @ + amount]
    /\ UNCHANGED <<waiting, cycles>>

CreditCurrent(f, amount) ==
    /\ state' = [state EXCEPT ![f].cash = @ + amount, ![f].version = @ + 1]
    /\ profile' = [profile EXCEPT ![f].capital = @ + amount]
    /\ cycles' = [cycles EXCEPT ![f] =
                    [n \in DOMAIN cycles[f] |->
                       IF n = state[f].cycle
                       THEN [cycles[f][n] EXCEPT !.added = @ + amount]
                       ELSE cycles[f][n]]]
    /\ UNCHANGED waiting

(* Mutant: the wrong sign.                                                 *)
CreditNextTaken(f, amount) ==
    /\ waiting' = [waiting EXCEPT ![f] = @ - amount]
    /\ UNCHANGED <<profile, state, cycles>>

CreditNext(f, amount) ==
    /\ waiting' = [waiting EXCEPT ![f] = @ + amount]
    /\ UNCHANGED <<profile, state, cycles>>

AllocCommit(p) ==
    LET l == proc[p] IN
    /\ At(p, "commit")
    /\ \E take \in Split(l.amount) :
          allocated' = [e \in Events |-> allocated[e] + take[e]]
    /\ IF l.timing = "current_cycle" THEN CreditCurrent(l.profile, l.amount)
       ELSE CreditNext(l.profile, l.amount)
    /\ End(p)
    /\ UNCHANGED <<event, fills, applied, booked>>

(***************************************************************************)
(* reconcile_dbsec: the fills and the cycles they open and close.          *)
(***************************************************************************)

RecState(p, f) ==
    /\ At(p, "idle")
    /\ proc' = [proc EXCEPT ![p] = [Idle(f) EXCEPT
                  !.pc = "pending", !.state = state[f],
                  !.base = state[f].version]]
    /\ UNCHANGED <<ledger, profile, state, books>>

RecPending(p) ==
    LET f == proc[p].profile IN
    /\ At(p, "pending")
    /\ proc' = IF applied[f] < Len(fills[f])
               THEN [proc EXCEPT ![p].pc = "fold",
                                 ![p].next = applied[f] + 1,
                                 ![p].last = Len(fills[f])]
               ELSE [proc EXCEPT ![p].pc = "clear"]
    /\ UNCHANGED <<ledger, profile, state, books>>

(* Odd fills buy, even ones sell everything.                               *)
Folding(p) == At(p, "fold") /\ proc[p].next <= proc[p].last
NextBuys(p) == proc[p].next % 2 = 1

(* Mutant: the activated money is not added to the cash.                   *)
FoldActivateCapitalOnly(p) ==
    LET f == proc[p].profile IN
    /\ Folding(p) /\ NextBuys(p) /\ ~proc[p].state.open
    /\ waiting' = [waiting EXCEPT ![f] = 0]
    /\ profile' = [profile EXCEPT ![f].capital = @ + waiting[f]]
    /\ proc' = [proc EXCEPT ![p].pc = "open"]
    /\ UNCHANGED <<event, allocated, state, books>>

(* activate_next_cycle_capital: the first buy of a cycle takes what waits. *)
FoldActivate(p) ==
    LET f == proc[p].profile IN
    /\ Folding(p) /\ NextBuys(p) /\ ~proc[p].state.open
    /\ waiting' = [waiting EXCEPT ![f] = 0]
    /\ profile' = [profile EXCEPT ![f].capital = @ + waiting[f]]
    /\ proc' = [proc EXCEPT ![p].pc = "open",
                            ![p].state.cash = @ + waiting[f]]
    /\ UNCHANGED <<event, allocated, state, books>>

(* open_position_cycle (INSERT OR IGNORE), then apply_fill.                *)
FoldOpen(p) ==
    LET l == proc[p]
        f == l.profile
        new == [starting |-> l.state.cash, added |-> 0, closed |-> FALSE,
                realized |-> 0] IN
    /\ At(p, "open")
    /\ cycles' = IF l.state.cycle \in DOMAIN cycles[f] THEN cycles
                 ELSE [cycles EXCEPT ![f] = Append(@, new)]
    /\ proc' = [proc EXCEPT ![p].pc = "fold", ![p].next = @ + 1,
                            ![p].state.open = TRUE]
    /\ UNCHANGED <<ledger, profile, state, fills, applied, booked>>

(* A state read before another process booked the sell-out: the buy looks  *)
(* like one more buy of the old cycle.                                     *)
FoldBuy(p) ==
    /\ Folding(p) /\ NextBuys(p) /\ proc[p].state.open
    /\ proc' = [proc EXCEPT ![p].next = @ + 1]
    /\ UNCHANGED <<ledger, profile, state, books>>

(* The last share is sold: close_position_cycle and the next cycle id.     *)
FoldClose(p) ==
    LET l == proc[p]
        f == l.profile
        gain == fills[f][l.next]
        cash == l.state.cash + gain
        flat == [l.state EXCEPT !.cash = cash, !.open = FALSE,
                                !.cycle = @ + 1] IN
    /\ Folding(p) /\ ~NextBuys(p) /\ l.state.open
    /\ cycles' = [cycles EXCEPT ![f] =
                    [n \in DOMAIN cycles[f] |->
                       IF n = l.state.cycle
                       THEN [cycles[f][n] EXCEPT
                               !.closed = TRUE,
                               !.realized = cash - cycles[f][n].starting]
                       ELSE cycles[f][n]]]
    /\ proc' = [proc EXCEPT ![p].next = @ + 1, ![p].gain = @ + gain,
                            ![p].state = flat]
    /\ UNCHANGED <<ledger, profile, state, fills, applied, booked>>

(* Every fill is folded; or a sell meets a state that is flat ("sell fill  *)
(* exceeds holdings"), which raises.                                       *)
FoldDone(p) ==
    /\ At(p, "fold") /\ proc[p].next > proc[p].last
    /\ proc' = [proc EXCEPT ![p].pc = "save"]
    /\ UNCHANGED <<ledger, profile, state, books>>

FoldRaises(p) ==
    /\ Folding(p) /\ ~NextBuys(p) /\ ~proc[p].state.open
    /\ End(p)
    /\ UNCHANGED <<ledger, profile, state, books>>

(* Mutant: no optimistic lock.                                             *)
CanSaveAlways(p) == TRUE

CanSave(p) == state[proc[p].profile].version = proc[p].base

(* save_reconciled_state: the state and the applied fills in one           *)
(* transaction, or nothing when the optimistic lock is lost.               *)
RecSave(p) ==
    LET l == proc[p]
        f == l.profile
        saved == [l.state EXCEPT !.version = l.base + 1] IN
    /\ At(p, "save")
    /\ IF CanSave(p)
       THEN /\ state' = [state EXCEPT ![f] = saved]
            /\ applied' = [applied EXCEPT ![f] = l.last]
            /\ booked' = [booked EXCEPT ![f] = @ + l.gain]
            /\ proc' = [proc EXCEPT ![p] = [Idle(f) EXCEPT
                  !.pc = "clear", !.state = saved, !.base = saved.version]]
       ELSE End(p) /\ UNCHANGED <<state, applied, booked>>
    /\ UNCHANGED <<ledger, profile, cycles, fills>>

(* The position agrees with the broker's: the flag is cleared.             *)
RecClear(p) ==
    LET l == proc[p]
        f == l.profile IN
    /\ At(p, "clear")
    /\ IF l.state.flagged /\ CanSave(p)
       THEN state' = [state EXCEPT ![f] = [l.state EXCEPT
                        !.flagged = FALSE, !.version = l.base + 1]]
       ELSE UNCHANGED state
    /\ End(p)
    /\ UNCHANGED <<ledger, profile, books>>

(***************************************************************************)
(* The world around.                                                       *)
(***************************************************************************)

Execute(f, gain) ==
    /\ Len(fills[f]) < MaxFills[Cardinality(Team)]
    /\ fills' = [fills EXCEPT ![f] =
                   Append(@, IF Len(@) % 2 = 0 THEN 0 ELSE gain)]
    /\ UNCHANGED <<ledger, profile, state, cycles, applied, booked, proc>>

(* Another command writes the state row and leaves the cash alone.         *)
OtherWrite(f) ==
    /\ SomeoneFree
    /\ state[f].version < MaxVersion[Cardinality(Team)]
    /\ \E flag \in BOOLEAN :
          state' = [state EXCEPT ![f].version = @ + 1, ![f].flagged = flag]
    /\ UNCHANGED <<ledger, profile, books, proc>>

Crash(p) ==
    /\ ~At(p, "idle") /\ ~At(p, "absent") /\ Team \in CrashingTeams
    /\ End(p)
    /\ UNCHANGED <<ledger, profile, state, books>>

ProcStep(p) ==
    \/ \E f \in Profiles, amount \in Requests, timing \in Timings :
          AllocCheck(p, f, amount, timing)
    \/ AllocRefuse(p) \/ AllocCommit(p)
    \/ \E f \in Profiles : RecState(p, f)
    \/ RecPending(p) \/ FoldActivate(p) \/ FoldOpen(p) \/ FoldBuy(p)
    \/ FoldClose(p) \/ FoldDone(p) \/ FoldRaises(p)
    \/ RecSave(p) \/ RecClear(p) \/ Crash(p)

Next ==
    \/ \E p \in Procs : ProcStep(p)
    \/ \E e \in Events, settled \in BOOLEAN :
          \/ \E amount \in Deposits : RecordDeposit(e, amount, settled)
          \/ \E amount \in Withdrawals : RecordWithdrawal(e, amount, settled)
    \/ \E f \in Profiles :
          \/ \E gain \in Gains : Execute(f, gain)
          \/ OtherWrite(f)

Spec == Init /\ [][Next]_vars

(***************************************************************************)
(* Properties.                                                             *)
(***************************************************************************)

(* The events never give more than they brought: whatever processes        *)
(* allocate at the same time, the sum taken from an event stays within its *)
(* amount (the sums are read again inside the transaction).                *)
NeverOverspent == \A e \in Events : allocated[e] > 0 =>
                                      Positive(e) /\ Free(e) >= 0

(* Money reaches the cash of a profile at most once: cash never exceeds    *)
(* the capital of the profile and the profit it booked, although           *)
(* allocations, the activation of waiting capital and the saved state are  *)
(* three transactions that other processes and crashes come between.       *)
CreditedAtMostOnce ==
    \A f \in Profiles : state[f].cash <= profile[f].capital + booked[f]

(* No allocated dollar is lost or doubled on its way into profiles.capital: *)
(* what the events gave is what the profiles got or still wait for.        *)
AllocationsAccounted ==
    SumFunction(allocated) =
      SumFunction([f \in Profiles |->
                     profile[f].capital - InitialCapital + waiting[f]])

AtRest == \A p \in Procs : At(p, "idle") \/ At(p, "absent")
Alone == Team \notin CrashingTeams /\ Cardinality(Team) = 1

(* One command at a time and no crash: every dollar of capital and every   *)
(* booked profit is in the cash the strategy plans with.                   *)
CashIsCapital ==
    AtRest /\ Alone =>
      \A f \in Profiles : state[f].cash = profile[f].capital + booked[f]

(* One command at a time and no crash: the realized_pnl of a closed cycle  *)
(* is the profit of its fills and the capital added while it was open,     *)
(* which capital_added tells apart.                                        *)
RealizedExplained ==
    AtRest /\ Alone =>
      \A f \in Profiles : \A n \in DOMAIN cycles[f] :
        cycles[f][n].closed =>
          cycles[f][n].realized = fills[f][2 * n] + cycles[f][n].added
=============================================================================

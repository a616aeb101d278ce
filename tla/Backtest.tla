------------------------------ MODULE Backtest ------------------------------
(***************************************************************************)
(* The two loops that drive the strategy over sessions and keep nothing    *)
(* but the strategy state: run_backtest, which decides from a daily candle *)
(* what fills, and replay_file, which reads the fills from a file and may  *)
(* see an order filled in part or not at all.  Each session plans the      *)
(* sells, applies their fills, then plans the buys from the state so far   *)
(* and applies theirs.                                                     *)
(***************************************************************************)
EXTENDS Strategy, Functions

CONSTANTS
    Setups,  \* what may run, on which prices, for how long
    FeeDen   \* FEE_RATE is 1/FeeDen, 1/2500 in the code

(* A setup: the loop, the capital of the request, the five closes before   *)
(* the first session, the number of sessions, the closes they may have and *)
(* how far the high of a session may be above its close, in ticks.         *)
Setup == [engine : {"backtest", "replay"}, capital : Nat \ {0},
          warmup : [1..5 -> Nat \ {0}], sessions : Nat,
          closes : SUBSET (Nat \ {0}), spikes : SUBSET Nat]

ASSUME BacktestAssumption ==
    /\ Setups \subseteq Setup
    /\ FeeDen \in Nat /\ FeeDen >= 3

VARIABLES
    setup,   \* what runs
    phase,   \* "SELL" and "BUY" while their orders are worked off, or "RAISED"
    row,     \* the session's candle: its number, high and close
    closes,  \* completed_closes: the five closes before the session
    todo,    \* orders of the phase still to be looked at
    state,   \* the strategy state
    paid     \* history: lowest and highest price paid in this cycle

vars == <<setup, phase, row, closes, todo, state, paid>>

Phase == {"SELL", "BUY", "RAISED"}
Price == Nat
PriceRow == [day : Nat, high : Price, close : Price]
Paid == [lo : Price, hi : Price]
NothingPaid == [lo |-> 0, hi |-> 0]

Money(ticks) == ticks * Tick

(* The backtest's test of the first order: its price is 120% of the close  *)
(* before, and the capital must buy one share with each division.          *)
AcceptedRequest(s) ==
    s.engine = "backtest" =>
        Money(s.capital) >= Quantize(Money(s.warmup[5]) * 12, 10) * N

InitialState(capital) ==
    [day |-> 1, cash |-> Money(capital), quantity |-> 0, cost |-> 0, t |-> 0,
     mode |-> "NORMAL", pool |-> 0, used |-> 0, days |-> 0]

(* Before the first session: "BUY" with nothing left to do, as after any   *)
(* session.  The last close of the warm-up stands in for the candle.       *)
Init ==
    /\ setup \in {s \in Setups : AcceptedRequest(s)}
    /\ LET w == setup.warmup
       IN  /\ closes = [k \in 1..5 |-> Money(IF k = 1 THEN w[1] ELSE w[k - 1])]
           /\ row = [day |-> 0, high |-> Money(w[5]), close |-> Money(w[5])]
    /\ state = InitialState(setup.capital)
    /\ phase = "BUY"
    /\ todo = {}
    /\ paid = NothingPaid

-----------------------------------------------------------------------------
(* The next session: its candle, the closes before it, the sell plan.      *)
StartSession ==
    /\ phase = "BUY" /\ todo = {}
    /\ row.day < setup.sessions
    /\ \E c \in setup.closes, up \in setup.spikes :
          row' = [day |-> row.day + 1, high |-> Money(c + up), close |-> Money(c)]
    /\ closes' = [k \in 1..5 |-> IF k = 5 THEN row.close ELSE closes[k + 1]]
    /\ state' = PrepareState(state, row'.day, closes')
    /\ todo' = SellPlan(state', closes')
    /\ phase' = "SELL"
    /\ UNCHANGED <<setup, paid>>

(* _fill_price: whether the candle fills the order, and at what price.     *)
Fills(i) ==
    CASE OrderType(i.role) = "MOC"   -> TRUE
      [] OrderType(i.role) = "LIMIT" -> row.high >= i.limit
      [] OTHER -> IF i.role \in BuyRole THEN row.close <= i.limit
                                        ELSE row.close >= i.limit
FillPrice(i) == IF OrderType(i.role) = "LIMIT" THEN i.limit ELSE row.close

(* The backtest works off LIMIT sells before the others, a replay in the   *)
(* order of the plan.                                                      *)
Rank(i) == CASE i.role = "TARGET_SELL" ->
                  IF setup.engine = "backtest" THEN 0 ELSE 2
             [] i.role = "STAR_HALF_BUY" -> 2
             [] OTHER -> 1
IsNext(i) == i \in todo /\ \A j \in todo : Rank(i) <= Rank(j)

(* The lowest and highest price paid, as long as shares are held.          *)
PaidAfter(i, price) ==
    IF state'.quantity = 0 THEN NothingPaid
    ELSE IF i.role \notin BuyRole THEN paid
    ELSE IF state.quantity = 0 THEN [lo |-> price, hi |-> price]
    ELSE [lo |-> Smaller(paid.lo, price), hi |-> Larger(paid.hi, price)]

(* A fill enters the state, or apply_fill and StrategyState refuse it.     *)
Apply(i, filled, fee) ==
    IF FillRaises(state, i, filled, FillPrice(i), fee)
      THEN /\ phase' = "RAISED"
           /\ UNCHANGED <<state, paid>>
      ELSE /\ state' = ApplyFill(state, i, filled, FillPrice(i), fee)
           /\ paid' = PaidAfter(i, FillPrice(i))
           /\ UNCHANGED phase

NotFilled == UNCHANGED <<state, phase, paid>>

(* The cash buys this many shares at a price with the fee on top.          *)
Affordable(price) == (state.cash * FeeDen) \div (price * (FeeDen + 1))

(* _apply_filled_intent                                                    *)
FilledQty(i) ==
    IF i.role \in BuyRole THEN Smaller(i.qty, Affordable(FillPrice(i)))
                          ELSE Smaller(i.qty, state.quantity)

BacktestOrder ==
    /\ setup.engine = "backtest"
    /\ \E i \in todo :
          /\ IsNext(i)
          /\ IF Fills(i) /\ FilledQty(i) > 0
               THEN Apply(i, FilledQty(i), (FillPrice(i) * FilledQty(i)) \div FeeDen)
               ELSE NotFilled
          /\ todo' = todo \ {i}
    /\ UNCHANGED <<setup, row, closes>>

(* replay_file: the file names for each role a quantity up to the planned  *)
(* one, or nothing; it knows no fees.  The files replayed record what the  *)
(* market of the session allowed.                                          *)
ReplayOrder ==
    /\ setup.engine = "replay"
    /\ \E i \in todo :
          /\ IsNext(i)
          /\ \/ NotFilled
             \/ /\ Fills(i)
                /\ \E filled \in 1..i.qty : Apply(i, filled, 0)
          /\ todo' = todo \ {i}
    /\ UNCHANGED <<setup, row, closes>>

(* The sells are done, and the buys are planned from the state they left.  *)
PlanBuys ==
    /\ phase = "SELL" /\ todo = {}
    /\ state' = PrepareState(state, row.day, closes)
    /\ todo' = BuyPlan(state', closes)
    /\ phase' = "BUY"
    /\ UNCHANGED <<setup, row, closes, paid>>

Next == StartSession \/ BacktestOrder \/ ReplayOrder \/ PlanBuys

Spec == Init /\ [][Next]_vars

-----------------------------------------------------------------------------
(* Every state passes the checks of StrategyState and every order those of *)
(* OrderIntent (__post_init__): no negative amount, no cost without shares.*)
TypeOK ==
    /\ setup \in Setups
    /\ phase \in Phase
    /\ row \in PriceRow
    /\ closes \in [1..5 -> Price]
    /\ todo \subseteq OrderIntent
    /\ state \in StrategyState
    /\ paid \in Paid
    /\ state.quantity = 0 => state.cost = 0

(* apply_fill and StrategyState refuse no fill of an order the strategy    *)
(* planned: the backtest always gets to its end with the fees it charges,  *)
(* and a replay with whatever part of the orders was filled.               *)
NeverRaises == phase # "RAISED"

(* T counts used divisions: it is zero exactly when nothing is held, and   *)
(* no sequence of whole or partial fills takes it to division_count, where *)
(* one_buy_amount would divide by zero.                                    *)
TWithinDivisions ==
    /\ 0 <= state.t /\ state.t < FullT
    /\ state.t = 0 <=> state.quantity = 0

(* _sell_specs and _buy_specs: whatever has been filled so far, the orders *)
(* still to come sell no more shares than are held and spend no more money *)
(* than there is.                                                          *)
PlanCovered ==
    /\ phase = "SELL" =>
          SumFunctionOnSet([i \in todo |-> i.qty], todo) <= state.quantity
    /\ phase = "BUY" =>
          SumFunctionOnSet([i \in todo |-> i.qty * i.limit], todo) <= state.cash

(* prepare_state and _buy_specs: the buys of a REVERSE mode stay within    *)
(* the cash there was when it began, and use up to a quarter of it in each *)
(* session after the first.                                                *)
PoolLasts ==
    state.mode = "REVERSE" =>
        /\ state.used <= state.pool
        /\ 4 * state.used <= state.days * state.pool

(* apply_fill: selling part of a position leaves its average cost alone    *)
(* and buying averages, so the average cost of a position lies between the *)
(* lowest and the highest price paid in its cycle, fees on top.  Every     *)
(* sell may round the cost up by one unit.                                 *)
AverageWithinPaid ==
    state.quantity > 0 =>
        /\ paid.lo * state.quantity <= state.cost
        /\ FeeDen * (state.cost - 2 * setup.sessions)
              <= (FeeDen + 1) * paid.hi * state.quantity

(* docs/ruleset-1.md, Reverse mode, "First session: sell by MOC; no buy":  *)
(* entering REVERSE plans the MOC sell.                                    *)
ReverseStartsWithMoc ==
    [][state.mode = "NORMAL" /\ state'.mode = "REVERSE"
          => \E i \in todo' : i.role = "REVERSE_FIRST_SELL"]_vars
=============================================================================

------------------------------ MODULE Strategy ------------------------------
(***************************************************************************)
(* The pure strategy of strategy.py: prepare_state, the sell and buy plans *)
(* of generate_intents, and apply_fill, as operators from states to        *)
(* states.                                                                 *)
(*                                                                         *)
(* Money and prices are integers, Tick of them to the tick_size of one     *)
(* cent; T is an integer, Unit of them to one division.  What the code     *)
(* divides with 28 digits is rounded down to these units, and what it      *)
(* quantizes is rounded half-even to ticks, as Decimal.quantize does.      *)
(***************************************************************************)
EXTENDS Integers

CONSTANTS
    Symbol,         \* profile.symbol
    DivisionCount,  \* profile.division_count
    Tick,           \* units of money in one tick
    Unit            \* units of T in one division

ASSUME StrategyAssumption ==
    /\ Symbol \in {"TQQQ", "SOXL"}
    /\ DivisionCount \in Nat /\ DivisionCount >= 3
    /\ Tick \in Nat \ {0} /\ Tick % 5 = 0
    /\ Unit \in Nat \ {0} /\ Unit % 4 = 0

N == DivisionCount
FullT == N * Unit

Mode == {"NORMAL", "REVERSE"}
SellRole == {"STAR_QUARTER_SELL", "TARGET_SELL", "REVERSE_FIRST_SELL",
             "REVERSE_SELL"}
BuyRole == {"INITIAL_BUY", "AVG_HALF_BUY", "STAR_HALF_BUY", "STAR_FULL_BUY",
            "REVERSE_BUY"}
IntentRole == SellRole \cup BuyRole

(* The columns of StrategyState that the strategy reads.  last_5_closes is *)
(* the window of completed closes of the snapshot and kept beside it.      *)
StrategyState == [day : Nat, cash : Nat, quantity : Nat, cost : Nat, t : Nat,
                  mode : Mode, pool : Nat, used : Nat, days : Nat]

(* An order of a plan; a MOC order has no limit, which is written 0.       *)
OrderIntent == [role : IntentRole, qty : Nat \ {0}, limit : Nat]
Order(role, qty, limit) == [role |-> role, qty |-> qty, limit |-> limit]

OrderType(role) == CASE role = "TARGET_SELL"        -> "LIMIT"
                     [] role = "REVERSE_FIRST_SELL" -> "MOC"
                     [] OTHER                       -> "LOC"

Smaller(a, b) == IF a <= b THEN a ELSE b
Larger(a, b) == IF a >= b THEN a ELSE b

(* n/d rounded half-even to a whole number of ticks.                       *)
Quantize(n, d) ==
    LET q == n \div (d * Tick)
        r == n % (d * Tick)
        up == 2 * r > d * Tick \/ (2 * r = d * Tick /\ q % 2 = 1)
    IN  Tick * (IF up THEN q + 1 ELSE q)

-----------------------------------------------------------------------------
(* target_pct, and the recovery ratio of prepare_state, in percent.        *)
TargetPct == IF Symbol = "SOXL" THEN 20 ELSE 15
RecoveryPct == IF Symbol = "SOXL" THEN 80 ELSE 85

(* star_price: the average cost times 1 + star_pct, where star_pct falls   *)
(* from the target at T = 0 to minus the target at T = division_count.     *)
StarPrice(s) ==
    Larger(Tick, Quantize(s.cost * (100 * FullT + TargetPct * (FullT - 2 * s.t)),
                          s.quantity * 100 * FullT))

TargetPrice(s) == Quantize(s.cost * (100 + TargetPct), s.quantity * 100)

(* _reverse_star: the mean of the last five completed closes.              *)
ReverseStar(closes) ==
    (closes[1] + closes[2] + closes[3] + closes[4] + closes[5]) \div 5

-----------------------------------------------------------------------------
(* prepare_state: the session moves on, REVERSE is entered when T has used *)
(* up the divisions, and left at the start of a session after a recovery.  *)
NextSessionState(s, day) ==
    IF day <= s.day THEN s
    ELSE [s EXCEPT !.day = day,
                   !.days = IF s.mode = "REVERSE" THEN @ + 1 ELSE @]

(* A bug that leaves what an earlier REVERSE spent counted against the     *)
(* new pool.                                                               *)
EnterReverseSpent(s) ==
    IF s.quantity > 0 /\ s.mode = "NORMAL" /\ s.t > FullT - Unit
      THEN [s EXCEPT !.mode = "REVERSE", !.pool = s.cash, !.days = 0]
      ELSE s

EnterReverse(s) ==
    IF s.quantity > 0 /\ s.mode = "NORMAL" /\ s.t > FullT - Unit
      THEN [s EXCEPT !.mode = "REVERSE", !.pool = s.cash, !.used = 0, !.days = 0]
      ELSE s

Recovered(s, closes) == closes[5] * s.quantity * 100 > s.cost * RecoveryPct

PrepareState(s, day, closes) ==
    LET prepared == EnterReverse(NextSessionState(s, day))
        leaves == /\ s.mode = "REVERSE" /\ day > s.day
                  /\ prepared.quantity > 0
                  /\ Recovered(prepared, closes)
    IN  IF leaves THEN [prepared EXCEPT !.mode = "NORMAL", !.days = 0]
                  ELSE prepared

-----------------------------------------------------------------------------
(* A bug that keeps orders for no share.                                   *)
PlannedWithEmpty(orders) == orders

(* generate_intents drops the orders of a plan that round to no share.     *)
Planned(orders) == {i \in orders : i.qty > 0}

(* A bug that sells the whole holding at the target beside the quarter.    *)
SellPlanOversold(s, closes) ==
    IF s.quantity <= 0 \/ s.mode = "REVERSE" THEN {}
    ELSE {Order("STAR_QUARTER_SELL", Larger(1, s.quantity \div 4), StarPrice(s)),
          Order("TARGET_SELL", s.quantity, TargetPrice(s))}

(* _sell_specs                                                             *)
SellPlan(s, closes) ==
    LET part == Larger(1, (2 * s.quantity) \div N)
        quarter == Larger(1, s.quantity \div 4)
    IN  Planned(
          IF s.quantity <= 0 THEN {}
          ELSE IF s.mode = "REVERSE"
            THEN IF s.days = 0
                   THEN {Order("REVERSE_FIRST_SELL", part, 0)}
                   ELSE {Order("REVERSE_SELL", part, ReverseStar(closes))}
            ELSE {Order("STAR_QUARTER_SELL", quarter, StarPrice(s)),
                  Order("TARGET_SELL", s.quantity - quarter, TargetPrice(s))})

(* A quarter of the pool, at most what is left of it, at most the cash.    *)
ReverseBudget(s) ==
    Smaller(s.cash, Smaller(Larger(0, s.pool - s.used), s.pool \div 4))

(* one_buy_amount is zero from one division before the end, and otherwise  *)
(* cash / (division_count - T).                                            *)
HasBuyAmount(s) == FullT - s.t > Unit

(* floor_quantity of 1/k of one_buy_amount at a price n/d.                 *)
BuyQty(s, k, n, d) == (s.cash * Unit * d) \div (k * (FullT - s.t) * n)

(* _buy_specs, in NORMAL mode with a position: halves at the average and   *)
(* below the star in the front half, one whole tranche in the back half.   *)
NormalBuys(s) ==
    LET below == Larger(Tick, StarPrice(s) - Tick)
    IN  IF ~HasBuyAmount(s) THEN {}
        ELSE IF 2 * s.t < FullT
          THEN {Order("AVG_HALF_BUY", BuyQty(s, 2, s.cost, s.quantity),
                      Quantize(s.cost, s.quantity)),
                Order("STAR_HALF_BUY", BuyQty(s, 2, below, 1), below)}
          ELSE {Order("STAR_FULL_BUY", BuyQty(s, 1, below, 1), below)}

(* _buy_specs                                                              *)
BuyPlan(s, closes) ==
    LET reverse == Larger(Tick, ReverseStar(closes) - Tick)
        first == Quantize(closes[5] * 12, 10)
    IN  Planned(
          IF s.mode = "REVERSE"
            THEN IF s.days = 0 \/ s.quantity <= 0 THEN {}
                 ELSE {Order("REVERSE_BUY", ReverseBudget(s) \div reverse, reverse)}
          ELSE IF s.quantity = 0
            THEN {Order("INITIAL_BUY", s.cash \div (N * first), first)}
          ELSE NormalBuys(s))

-----------------------------------------------------------------------------
(* planned_t_effect as a pair: numerator and denominator.                  *)
TEffect(role) ==
    CASE role \in {"INITIAL_BUY", "STAR_FULL_BUY"}        -> <<1, 1>>
      [] role \in {"AVG_HALF_BUY", "STAR_HALF_BUY"}       -> <<1, 2>>
      [] role \in {"REVERSE_BUY", "STAR_QUARTER_SELL"}    -> <<1, 4>>
      [] role = "TARGET_SELL"                             -> <<3, 4>>
      [] role \in {"REVERSE_FIRST_SELL", "REVERSE_SELL"}  -> <<2, N>>

(* A bug that adds a quarter of the divisions and not of what is left.     *)
TAfterBuyOfAll(s, i, filled) ==
    LET e == TEffect(i.role)
        whole == IF i.role = "REVERSE_BUY" THEN FullT ELSE Unit
    IN  s.t + (whole * e[1] * filled) \div (e[2] * i.qty)

(* T after a buy: the planned effect times the fill ratio is added, in     *)
(* REVERSE mode a quarter of the divisions that are left.                  *)
TAfterBuy(s, i, filled) ==
    LET e == TEffect(i.role)
        whole == IF i.role = "REVERSE_BUY" THEN FullT - s.t ELSE Unit
    IN  s.t + (whole * e[1] * filled) \div (e[2] * i.qty)

(* T after a sell: it shrinks by the planned effect times the fill ratio.  *)
TAfterSell(s, i, filled) ==
    LET e == TEffect(i.role)
    IN  (s.t * (e[2] * i.qty - e[1] * filled)) \div (e[2] * i.qty)

BoughtState(s, i, filled, price, fee) ==
    LET value == price * filled
    IN  [s EXCEPT !.cash = @ - value - fee,
                  !.quantity = @ + filled,
                  !.cost = @ + value + fee,
                  !.t = TAfterBuy(s, i, filled),
                  !.used = IF i.role = "REVERSE_BUY" THEN @ + value ELSE @]

(* A bug that takes the proceeds and not the cost of the shares sold out   *)
(* of the cost basis.                                                      *)
SoldStateAtProceeds(s, i, filled, price, fee) ==
    LET rest == s.quantity - filled
        sold == [s EXCEPT !.cash = @ + price * filled - fee, !.quantity = rest,
                          !.cost = IF rest = 0 THEN 0
                                   ELSE Larger(0, @ - price * filled),
                          !.t = TAfterSell(s, i, filled)]
    IN  IF rest > 0 THEN sold
        ELSE [sold EXCEPT !.mode = "NORMAL", !.t = 0, !.pool = 0, !.used = 0,
                          !.days = 0]

(* The cost falls in proportion to the shares; a sold-out position ends    *)
(* REVERSE and starts T again.                                             *)
SoldState(s, i, filled, price, fee) ==
    LET rest == s.quantity - filled
        sold == [s EXCEPT !.cash = @ + price * filled - fee,
                          !.quantity = rest,
                          !.cost = IF rest = 0 THEN 0
                                   ELSE @ - (s.cost * filled) \div s.quantity,
                          !.t = TAfterSell(s, i, filled)]
    IN  IF rest > 0 THEN sold
        ELSE [sold EXCEPT !.mode = "NORMAL", !.t = 0, !.pool = 0, !.used = 0,
                          !.days = 0]

ApplyFill(s, i, filled, price, fee) ==
    IF i.role \in BuyRole THEN BoughtState(s, i, filled, price, fee)
                          ELSE SoldState(s, i, filled, price, fee)

(* The errors of apply_fill: the fill costs more than there is cash, or    *)
(* sells more than is held.                                                *)
FillRaises(s, i, filled, price, fee) ==
    IF i.role \in BuyRole THEN price * filled + fee > s.cash
                          ELSE filled > s.quantity
=============================================================================

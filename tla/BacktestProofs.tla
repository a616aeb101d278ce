--------------------------- MODULE BacktestProofs ---------------------------
(***************************************************************************)
(* Theorems about Backtest, for every symbol, number of divisions, capital *)
(* and price history: no planned fill is refused, plans stay within shares *)
(* and cash, the buys of REVERSE mode within its pool, T below the number  *)
(* of divisions, and the average cost within the prices paid.              *)
(*                                                                         *)
(* None of them is inductive by itself.  A plan stays covered while its    *)
(* orders fill because of what was true of the whole plan when it was made *)
(* (SellOrdersOK, BuyOrdersOK), and the plan was covered because of T: the *)
(* amount of a buy is cash over the divisions that are left.               *)
(***************************************************************************)
EXTENDS Backtest, SumProofs

(* What an order costs at its limit.                                       *)
Value(i) == i.qty * i.limit

(* Buys that use half a division, and those that use a whole one.          *)
HalfRole == {"AVG_HALF_BUY", "STAR_HALF_BUY"}
WholeRole == {"INITIAL_BUY", "STAR_FULL_BUY"}

(* Of the two half buys the one at the average cost is worked off first.   *)
AvgThenStar(i, j) == i.role = "AVG_HALF_BUY" /\ j.role = "STAR_HALF_BUY"

(* The strategy state: T leaves something of the divisions, and no share   *)
(* was bought below one tick.                                              *)
StateOK(s) ==
    /\ s \in StrategyState
    /\ s.t < FullT
    /\ s.quantity = 0 => s.cost = 0 /\ s.t = 0
    /\ s.cost >= Tick * s.quantity

(* The pool of REVERSE mode, at any time and before the buys of a session. *)
PoolOK(s) ==
    s.mode = "REVERSE" =>
        s.used <= s.pool /\ 4 * s.used <= s.days * s.pool
PoolBeforeBuys(s) ==
    s.mode = "REVERSE" =>
        /\ s.used <= s.pool
        /\ s.days = 0 => s.used = 0
        /\ s.days > 0 => 4 * s.used <= (s.days - 1) * s.pool

(* A plan has at most two orders.                                          *)
AtMostTwo(orders) == \E a, b : orders \subseteq {a, b}

(* What is known of sells that may still fill.                             *)
SellOrdersOK(s, orders) ==
    /\ orders \subseteq OrderIntent /\ AtMostTwo(orders)
    /\ \A i \in orders : i.role \in SellRole /\ i.qty <= s.quantity
    /\ \A i, j \in orders : i # j => i.qty + j.qty <= s.quantity

(* What is known of buys that may still fill: the cash is there, with the  *)
(* fee of the first when a second one follows, and T has room for them.    *)
BuyOrdersOK(s, orders) ==
    /\ orders \subseteq OrderIntent /\ AtMostTwo(orders)
    /\ \A i \in orders :
          /\ i.role \in BuyRole /\ Value(i) <= s.cash
          /\ i.role \in WholeRole => orders = {i} /\ s.t + Unit < FullT
          /\ i.role \in HalfRole => 2 * s.t + Unit < 2 * FullT
          /\ i.role = "REVERSE_BUY" =>
                /\ orders = {i} /\ s.mode = "REVERSE"
                /\ s.used + Value(i) <= s.pool
                /\ 4 * (s.used + Value(i)) <= s.days * s.pool
    /\ \A i, j \in orders :
          /\ i # j => AvgThenStar(i, j) \/ AvgThenStar(j, i)
          /\ AvgThenStar(i, j) =>
                /\ s.t + Unit < FullT
                /\ (FeeDen + 1) * Value(i) + FeeDen * Value(j) <= FeeDen * s.cash

(* How many of at most two orders are left.                                *)
Left(orders) ==
    IF orders = {} THEN 0 ELSE IF \E i \in orders : orders = {i} THEN 1 ELSE 2

(* Sells that may have rounded the cost up so far.                         *)
Sells == IF phase = "SELL" THEN 2 * row.day - Left(todo) ELSE 2 * row.day

(* The cost lies between the prices paid, k units and the fees aside.      *)
AverageOK(s, p, k) ==
    s.quantity > 0 =>
        /\ p.lo >= Tick
        /\ p.lo * s.quantity <= s.cost
        /\ FeeDen * (s.cost - k) <= (FeeDen + 1) * p.hi * s.quantity

(* The day of the state is the session, or the first before it begins.     *)
DayOK ==
    /\ row.day <= setup.sessions
    /\ row.day > 0 => state.day = row.day
    /\ row.day = 0 => /\ state.day = 1 /\ state.mode = "NORMAL"
                      /\ phase = "BUY" /\ todo = {}

(* The inductive invariant.                                                *)
IInv ==
    /\ setup \in Setups /\ phase \in {"SELL", "BUY"}
    /\ row \in PriceRow /\ row.close >= Tick
    /\ closes \in [1..5 -> Price] /\ \A k \in 1..5 : closes[k] >= Tick
    /\ paid \in Paid
    /\ StateOK(state) /\ PoolOK(state) /\ AverageOK(state, paid, Sells) /\ DayOK
    /\ phase = "SELL" => SellOrdersOK(state, todo) /\ PoolBeforeBuys(state)
    /\ phase = "BUY" => BuyOrdersOK(state, todo)

-----------------------------------------------------------------------------
(* Facts about products and quotients.                                     *)

(* The quotient, and what is left of it.                                   *)
LEMMA DivBounds ==
    ASSUME NEW a \in Nat, NEW b \in Nat \ {0}
    PROVE  /\ a \div b \in Nat
           /\ b * (a \div b) <= a
           /\ a < b * (a \div b) + b
OBVIOUS

(* The remainder.                                                          *)
LEMMA ModBounds ==
    ASSUME NEW a \in Nat, NEW b \in Nat \ {0}
    PROVE  a % b \in Nat /\ a % b < b /\ a = b * (a \div b) + (a % b)
OBVIOUS

(* A quotient is at most what its divisor takes that far.                  *)
LEMMA DivAtMost ==
    ASSUME NEW a \in Nat, NEW b \in Nat \ {0}, NEW c \in Nat, a <= c * b
    PROVE  a \div b <= c
OBVIOUS

(* A factor on both sides.                                                 *)
LEMMA Times ==
    ASSUME NEW a \in Int, NEW b \in Int, NEW c \in Nat, a <= b
    PROVE  a * c <= b * c
OBVIOUS

(* A positive factor taken off both sides.                                 *)
LEMMA TimesCancel ==
    ASSUME NEW a \in Int, NEW b \in Int, NEW c \in Nat \ {0}, a * c <= b * c
    PROVE  a <= b
OBVIOUS

(* The units of the model.                                                 *)
LEMMA Units ==
    /\ N \in Nat /\ N >= 3 /\ Tick \in Nat /\ Tick >= 1
    /\ Unit \in Nat /\ Unit >= 1 /\ FullT \in Nat /\ FullT >= 3 * Unit
    /\ FeeDen \in Nat /\ FeeDen >= 3
<1>1. N \in Nat /\ N >= 3 /\ Tick \in Nat /\ Tick >= 1 /\ Unit \in Nat /\ Unit >= 1
  BY StrategyAssumption DEF N
<1>2. FullT \in Nat /\ FullT >= 3 * Unit
  <2>1. N * Unit \in Nat /\ 3 * Unit <= N * Unit
    BY <1>1, Times
  <2> QED BY <2>1 DEF FullT
<1> QED BY <1>1, <1>2, BacktestAssumption

(* Quantize rounds to whole ticks, up by at most half a tick.              *)
LEMMA QuantizeBounds ==
    ASSUME NEW n \in Nat, NEW d \in Nat \ {0}
    PROVE  /\ Quantize(n, d) \in Nat
           /\ 2 * (d * Quantize(n, d)) <= 2 * n + d * Tick
           /\ n >= d * Tick => Quantize(n, d) >= Tick
<1> DEFINE m == d * Tick
           q == n \div m
           r == n % m
           up == 2 * r > m \/ (2 * r = m /\ q % 2 = 1)
<1>1. m \in Nat \ {0} /\ Tick \in Nat
  BY Units
<1>2. q \in Nat /\ r \in Nat /\ n = m * q + r
  BY <1>1, DivBounds, ModBounds
<1>3. Quantize(n, d) = Tick * (IF up THEN q + 1 ELSE q)
  BY DEF Quantize
<1>4. n >= m => q >= 1
  <2>1. n < m * q + m
    BY <1>1, DivBounds
  <2>2. q = 0 => m * q + m = m
    BY <1>1
  <2> QED BY <1>1, <1>2, <2>1, <2>2
<1>5. up => 2 * r >= m
  BY <1>1, <1>2
<1> HIDE DEF q, r, up
<1>6. PICK x \in Nat : /\ x \in {q, q + 1} /\ Quantize(n, d) = Tick * x
                       /\ x = q + 1 => 2 * r >= m
  BY <1>2, <1>3, <1>5
<1>7. Tick * x \in Nat /\ d * (Tick * x) = m * x
  BY <1>1
<1>8. 2 * (m * x) <= 2 * n + m
  <2>1. CASE x = q
    BY <1>1, <1>2, <2>1
  <2>2. CASE x = q + 1
    <3>1. m * x = m * q + m
      BY <1>1, <1>2, <2>2
    <3> HIDE DEF m
    <3>2. m * q \in Nat
      BY <1>1, <1>2
    <3> QED BY <1>1, <1>2, <1>6, <2>2, <3>1, <3>2
  <2> QED BY <1>6, <2>1, <2>2
<1>9. x >= 1 => Tick * x >= Tick
  BY <1>1
<1> QED BY <1>1, <1>2, <1>4, <1>6, <1>7, <1>8, <1>9

-----------------------------------------------------------------------------
(* prepare_state.                                                          *)

(* The fields of a strategy state.                                         *)
LEMMA StateFields ==
    ASSUME NEW s \in StrategyState
    PROVE  /\ s.day \in Nat /\ s.cash \in Nat /\ s.quantity \in Nat
           /\ s.cost \in Nat /\ s.t \in Nat /\ s.mode \in Mode
           /\ s.pool \in Nat /\ s.used \in Nat /\ s.days \in Nat
BY DEF StrategyState

(* What is held and what it cost, the cash and T are the same.             *)
SameHolding(s, r) == /\ r.quantity = s.quantity /\ r.cost = s.cost
                     /\ r.cash = s.cash /\ r.t = s.t

(* Facts about what is held carry over.                                    *)
LEMMA SameHoldingOK ==
    ASSUME NEW s, StateOK(s), NEW r \in StrategyState, SameHolding(s, r)
    PROVE  StateOK(r)
BY DEF StateOK, SameHolding

(* A new session counts a day of REVERSE mode.                             *)
LEMMA NextSessionOK ==
    ASSUME NEW s, StateOK(s), PoolOK(s), NEW day \in Nat, s.day <= day,
           day = s.day => PoolBeforeBuys(s),
           NEW r, r = NextSessionState(s, day)
    PROVE  /\ r \in StrategyState /\ SameHolding(s, r) /\ r.day = day
           /\ PoolBeforeBuys(r)
<1>1. s \in StrategyState
  BY DEF StateOK
<1>2. CASE day = s.day
  <2>1. r = s
    BY <1>2 DEF NextSessionState
  <2> QED BY <1>1, <1>2, <2>1 DEF SameHolding
<1>3. CASE day # s.day
  <2>1. s.day \in Nat /\ s.days \in Nat /\ s.pool \in Nat /\ s.used \in Nat
    BY <1>1, StateFields
  <2> DEFINE d == IF s.mode = "REVERSE" THEN s.days + 1 ELSE s.days
  <2>2. r = [s EXCEPT !.day = day, !.days = d]
    BY <1>3, <2>1 DEF NextSessionState
  <2>6. d \in Nat /\ (s.mode = "REVERSE" => d = s.days + 1)
    BY <2>1
  <2> HIDE DEF d
  <2>3. /\ r \in StrategyState /\ SameHolding(s, r) /\ r.day = day
        /\ r.mode = s.mode /\ r.pool = s.pool /\ r.used = s.used
        /\ s.mode = "REVERSE" => r.days = s.days + 1
    BY <1>1, <2>2, <2>6 DEF StrategyState, SameHolding
  <2>4. s.mode = "REVERSE" => r.days > 0 /\ r.days - 1 = s.days
    BY <2>1, <2>3
  <2>5. PoolBeforeBuys(r)
    BY <2>1, <2>3, <2>4 DEF PoolOK, PoolBeforeBuys
  <2> QED BY <2>3, <2>5
<1> QED BY <1>2, <1>3

(* Entering REVERSE mode starts a pool of which nothing is used.           *)
LEMMA EnterReverseOK ==
    ASSUME NEW s \in StrategyState, PoolBeforeBuys(s), NEW r, r = EnterReverse(s)
    PROVE  /\ r \in StrategyState /\ SameHolding(s, r) /\ r.day = s.day
           /\ PoolBeforeBuys(r)
<1>1. CASE r = s
  BY <1>1 DEF SameHolding
<1>2. CASE r = [s EXCEPT !.mode = "REVERSE", !.pool = s.cash, !.used = 0,
                         !.days = 0]
  <2>2. s.cash \in Nat /\ "REVERSE" \in Mode
    BY StateFields DEF Mode
  <2>1. /\ r \in StrategyState /\ SameHolding(s, r) /\ r.day = s.day
        /\ r.used = 0 /\ r.days = 0 /\ r.pool = s.cash /\ s.cash \in Nat
    <3>1. PICK mode \in Mode, used \in Nat : mode = "REVERSE" /\ used = 0
      BY <2>2
    <3>2. r = [s EXCEPT !.mode = mode, !.pool = s.cash, !.used = used, !.days = used]
      BY <1>2, <3>1
    <3>3. /\ r \in StrategyState
          /\ r.day = s.day /\ r.cash = s.cash /\ r.quantity = s.quantity
          /\ r.cost = s.cost /\ r.t = s.t
          /\ r.pool = s.cash /\ r.used = used /\ r.days = used
      <4>1. r \in StrategyState
        BY <2>2, <3>1, <3>2 DEF StrategyState
      <4>2. /\ r.day = s.day /\ r.cash = s.cash /\ r.quantity = s.quantity
            /\ r.cost = s.cost /\ r.t = s.t
        BY <3>2 DEF StrategyState
      <4>3. r.pool = s.cash /\ r.used = used /\ r.days = used
        BY <3>2 DEF StrategyState
      <4> QED BY <4>1, <4>2, <4>3
    <3> QED BY <2>2, <3>1, <3>3 DEF SameHolding
  <2> QED BY <2>1 DEF PoolBeforeBuys
<1> QED BY <1>1, <1>2 DEF EnterReverse

(* Before the buys of a session less is used than after them.              *)
LEMMA PoolWeaken ==
    ASSUME NEW s \in StrategyState, PoolBeforeBuys(s)
    PROVE  PoolOK(s)
<1>1. s.days \in Nat /\ s.pool \in Nat /\ s.used \in Nat
  BY StateFields
<1>2. ASSUME s.days > 0 PROVE (s.days - 1) * s.pool <= s.days * s.pool
  BY <1>1, <1>2, Times
<1>3. s.days * s.pool \in Nat /\ (s.days > 0 => (s.days - 1) * s.pool \in Nat)
  BY <1>1
<1> QED BY <1>1, <1>2, <1>3 DEF PoolOK, PoolBeforeBuys

(* prepare_state moves no money and leaves a pool for the buys.            *)
LEMMA PrepareOK ==
    ASSUME NEW s, StateOK(s), PoolOK(s), NEW day \in Nat, s.day <= day,
           day = s.day => PoolBeforeBuys(s),
           NEW cl, NEW r, r = PrepareState(s, day, cl)
    PROVE  /\ StateOK(r) /\ SameHolding(s, r) /\ r.day = day
           /\ PoolBeforeBuys(r) /\ PoolOK(r)
<1> DEFINE a == NextSessionState(s, day)
           b == EnterReverse(a)
<1>1. a \in StrategyState /\ SameHolding(s, a) /\ a.day = day /\ PoolBeforeBuys(a)
  BY NextSessionOK
<1>2. b \in StrategyState /\ SameHolding(a, b) /\ b.day = day /\ PoolBeforeBuys(b)
  BY <1>1, EnterReverseOK
<1>3. r = b \/ r = [b EXCEPT !.mode = "NORMAL", !.days = 0]
  BY DEF PrepareState
<1> HIDE DEF a, b
<1>4. r \in StrategyState /\ SameHolding(b, r) /\ r.day = day /\ PoolBeforeBuys(r)
  <2>1. CASE r = b
    BY <1>2, <2>1 DEF SameHolding
  <2>2. CASE r = [b EXCEPT !.mode = "NORMAL", !.days = 0]
    <3>2. "NORMAL" \in Mode
      BY DEF Mode
    <3>1. /\ r \in StrategyState /\ SameHolding(b, r) /\ r.day = day
          /\ r.mode = "NORMAL"
      <4>1. PICK mode \in Mode, days \in Nat : mode = "NORMAL" /\ days = 0
        BY <3>2
      <4>2. b.pool \in Nat /\ b.used \in Nat
        BY <1>2, StateFields
      <4>3. r = [b EXCEPT !.mode = mode, !.pool = b.pool, !.used = b.used, !.days = days]
        BY <1>2, <2>2, <4>1 DEF StrategyState
      <4>4. /\ r \in StrategyState
            /\ r.day = b.day /\ r.cash = b.cash /\ r.quantity = b.quantity
            /\ r.cost = b.cost /\ r.t = b.t /\ r.mode = mode
        <5>1. r \in StrategyState
          BY <1>2, <4>1, <4>2, <4>3 DEF StrategyState
        <5>2. /\ r.day = b.day /\ r.cash = b.cash /\ r.quantity = b.quantity
              /\ r.cost = b.cost /\ r.t = b.t /\ r.mode = mode
          BY <1>2, <4>3 DEF StrategyState
        <5> QED BY <5>1, <5>2
      <4> QED BY <1>2, <4>1, <4>4 DEF SameHolding
    <3> QED BY <3>1 DEF PoolBeforeBuys
  <2> QED BY <1>3, <2>1, <2>2
<1>5. SameHolding(s, r)
  BY <1>1, <1>2, <1>4 DEF SameHolding
<1> QED BY <1>4, <1>5, SameHoldingOK, PoolWeaken

-----------------------------------------------------------------------------
(* _sell_specs.                                                            *)

(* The fields of an order, and when it is one.                             *)
LEMMA OrderFields ==
    ASSUME NEW role, NEW qty, NEW limit
    PROVE  /\ Order(role, qty, limit).role = role
           /\ Order(role, qty, limit).qty = qty
           /\ Order(role, qty, limit).limit = limit
           /\ role \in IntentRole /\ qty \in Nat \ {0} /\ limit \in Nat
                => Order(role, qty, limit) \in OrderIntent
BY DEF Order, OrderIntent

(* The star is a price of at least one tick: T is below the divisions.     *)
LEMMA StarPriceOK ==
    ASSUME NEW s, StateOK(s), s.quantity > 0
    PROVE  StarPrice(s) \in Nat /\ StarPrice(s) >= Tick
<1>1. s.quantity \in Nat \ {0} /\ s.cost \in Nat /\ s.t \in Nat /\ s.t < FullT
  BY StateFields DEF StateOK
<1>2. TargetPct \in {15, 20} /\ FullT \in Nat \ {0} /\ Tick \in Nat
  <2>1. FullT \in Nat /\ FullT >= 1
    BY Units
  <2> QED BY <2>1, Units DEF TargetPct
<1>3. PICK w \in Int : w = FullT - 2 * s.t /\ w > -FullT
  BY <1>1, <1>2
<1>4. 100 * FullT + TargetPct * w \in Nat
  BY <1>2, <1>3
<1>5. s.cost * (100 * FullT + TargetPct * w) \in Nat
  BY <1>1, <1>4
<1>6. s.quantity * 100 * FullT \in Nat \ {0}
  BY <1>1, <1>2
<1>7. Quantize(s.cost * (100 * FullT + TargetPct * w), s.quantity * 100 * FullT) \in Nat
  BY <1>5, <1>6, QuantizeBounds
<1> QED BY <1>2, <1>3, <1>7 DEF StarPrice, Larger

(* The target is a price.                                                  *)
LEMMA TargetPriceOK ==
    ASSUME NEW s, StateOK(s), s.quantity > 0
    PROVE  TargetPrice(s) \in Nat
<1>1. s.quantity \in Nat \ {0} /\ s.cost \in Nat
  BY StateFields DEF StateOK
<1>2. TargetPct \in {15, 20}
  BY DEF TargetPct
<1>3. s.cost * (100 + TargetPct) \in Nat /\ s.quantity * 100 \in Nat \ {0}
  BY <1>1, <1>2
<1> QED BY <1>3, QuantizeBounds DEF TargetPrice

(* The mean of five closes is a price.                                     *)
LEMMA ReverseStarOK ==
    ASSUME NEW cl \in [1..5 -> Price]
    PROVE  ReverseStar(cl) \in Nat
<1>1. cl[1] \in Nat /\ cl[2] \in Nat /\ cl[3] \in Nat /\ cl[4] \in Nat /\ cl[5] \in Nat
  BY DEF Price
<1>2. cl[1] + cl[2] + cl[3] + cl[4] + cl[5] \in Nat
  BY <1>1
<1> QED BY <1>2, DivBounds DEF ReverseStar

(* A single sell of no more than is held.                                  *)
LEMMA OneSell ==
    ASSUME NEW s, NEW role \in SellRole, NEW qty \in Nat, qty <= s.quantity,
           NEW limit \in Nat
    PROVE  SellOrdersOK(s, Planned({Order(role, qty, limit)}))
<1> DEFINE i == Order(role, qty, limit)
<1>1. i.role = role /\ i.qty = qty
  BY OrderFields
<1>2. qty > 0 => i \in OrderIntent
  BY OrderFields DEF IntentRole
<1> HIDE DEF i
<1>3. Planned({i}) \subseteq {i} /\ \A j \in Planned({i}) : j.qty > 0
  BY DEF Planned
<1>4. AtMostTwo(Planned({i}))
  BY <1>3 DEF AtMostTwo
<1> QED BY <1>1, <1>2, <1>3, <1>4 DEF SellOrdersOK, i

(* The sells of a plan are for different shares, all of them held.         *)
LEMMA SellPlanOK ==
    ASSUME NEW s, StateOK(s), NEW cl \in [1..5 -> Price]
    PROVE  SellOrdersOK(s, SellPlan(s, cl))
<1> DEFINE part == Larger(1, (2 * s.quantity) \div N)
           quarter == Larger(1, s.quantity \div 4)
<1>1. s.quantity \in Nat
  BY StateFields DEF StateOK
<1>2. CASE s.quantity <= 0
  <2>1. SellPlan(s, cl) = {}
    BY <1>1, <1>2 DEF SellPlan, Planned
  <2> QED BY <2>1 DEF SellOrdersOK, AtMostTwo
<1>3. CASE s.quantity > 0
  <2>1. part \in Nat /\ part <= s.quantity
    <3>1. N \in Nat \ {0} /\ 2 * s.quantity \in Nat /\ 2 * s.quantity <= s.quantity * N
      BY <1>1, Units, Times
    <3>2. (2 * s.quantity) \div N \in Nat /\ (2 * s.quantity) \div N <= s.quantity
      BY <1>1, <3>1, DivBounds, DivAtMost
    <3> QED BY <1>1, <1>3, <3>2 DEF Larger
  <2>2. quarter \in Nat /\ quarter >= 1 /\ quarter <= s.quantity
    BY <1>1, <1>3 DEF Larger
  <2>3. ReverseStar(cl) \in Nat /\ StarPrice(s) \in Nat /\ TargetPrice(s) \in Nat
    BY <1>3, ReverseStarOK, StarPriceOK, TargetPriceOK
  <2>4. CASE s.mode = "REVERSE"
    <3>1. \/ SellPlan(s, cl) = Planned({Order("REVERSE_FIRST_SELL", part, 0)})
          \/ SellPlan(s, cl) = Planned({Order("REVERSE_SELL", part, ReverseStar(cl))})
      BY <1>1, <1>3, <2>4 DEF SellPlan
    <3> HIDE DEF part
    <3> QED BY <2>1, <2>3, <3>1, OneSell DEF SellRole
  <2>5. CASE s.mode # "REVERSE"
    <3> DEFINE i == Order("STAR_QUARTER_SELL", quarter, StarPrice(s))
               j == Order("TARGET_SELL", s.quantity - quarter, TargetPrice(s))
    <3>1. SellPlan(s, cl) = Planned({i, j})
      BY <1>1, <1>3, <2>5 DEF SellPlan
    <3> HIDE DEF quarter
    <3>2. s.quantity - quarter \in Nat
      BY <1>1, <2>2
    <3>3. /\ i.role = "STAR_QUARTER_SELL" /\ i.qty = quarter /\ i \in OrderIntent
          /\ j.role = "TARGET_SELL" /\ j.qty = s.quantity - quarter
          /\ j.qty > 0 => j \in OrderIntent
      BY <2>2, <2>3, <3>2, OrderFields DEF IntentRole, SellRole
    <3> HIDE DEF i, j
    <3>4. Planned({i, j}) \subseteq {i, j} /\ \A k \in Planned({i, j}) : k.qty > 0
      BY DEF Planned
    <3>5. AtMostTwo(Planned({i, j}))
      BY <3>4 DEF AtMostTwo
    <3>6. ASSUME NEW k \in Planned({i, j})
          PROVE  k \in OrderIntent /\ k.role \in SellRole /\ k.qty <= s.quantity
      <4>1. CASE k = i
        BY <1>1, <2>2, <3>3, <4>1 DEF SellRole
      <4>2. CASE k = j
        <5>1. j.qty > 0
          BY <3>4, <4>2
        <5>2. j.qty <= s.quantity
          BY <1>1, <2>2, <3>3
        <5> QED BY <3>3, <4>2, <5>1, <5>2 DEF SellRole
      <4> QED BY <3>4, <4>1, <4>2
    <3>7. \A k, l \in Planned({i, j}) : k # l => k.qty + l.qty <= s.quantity
      BY <1>1, <2>2, <3>2, <3>3, <3>4
    <3> QED BY <3>1, <3>5, <3>6, <3>7 DEF SellOrdersOK
  <2> QED BY <2>4, <2>5
<1> QED BY <1>1, <1>2, <1>3

-----------------------------------------------------------------------------
(* _buy_specs.                                                             *)

(* A quotient times its divisor is at most what was divided.               *)
LEMMA Spent ==
    ASSUME NEW a \in Nat, NEW b \in Nat \ {0}
    PROVE  a \div b \in Nat /\ (a \div b) * b <= a /\ (a \div b) * b \in Nat
<1>1. PICK q \in Nat : q = a \div b /\ b * q <= a
  BY DivBounds
<1>2. q * b = b * q /\ q * b \in Nat
  BY <1>1
<1> QED BY <1>1, <1>2

(* Two half buys cost at most the cash with the fee of the first: what is  *)
(* left of T is more than one and a half divisions.  A is up to three      *)
(* halves of its half budget, because its price is rounded to ticks.       *)
LEMMA TwoHalves ==
    ASSUME NEW c \in Nat, NEW U \in Nat, NEW D \in Nat \ {0}, NEW F \in Nat,
           NEW A \in Nat, NEW B \in Nat,
           F >= 3, 3 * U <= 2 * D,
           4 * (D * A) <= 3 * (c * U), 2 * (D * B) <= c * U
    PROVE  (F + 1) * A + F * B <= F * c
<1>1. PICK x \in Nat, y \in Nat, z \in Nat : x = D * A /\ y = D * B /\ z = c * U
  OBVIOUS
<1>2. 4 * x <= 3 * z /\ 2 * y <= z
  BY <1>1
<1>3. (4 * x) * (F + 1) <= (3 * z) * (F + 1) /\ (2 * y) * F <= z * F
  BY <1>1, <1>2, Times
<1>4. PICK zf \in Nat, xf \in Nat, yf \in Nat :
        zf = z * F /\ xf = x * (F + 1) /\ yf = y * F
  BY <1>1
<1>5. 4 * xf <= 3 * zf + 3 * z /\ 2 * yf <= zf
  BY <1>1, <1>3, <1>4
<1>6. 3 * z <= zf
  <2>1. 3 * z <= F * z
    BY <1>1, Times
  <2> QED BY <1>1, <1>4, <2>1
<1>7. 4 * (xf + yf) <= 6 * zf
  BY <1>4, <1>5, <1>6, <1>1
<1>8. 3 * zf <= 2 * (D * (F * c))
  <2>1. F * c \in Nat
    OBVIOUS
  <2>2. (3 * U) * (F * c) <= (2 * D) * (F * c)
    BY <2>1, Times
  <2>3. (3 * U) * (F * c) = 3 * zf
    BY <1>1, <1>4
  <2>4. (2 * D) * (F * c) = 2 * (D * (F * c))
    BY <2>1
  <2> QED BY <2>2, <2>3, <2>4
<1>9. xf + yf = ((F + 1) * A + F * B) * D
  BY <1>1, <1>4
<1>10. PICK v \in Nat, w \in Nat : v = (F + 1) * A + F * B /\ w = F * c
  OBVIOUS
<1>11. v * D <= w * D
  <2>1. 4 * (v * D) <= 4 * (D * w)
    <3>1. v * D \in Nat /\ D * w \in Nat
      BY <1>10
    <3> QED BY <1>4, <1>7, <1>8, <1>9, <1>10, <3>1
  <2> QED BY <1>10, <2>1
<1> QED BY <1>10, <1>11, TimesCancel

(* The half buy at the average cost: its limit is the average rounded to   *)
(* a tick, its quantity is taken at the average itself.                    *)
LEMMA AvgHalf ==
    ASSUME NEW c \in Nat, NEW U \in Nat, NEW D \in Nat \ {0},
           NEW cost \in Nat \ {0}, NEW qty \in Nat \ {0}, NEW L \in Nat,
           2 * (qty * L) <= 3 * cost,
           NEW n \in Nat, n = (c * U * qty) \div (2 * D * cost)
    PROVE  4 * (D * (n * L)) <= 3 * (c * U)
<1>1. c * U * qty \in Nat /\ 2 * D * cost \in Nat \ {0}
  OBVIOUS
<1>2. n * (2 * D * cost) <= c * U * qty
  BY <1>1, Spent
<1>3. PICK m \in Nat : m = n * (2 * D)
  OBVIOUS
<1>4. (2 * (qty * L)) * m <= (3 * cost) * m
  <2>1. 2 * (qty * L) \in Nat /\ 3 * cost \in Nat
    OBVIOUS
  <2> QED BY <1>3, <2>1, Times
<1>5. (3 * cost) * m = 3 * (n * (2 * D * cost))
  BY <1>3
<1>6. (2 * (qty * L)) * m = (4 * (D * (n * L))) * qty
  BY <1>3
<1>7. 3 * (c * U * qty) = (3 * (c * U)) * qty
  OBVIOUS
<1>8. (4 * (D * (n * L))) * qty <= (3 * (c * U)) * qty
  <2>1. /\ n * (2 * D * cost) \in Nat /\ (3 * (c * U)) * qty \in Nat
        /\ (4 * (D * (n * L))) * qty \in Nat
    OBVIOUS
  <2> QED BY <1>1, <1>2, <1>4, <1>5, <1>6, <1>7, <2>1
<1>9. 4 * (D * (n * L)) \in Nat /\ 3 * (c * U) \in Nat
  OBVIOUS
<1> QED BY <1>8, <1>9, TimesCancel

(* A single buy that the cash, the pool and T have room for.               *)
LEMMA OneBuy ==
    ASSUME NEW s, NEW role \in BuyRole, NEW qty \in Nat, NEW limit \in Nat,
           qty * limit <= s.cash,
           role \in WholeRole => s.t + Unit < FullT,
           role \in HalfRole => 2 * s.t + Unit < 2 * FullT,
           role = "REVERSE_BUY" =>
              /\ s.mode = "REVERSE" /\ s.used + qty * limit <= s.pool
              /\ 4 * (s.used + qty * limit) <= s.days * s.pool
    PROVE  BuyOrdersOK(s, Planned({Order(role, qty, limit)}))
<1> DEFINE i == Order(role, qty, limit)
<1>1. i.role = role /\ Value(i) = qty * limit
  BY OrderFields DEF Value
<1>2. qty > 0 => i \in OrderIntent
  BY OrderFields DEF IntentRole
<1>0. i.qty = qty
  BY OrderFields
<1> HIDE DEF i
<1>3. Planned({i}) = {i} \/ Planned({i}) = {}
  BY DEF Planned
<1>4. CASE Planned({i}) = {}
  BY <1>4 DEF BuyOrdersOK, AtMostTwo, i
<1>5. CASE Planned({i}) = {i}
  <2>1. i \in OrderIntent
    <3>1. i.qty > 0
      BY <1>5 DEF Planned
    <3> QED BY <1>0, <1>2, <3>1
  <2>2. AtMostTwo({i})
    BY DEF AtMostTwo
  <2>3. ~AvgThenStar(i, i)
    BY DEF AvgThenStar
  <2>4. BuyOrdersOK(s, {i})
    BY <1>1, <2>1, <2>2, <2>3 DEF BuyOrdersOK
  <2> QED BY <1>5, <2>4 DEF i
<1> QED BY <1>3, <1>4, <1>5

(* The buy of REVERSE mode.                                                *)
LEMMA ReverseBuyOK ==
    ASSUME NEW s, StateOK(s), PoolBeforeBuys(s), s.mode = "REVERSE", s.days # 0,
           NEW limit \in Nat \ {0}
    PROVE  BuyOrdersOK(s, Planned({Order("REVERSE_BUY",
                                         ReverseBudget(s) \div limit, limit)}))
<1>1. /\ s.cash \in Nat /\ s.pool \in Nat /\ s.used \in Nat /\ s.days \in Nat
      /\ s.used <= s.pool /\ 4 * s.used <= (s.days - 1) * s.pool
  BY StateFields DEF StateOK, PoolBeforeBuys
<1>2. PICK budget \in Nat : /\ budget = ReverseBudget(s) /\ budget <= s.cash
                            /\ s.used + budget <= s.pool /\ 4 * budget <= s.pool
  <2>1. s.pool \div 4 \in Nat /\ 4 * (s.pool \div 4) <= s.pool
    BY <1>1
  <2>2. Larger(0, s.pool - s.used) = s.pool - s.used
    BY <1>1 DEF Larger
  <2>3. ReverseBudget(s) \in {s.cash, s.pool - s.used, s.pool \div 4}
    BY <2>2 DEF ReverseBudget, Smaller
  <2>4. /\ ReverseBudget(s) <= s.cash /\ ReverseBudget(s) <= s.pool - s.used
        /\ ReverseBudget(s) <= s.pool \div 4
    BY <1>1, <2>1, <2>2 DEF ReverseBudget, Smaller
  <2> QED BY <1>1, <2>1, <2>3, <2>4
<1>3. PICK qty \in Nat : qty = budget \div limit /\ qty * limit <= budget
  BY <1>2, Spent
<1>4. PICK v \in Nat : v = qty * limit
  BY <1>3
<1>5. 4 * (s.used + v) <= s.days * s.pool
  <2>1. s.days * s.pool = (s.days - 1) * s.pool + s.pool
    BY <1>1
  <2>2. (s.days - 1) * s.pool \in Nat
    BY <1>1
  <2> QED BY <1>1, <1>2, <1>3, <1>4, <2>1, <2>2
<1>6. v <= s.cash /\ s.used + v <= s.pool
  BY <1>1, <1>2, <1>3, <1>4
<1>7. BuyOrdersOK(s, Planned({Order("REVERSE_BUY", qty, limit)}))
  <2>1. "REVERSE_BUY" \in BuyRole /\ "REVERSE_BUY" \notin WholeRole \cup HalfRole
    BY DEF BuyRole, IntentRole, SellRole, WholeRole, HalfRole
  <2> QED BY <1>3, <1>4, <1>5, <1>6, <2>1, OneBuy
<1> QED BY <1>2, <1>3, <1>7

(* The first buy of a position: a division's part of the cash.             *)
LEMMA InitialBuyOK ==
    ASSUME NEW s, StateOK(s), s.quantity = 0, NEW first \in Nat \ {0}
    PROVE  BuyOrdersOK(s, Planned({Order("INITIAL_BUY", s.cash \div (N * first), first)}))
<1>1. s.cash \in Nat /\ s.t = 0
  BY StateFields DEF StateOK
<1>2. PICK d \in Nat \ {0} : d = N * first /\ first <= d
  <2>1. N \in Nat /\ N >= 1
    BY Units
  <2>2. 1 * first <= N * first
    BY <2>1, Times
  <2> QED BY <2>1, <2>2
<1>3. PICK qty \in Nat : qty = s.cash \div d /\ qty * d <= s.cash
  BY <1>1, <1>2, Spent
<1>4. qty * first <= s.cash
  <2>1. first * qty <= d * qty
    BY <1>2, <1>3, Times
  <2>2. first * qty = qty * first /\ d * qty = qty * d
    BY <1>2, <1>3
  <2>3. qty * first \in Nat /\ qty * d \in Nat
    BY <1>2, <1>3
  <2> QED BY <1>1, <1>3, <2>1, <2>2, <2>3
<1>5. s.t + Unit < FullT
  BY <1>1, Units
<1>6. "INITIAL_BUY" \in BuyRole /\ "INITIAL_BUY" \notin HalfRole
  BY DEF BuyRole, HalfRole
<1>7. BuyOrdersOK(s, Planned({Order("INITIAL_BUY", qty, first)}))
  BY <1>3, <1>4, <1>5, <1>6, OneBuy
<1> QED BY <1>2, <1>3, <1>7

(* A whole buy in the back half: cash over what is left of the divisions.  *)
LEMMA FullBuyOK ==
    ASSUME NEW s, StateOK(s), HasBuyAmount(s), NEW price \in Nat \ {0}
    PROVE  BuyOrdersOK(s, Planned({Order("STAR_FULL_BUY", BuyQty(s, 1, price, 1), price)}))
<1>1. s.cash \in Nat /\ s.t \in Nat /\ Unit \in Nat /\ FullT \in Nat
  BY StateFields, Units DEF StateOK
<1>2. PICK left \in Nat \ {0} : left = FullT - s.t /\ Unit <= left /\ s.t + Unit < FullT
  BY <1>1 DEF HasBuyAmount
<1>3. PICK d \in Nat \ {0} : d = left * price
  BY <1>2
<1>4. PICK qty \in Nat : qty = (s.cash * Unit) \div d /\ qty * d <= s.cash * Unit
  <2>1. s.cash * Unit \in Nat
    BY <1>1
  <2> QED BY <1>3, <2>1, Spent
<1>5. BuyQty(s, 1, price, 1) = qty
  <2>1. s.cash * Unit * 1 = s.cash * Unit /\ 1 * left * price = d
    BY <1>1, <1>2, <1>3
  <2> QED BY <1>2, <1>4, <2>1 DEF BuyQty
<1>6. qty * price <= s.cash
  <2>1. (qty * price) * left <= s.cash * left
    <3>1. qty * d = (qty * price) * left
      BY <1>2, <1>3, <1>4
    <3>2. s.cash * Unit <= s.cash * left
      <4>1. Unit * s.cash <= left * s.cash
        BY <1>1, <1>2, Times
      <4> QED BY <1>1, <1>2, <4>1
    <3>3. /\ (qty * price) * left \in Nat /\ s.cash * Unit \in Nat
          /\ s.cash * left \in Nat
      BY <1>1, <1>2, <1>4
    <3> QED BY <1>4, <3>1, <3>2, <3>3
  <2>2. qty * price \in Nat
    BY <1>4
  <2> QED BY <1>1, <1>2, <2>1, <2>2, TimesCancel
<1>7. "STAR_FULL_BUY" \in BuyRole /\ "STAR_FULL_BUY" \notin HalfRole
  BY DEF BuyRole, HalfRole
<1>8. BuyOrdersOK(s, Planned({Order("STAR_FULL_BUY", qty, price)}))
  BY <1>2, <1>4, <1>6, <1>7, OneBuy
<1> QED BY <1>5, <1>8

(* What two half buys cost, and the room T has for both.                   *)
LEMMA HalvesCost ==
    ASSUME NEW s, StateOK(s), s.quantity > 0, 2 * s.t < FullT,
           NEW price \in Nat \ {0},
           NEW A, A = BuyQty(s, 2, s.cost, s.quantity) * Quantize(s.cost, s.quantity),
           NEW B, B = BuyQty(s, 2, price, 1) * price
    PROVE  /\ BuyQty(s, 2, s.cost, s.quantity) \in Nat /\ BuyQty(s, 2, price, 1) \in Nat
           /\ Quantize(s.cost, s.quantity) \in Nat
           /\ A <= s.cash /\ B <= s.cash
           /\ (FeeDen + 1) * A + FeeDen * B <= FeeDen * s.cash
<1>1. /\ s.cash \in Nat /\ s.t \in Nat /\ Unit \in Nat /\ FullT \in Nat
      /\ FullT >= 3 * Unit /\ FeeDen \in Nat /\ FeeDen >= 3
      /\ s.cost \in Nat /\ s.quantity \in Nat \ {0} /\ Tick \in Nat /\ Tick >= 1
      /\ s.cost >= Tick * s.quantity
  BY StateFields, Units DEF StateOK
<1>2. PICK left \in Nat \ {0} : left = FullT - s.t /\ 3 * Unit <= 2 * left
  BY <1>1
<1>3. s.cost \in Nat \ {0}
  <2>1. 1 * s.quantity <= Tick * s.quantity
    BY <1>1, Times
  <2>2. Tick * s.quantity \in Nat
    BY <1>1
  <2> QED BY <1>1, <2>1, <2>2
<1>4. PICK limit \in Nat : /\ limit = Quantize(s.cost, s.quantity)
                           /\ 2 * (s.quantity * limit) <= 3 * s.cost
  <2>1. /\ Quantize(s.cost, s.quantity) \in Nat
        /\ 2 * (s.quantity * Quantize(s.cost, s.quantity))
             <= 2 * s.cost + s.quantity * Tick
    BY <1>1, QuantizeBounds
  <2>2. s.quantity * Tick = Tick * s.quantity /\ Tick * s.quantity \in Nat
    BY <1>1
  <2>3. PICK l \in Nat : l = Quantize(s.cost, s.quantity)
    BY <2>1
  <2>4. s.quantity * l \in Nat
    BY <1>1, <2>3
  <2> QED BY <1>1, <2>1, <2>2, <2>3, <2>4
<1>5. PICK n \in Nat : /\ n = BuyQty(s, 2, s.cost, s.quantity)
                       /\ 4 * (left * (n * limit)) <= 3 * (s.cash * Unit)
  <2>1. /\ s.cash * Unit * s.quantity \in Nat
        /\ 2 * left * s.cost \in Nat \ {0}
    BY <1>1, <1>2, <1>3
  <2>2. PICK m \in Nat : m = (s.cash * Unit * s.quantity) \div (2 * left * s.cost)
    BY <2>1, DivBounds
  <2>3. 4 * (left * (m * limit)) <= 3 * (s.cash * Unit)
    BY <1>1, <1>2, <1>3, <1>4, <2>2, AvgHalf
  <2>4. m = BuyQty(s, 2, s.cost, s.quantity)
    BY <1>2, <2>2 DEF BuyQty
  <2> QED BY <2>2, <2>3, <2>4
<1>6. PICK k \in Nat : /\ k = BuyQty(s, 2, price, 1)
                       /\ 2 * (left * (k * price)) <= s.cash * Unit
  <2>1. /\ s.cash * Unit \in Nat /\ s.cash * Unit * 1 = s.cash * Unit
        /\ 2 * left * price \in Nat \ {0}
    BY <1>1, <1>2
  <2>2. PICK m \in Nat : /\ m = (s.cash * Unit) \div (2 * left * price)
                         /\ m * (2 * left * price) <= s.cash * Unit
    BY <2>1, Spent
  <2>3. m * (2 * left * price) = 2 * (left * (m * price))
    BY <1>2, <2>2
  <2>4. m = BuyQty(s, 2, price, 1)
    BY <1>2, <2>1, <2>2 DEF BuyQty
  <2> QED BY <2>2, <2>3, <2>4
<1>7. A = n * limit /\ A \in Nat /\ B = k * price /\ B \in Nat
  BY <1>4, <1>5, <1>6
<1>8. (FeeDen + 1) * A + FeeDen * B <= FeeDen * s.cash
  BY <1>1, <1>2, <1>5, <1>6, <1>7, TwoHalves
<1>9. A <= s.cash /\ B <= s.cash
  <2>1. A * FeeDen <= s.cash * FeeDen /\ B * FeeDen <= s.cash * FeeDen
    <3>1. /\ (FeeDen + 1) * A = FeeDen * A + A /\ FeeDen * A = A * FeeDen
          /\ FeeDen * B = B * FeeDen /\ FeeDen * s.cash = s.cash * FeeDen
      BY <1>1, <1>7
    <3>2. A * FeeDen \in Nat /\ B * FeeDen \in Nat /\ s.cash * FeeDen \in Nat
      BY <1>1, <1>7
    <3> QED BY <1>7, <1>8, <3>1, <3>2
  <2>2. FeeDen \in Nat \ {0}
    BY <1>1
  <2> QED BY <1>1, <1>7, <2>1, <2>2, TimesCancel
<1> QED BY <1>4, <1>5, <1>6, <1>8, <1>9

(* The half buys of the front half.                                        *)
LEMMA HalvesOK ==
    ASSUME NEW s, StateOK(s), s.quantity > 0, 2 * s.t < FullT,
           NEW price \in Nat \ {0}
    PROVE  BuyOrdersOK(s, Planned(
             {Order("AVG_HALF_BUY", BuyQty(s, 2, s.cost, s.quantity),
                    Quantize(s.cost, s.quantity)),
              Order("STAR_HALF_BUY", BuyQty(s, 2, price, 1), price)}))
<1> DEFINE n == BuyQty(s, 2, s.cost, s.quantity)
           limit == Quantize(s.cost, s.quantity)
           k == BuyQty(s, 2, price, 1)
           i == Order("AVG_HALF_BUY", n, limit)
           j == Order("STAR_HALF_BUY", k, price)
<1>1. /\ n \in Nat /\ k \in Nat /\ limit \in Nat
      /\ n * limit <= s.cash /\ k * price <= s.cash
      /\ (FeeDen + 1) * (n * limit) + FeeDen * (k * price) <= FeeDen * s.cash
  BY HalvesCost
<1>2. s.t + Unit < FullT /\ 2 * s.t + Unit < 2 * FullT
  <2>1. s.t \in Nat
    BY StateFields DEF StateOK
  <2> QED BY <2>1, Units
<1> HIDE DEF n, limit, k
<1>3. /\ i.role = "AVG_HALF_BUY" /\ Value(i) = n * limit
      /\ j.role = "STAR_HALF_BUY" /\ Value(j) = k * price
      /\ i.qty > 0 => i \in OrderIntent
      /\ j.qty > 0 => j \in OrderIntent
  BY <1>1, OrderFields DEF Value, IntentRole, BuyRole
<1> HIDE DEF i, j
<1>4. Planned({i, j}) \subseteq {i, j} /\ \A o \in Planned({i, j}) : o.qty > 0
  BY DEF Planned
<1>5. AtMostTwo(Planned({i, j}))
  BY <1>4 DEF AtMostTwo
<1>6. /\ "AVG_HALF_BUY" \in BuyRole \cap HalfRole
      /\ "STAR_HALF_BUY" \in BuyRole \cap HalfRole
      /\ "AVG_HALF_BUY" \notin WholeRole /\ "STAR_HALF_BUY" \notin WholeRole
  BY DEF BuyRole, HalfRole, WholeRole
<1>7. ASSUME NEW o \in Planned({i, j})
      PROVE  /\ o \in OrderIntent /\ o.role \in BuyRole /\ Value(o) <= s.cash
             /\ o.role \notin WholeRole /\ o.role # "REVERSE_BUY"
             /\ 2 * s.t + Unit < 2 * FullT
  <2>1. o.qty > 0 /\ (o = i \/ o = j)
    BY <1>4
  <2> QED BY <1>1, <1>2, <1>3, <1>6, <2>1
<1>8. ASSUME NEW o \in Planned({i, j}), NEW q \in Planned({i, j})
      PROVE  /\ o # q => AvgThenStar(o, q) \/ AvgThenStar(q, o)
             /\ AvgThenStar(o, q) =>
                  /\ s.t + Unit < FullT
                  /\ (FeeDen + 1) * Value(o) + FeeDen * Value(q) <= FeeDen * s.cash
  <2>1. (o = i \/ o = j) /\ (q = i \/ q = j)
    BY <1>4
  <2>2. AvgThenStar(i, j) /\ ~AvgThenStar(i, i) /\ ~AvgThenStar(j, j) /\ ~AvgThenStar(j, i)
    BY <1>3 DEF AvgThenStar
  <2>3. AvgThenStar(o, q) => o = i /\ q = j
    BY <2>1, <2>2
  <2> QED BY <1>1, <1>2, <1>3, <2>1, <2>2, <2>3
<1>9. BuyOrdersOK(s, Planned({i, j}))
  BY <1>5, <1>7, <1>8 DEF BuyOrdersOK
<1> QED BY <1>9 DEF i, j, n, limit, k

(* No order is a plan that anything covers.                                *)
LEMMA NoBuyOK ==
    ASSUME NEW s
    PROVE  BuyOrdersOK(s, {}) /\ Planned({}) = {}
BY DEF BuyOrdersOK, AtMostTwo, Planned

(* The buys of a plan are covered by the cash, the pool and T.             *)
LEMMA BuyPlanOK ==
    ASSUME NEW s, StateOK(s), PoolBeforeBuys(s), NEW cl \in [1..5 -> Price],
           \A k \in 1..5 : cl[k] >= Tick
    PROVE  BuyOrdersOK(s, BuyPlan(s, cl))
<1>1. s.quantity \in Nat /\ s.days \in Nat /\ Tick \in Nat /\ Tick >= 1
  BY StateFields, Units DEF StateOK
<1>2. CASE s.mode = "REVERSE"
  <2> DEFINE reverse == Larger(Tick, ReverseStar(cl) - Tick)
  <2>1. reverse \in Nat \ {0}
    BY <1>1, ReverseStarOK DEF Larger
  <2>2. CASE s.days = 0 \/ s.quantity <= 0
    <3>1. BuyPlan(s, cl) = Planned({})
      BY <1>2, <2>2 DEF BuyPlan
    <3> QED BY <3>1, NoBuyOK
  <2>3. CASE ~(s.days = 0 \/ s.quantity <= 0)
    <3>1. BuyPlan(s, cl)
            = Planned({Order("REVERSE_BUY", ReverseBudget(s) \div reverse, reverse)})
      BY <1>2, <2>3 DEF BuyPlan
    <3> HIDE DEF reverse
    <3> QED BY <1>2, <2>1, <2>3, <3>1, ReverseBuyOK
  <2> QED BY <2>2, <2>3
<1>3. CASE s.mode # "REVERSE" /\ s.quantity = 0
  <2> DEFINE first == Quantize(cl[5] * 12, 10)
  <2>1. first \in Nat \ {0}
    <3>1. PICK c \in Nat : c = cl[5] /\ c >= Tick
      BY DEF Price
    <3>2. c * 12 \in Nat /\ c * 12 >= 10 * Tick /\ 10 \in Nat \ {0}
      BY <1>1, <3>1
    <3>3. Quantize(c * 12, 10) \in Nat /\ Quantize(c * 12, 10) >= Tick
      BY <3>2, QuantizeBounds
    <3> QED BY <1>1, <3>1, <3>3
  <2>2. BuyPlan(s, cl) = Planned({Order("INITIAL_BUY", s.cash \div (N * first), first)})
    BY <1>3 DEF BuyPlan
  <2> HIDE DEF first
  <2> QED BY <1>3, <2>1, <2>2, InitialBuyOK
<1>4. CASE s.mode # "REVERSE" /\ s.quantity > 0
  <2> DEFINE below == Larger(Tick, StarPrice(s) - Tick)
  <2>1. below \in Nat \ {0}
    BY <1>1, <1>4, StarPriceOK DEF Larger
  <2>2. BuyPlan(s, cl) = Planned(NormalBuys(s))
    BY <1>1, <1>4 DEF BuyPlan
  <2>3. CASE ~HasBuyAmount(s)
    <3>1. NormalBuys(s) = {}
      BY <2>3 DEF NormalBuys
    <3> QED BY <2>2, <3>1, NoBuyOK
  <2>4. CASE HasBuyAmount(s) /\ 2 * s.t < FullT
    <3>1. NormalBuys(s)
            = {Order("AVG_HALF_BUY", BuyQty(s, 2, s.cost, s.quantity),
                     Quantize(s.cost, s.quantity)),
               Order("STAR_HALF_BUY", BuyQty(s, 2, below, 1), below)}
      BY <2>4 DEF NormalBuys
    <3> HIDE DEF below
    <3> QED BY <1>4, <2>1, <2>2, <2>4, <3>1, HalvesOK
  <2>5. CASE HasBuyAmount(s) /\ ~(2 * s.t < FullT)
    <3>1. NormalBuys(s) = {Order("STAR_FULL_BUY", BuyQty(s, 1, below, 1), below)}
      BY <2>5 DEF NormalBuys
    <3> HIDE DEF below
    <3> QED BY <2>1, <2>2, <2>5, <3>1, FullBuyOK
  <2> QED BY <2>3, <2>4, <2>5
<1> QED BY <1>1, <1>2, <1>3, <1>4

-----------------------------------------------------------------------------
(* apply_fill of a sell.                                                   *)

(* The cost after a sell of f of q shares that cost c.                     *)
CostAfter(c, q, f) == c - (c * f) \div q

(* What a sell of f of q shares leaves of their cost c: their part of it,  *)
(* rounded up by less than one unit.                                       *)
LEMMA CostLeft ==
    ASSUME NEW c \in Nat, NEW q \in Nat \ {0}, NEW f \in Nat, f <= q,
           NEW d, d = CostAfter(c, q, f)
    PROVE  d \in Nat /\ c * (q - f) <= d * q /\ (d - 1) * q <= c * (q - f)
<1>1. c * f \in Nat /\ c * f <= c * q
  <2>1. f * c <= q * c
    BY Times
  <2> QED BY <2>1
<1>2. PICK x \in Nat : x = (c * f) \div q /\ x <= c /\ q * x <= c * f /\ c * f < q * x + q
  BY <1>1, DivBounds, DivAtMost
<1>3. d = c - x /\ d \in Nat
  BY <1>2 DEF CostAfter
<1>4. /\ d * q = c * q - q * x /\ (d - 1) * q = c * q - q * x - q
      /\ c * (q - f) = c * q - c * f
  BY <1>2, <1>3
<1>5. c * q \in Nat /\ q * x \in Nat
  BY <1>2
<1> QED BY <1>1, <1>2, <1>3, <1>4, <1>5

(* It is still no less than a price at which all were bought or more.      *)
LEMMA CostLeftAbove ==
    ASSUME NEW c \in Nat, NEW q \in Nat \ {0}, NEW f \in Nat, f <= q,
           NEW d, d = CostAfter(c, q, f), NEW lo \in Nat, lo * q <= c
    PROVE  lo * (q - f) <= d
<1>1. d \in Nat /\ c * (q - f) <= d * q /\ q - f \in Nat
  BY CostLeft
<1>2. (lo * q) * (q - f) <= c * (q - f)
  BY <1>1, Times
<1>3. (lo * q) * (q - f) = (lo * (q - f)) * q
  OBVIOUS
<1>4. /\ lo * (q - f) \in Nat /\ c * (q - f) \in Nat /\ d * q \in Nat
      /\ (lo * (q - f)) * q \in Nat
  BY <1>1
<1> QED BY <1>1, <1>2, <1>3, <1>4, TimesCancel

(* And no more than H per F shares, with k + 1 units for the rounding of   *)
(* this and the k sells before it.                                         *)
LEMMA CostLeftBelow ==
    ASSUME NEW c \in Nat, NEW q \in Nat \ {0}, NEW f \in Nat, f <= q,
           NEW d, d = CostAfter(c, q, f),
           NEW F \in Nat, NEW H \in Nat, NEW k \in Nat, F * (c - k) <= H * q
    PROVE  F * (d - (k + 1)) <= H * (q - f)
<1>1. d \in Nat /\ (d - 1) * q <= c * (q - f)
  BY CostLeft
<1>2. PICK g \in Nat : g = q - f /\ g <= q
  OBVIOUS
<1>3. (F * c) * g <= (H * q + F * k) * g
  <2>1. F * c <= H * q + F * k
    <3>1. F * (c - k) = F * c - F * k /\ F * c \in Nat /\ F * k \in Nat /\ H * q \in Nat
      OBVIOUS
    <3> QED BY <3>1
  <2>2. F * c \in Int /\ H * q + F * k \in Int
    OBVIOUS
  <2> QED BY <1>2, <2>1, <2>2, Times
<1>4. (F * k) * g <= (F * k) * q
  <2>1. F * k \in Nat
    OBVIOUS
  <2>2. g * (F * k) <= q * (F * k)
    BY <1>2, <2>1, Times
  <2> QED BY <1>2, <2>2
<1>5. (F * (d - 1)) * q <= (F * c) * g
  <2>1. ((d - 1) * q) * F <= (c * g) * F
    <3>1. (d - 1) * q \in Int /\ c * g \in Int
      BY <1>1, <1>2
    <3> QED BY <1>1, <1>2, <3>1, Times
  <2> QED BY <1>1, <1>2, <2>1
<1>6. (F * (d - 1)) * q <= (H * g + F * k) * q
  <2>1. /\ (H * q + F * k) * g = (H * g) * q + (F * k) * g
        /\ (H * g + F * k) * q = (H * g) * q + (F * k) * q
    BY <1>2
  <2>2. /\ (H * g) * q \in Nat /\ (F * k) * g \in Nat /\ (F * k) * q \in Nat
        /\ (F * c) * g \in Nat /\ (F * (d - 1)) * q \in Int
    BY <1>1, <1>2
  <2> QED BY <1>3, <1>4, <1>5, <2>1, <2>2
<1>7. F * (d - 1) <= H * g + F * k
  <2>1. F * (d - 1) \in Int /\ H * g + F * k \in Int
    BY <1>1, <1>2
  <2> QED BY <1>6, <2>1, TimesCancel
<1>8. F * (d - (k + 1)) = F * (d - 1) - F * k
  BY <1>1
<1>9. F * (d - 1) \in Int /\ F * k \in Int /\ H * g \in Int
  BY <1>1, <1>2
<1> QED BY <1>2, <1>7, <1>8, <1>9

(* T shrinks by a part of it.                                              *)
LEMMA TAfterSellOK ==
    ASSUME NEW s, s.t \in Nat, NEW i \in OrderIntent, i.role \in SellRole,
           NEW filled \in Nat, filled <= i.qty
    PROVE  TAfterSell(s, i, filled) \in Nat /\ TAfterSell(s, i, filled) <= s.t
<1>1. i.qty \in Nat \ {0}
  BY DEF OrderIntent
<1>2. PICK e1 \in Nat, e2 \in Nat \ {0} : TEffect(i.role) = <<e1, e2>> /\ e1 <= e2
  <2>1. N \in Nat \ {0} /\ 2 <= N
    BY Units
  <2>2. CASE i.role = "STAR_QUARTER_SELL"
    BY <2>2 DEF TEffect
  <2>3. CASE i.role = "TARGET_SELL"
    BY <2>3 DEF TEffect
  <2>4. CASE i.role \in {"REVERSE_FIRST_SELL", "REVERSE_SELL"}
    <3>1. TEffect(i.role) = <<2, N>>
      BY <2>4 DEF TEffect
    <3> QED BY <2>1, <3>1
  <2> QED BY <2>2, <2>3, <2>4 DEF SellRole
<1>3. PICK m \in Nat \ {0} : m = e2 * i.qty
  BY <1>1, <1>2
<1>4. PICK x \in Nat : x = m - e1 * filled /\ x <= m
  <2>1. e1 * filled \in Nat
    BY <1>2
  <2>2. e1 * filled <= e2 * filled
    BY <1>2, Times
  <2>3. filled * e2 <= i.qty * e2
    BY <1>1, <1>2, Times
  <2>4. e2 * filled = filled * e2 /\ i.qty * e2 = m /\ filled * e2 \in Nat
    BY <1>1, <1>2, <1>3
  <2> QED BY <1>3, <2>1, <2>2, <2>3, <2>4
<1>5. s.t * x \in Nat /\ s.t * x <= s.t * m
  <2>1. x * s.t <= m * s.t
    BY <1>3, <1>4, Times
  <2> QED BY <1>3, <1>4, <2>1
<1>6. (s.t * x) \div m \in Nat /\ (s.t * x) \div m <= s.t
  BY <1>3, <1>5, DivBounds, DivAtMost
<1>7. TAfterSell(s, i, filled) = (s.t * x) \div m
  BY <1>2, <1>3, <1>4 DEF TAfterSell
<1> QED BY <1>6, <1>7

(* The sells still to come when one has been worked off.                   *)
LEMMA SellRest ==
    ASSUME NEW s, NEW orders, SellOrdersOK(s, orders), NEW i \in orders,
           s.quantity \in Nat, NEW r, r.quantity \in Nat,
           r.quantity >= s.quantity - i.qty
    PROVE  SellOrdersOK(r, orders \ {i})
<1>1. \A o \in orders : o.qty \in Nat \ {0}
  BY DEF SellOrdersOK, OrderIntent
<1>2. ASSUME NEW o \in orders \ {i} PROVE o.qty <= r.quantity
  <2>1. o.qty + i.qty <= s.quantity
    BY DEF SellOrdersOK
  <2> QED BY <1>1, <2>1
<1>3. ASSUME NEW o \in orders \ {i}, NEW k \in orders \ {i}, o # k PROVE FALSE
  <2>1. PICK a, b : orders \subseteq {a, b}
    BY DEF SellOrdersOK, AtMostTwo
  <2> QED BY <1>3, <2>1
<1>4. AtMostTwo(orders \ {i})
  BY DEF SellOrdersOK, AtMostTwo
<1> QED BY <1>2, <1>3, <1>4 DEF SellOrdersOK

(* What the sell of some shares does to the holding.                       *)
Sold(s, filled, r) ==
    /\ r.day = s.day /\ r.quantity = s.quantity - filled
    /\ s.mode = "NORMAL" => r.mode = "NORMAL"
    /\ r.quantity > 0 => r.cost = CostAfter(s.cost, s.quantity, filled)

(* A fill of a planned sell is never refused, and leaves the other covered.*)
LEMMA SellFillOK ==
    ASSUME NEW s, StateOK(s), PoolBeforeBuys(s),
           NEW orders, SellOrdersOK(s, orders), NEW i \in orders,
           NEW filled \in Nat \ {0}, filled <= i.qty,
           NEW price \in Nat, NEW fee \in Nat, fee <= price * filled,
           NEW r, r = ApplyFill(s, i, filled, price, fee)
    PROVE  /\ ~FillRaises(s, i, filled, price, fee)
           /\ StateOK(r) /\ PoolBeforeBuys(r) /\ SellOrdersOK(r, orders \ {i})
           /\ Sold(s, filled, r)
<1>1. /\ i \in OrderIntent /\ i.role \in SellRole /\ i.role \notin BuyRole
      /\ i.qty \in Nat \ {0} /\ i.qty <= s.quantity
  BY DEF SellOrdersOK, OrderIntent, SellRole, BuyRole
<1>2. /\ s \in StrategyState /\ s.day \in Nat /\ s.cash \in Nat /\ s.quantity \in Nat
      /\ s.cost \in Nat /\ s.t \in Nat /\ s.t < FullT /\ s.mode \in Mode
      /\ s.cost >= Tick * s.quantity /\ Tick \in Nat /\ FullT \in Nat /\ FullT > 0
  BY StateFields, Units DEF StateOK
<1>3. PICK rest \in Nat : rest = s.quantity - filled /\ rest >= s.quantity - i.qty
  BY <1>1, <1>2
<1>4. r = SoldState(s, i, filled, price, fee)
  BY <1>1 DEF ApplyFill
<1>5. ~FillRaises(s, i, filled, price, fee)
  BY <1>1, <1>2 DEF FillRaises
<1>6. PICK cash \in Nat : cash = s.cash + price * filled - fee
  <2>1. price * filled \in Nat
    OBVIOUS
  <2> QED BY <1>2, <2>1
<1>7. PICK t \in Nat : t = TAfterSell(s, i, filled) /\ t <= s.t
  BY <1>1, <1>2, TAfterSellOK
<1>8. CASE rest = 0
  <2>0. PICK sold : sold = [s EXCEPT !.cash = cash, !.quantity = rest, !.cost = 0,
                                    !.t = t]
    OBVIOUS
  <2>1. r = [sold EXCEPT !.mode = "NORMAL", !.t = 0, !.pool = 0, !.used = 0,
                         !.days = 0]
    <3>1. ~(rest > 0)
      BY <1>8
    <3> QED BY <1>3, <1>4, <1>6, <1>7, <1>8, <2>0, <3>1 DEF SoldState
  <2>2. r \in StrategyState
    <3>1. "NORMAL" \in Mode /\ 0 \in Nat
      BY DEF Mode
    <3>2. sold \in StrategyState
      BY <1>2, <1>6, <1>7, <2>0, <3>1 DEF StrategyState
    <3> QED BY <2>1, <3>1, <3>2 DEF StrategyState
  <2>3. /\ r.day = s.day /\ r.quantity = 0 /\ r.cost = 0 /\ r.t = 0
        /\ r.mode = "NORMAL"
    BY <1>2, <1>8, <2>0, <2>1 DEF StrategyState
  <2>4. StateOK(r)
    BY <1>2, <2>2, <2>3 DEF StateOK
  <2>5. PoolBeforeBuys(r)
    BY <2>3 DEF PoolBeforeBuys
  <2>6. SellOrdersOK(r, orders \ {i})
    BY <1>2, <1>3, <1>8, <2>3, SellRest
  <2>7. Sold(s, filled, r)
    BY <1>3, <1>8, <2>3 DEF Sold
  <2> QED BY <1>5, <2>4, <2>5, <2>6, <2>7
<1>9. CASE rest > 0
  <2>1. PICK cost \in Nat : /\ cost = CostAfter(s.cost, s.quantity, filled)
                            /\ cost >= Tick * rest
    <3>1. s.quantity \in Nat \ {0} /\ filled <= s.quantity
      BY <1>1, <1>2
    <3>2. PICK c \in Nat, q \in Nat \ {0} :
            c = s.cost /\ q = s.quantity /\ filled <= q /\ Tick * q <= c
      BY <1>2, <3>1
    <3>3. PICK d : d = CostAfter(c, q, filled)
      OBVIOUS
    <3>4. d \in Nat
      BY <3>2, <3>3, CostLeft
    <3>5. Tick * (q - filled) <= d
      <4>1. PICK lo \in Nat : lo = Tick /\ lo * q <= c
        BY <1>2, <3>2
      <4>2. lo * (q - filled) <= d
        BY <3>2, <3>3, <4>1, CostLeftAbove
      <4> QED BY <4>1, <4>2
    <3>6. q - filled = rest
      BY <1>3, <3>2
    <3>7. d >= Tick * rest
      <4>1. Tick * rest \in Nat /\ Tick * rest <= d
        BY <1>2, <3>5, <3>6
      <4> QED BY <3>4, <4>1
    <3>8. d = CostAfter(s.cost, s.quantity, filled)
      BY <3>2, <3>3
    <3> QED BY <3>4, <3>7, <3>8
  <2>2. r = [s EXCEPT !.cash = cash, !.quantity = rest, !.cost = cost, !.t = t]
    <3>1. rest # 0
      BY <1>9
    <3>2. r = [s EXCEPT !.cash = @ + price * filled - fee, !.quantity = rest,
                        !.cost = @ - (s.cost * filled) \div s.quantity,
                        !.t = TAfterSell(s, i, filled)]
      BY <1>3, <1>4, <1>9, <3>1 DEF SoldState
    <3> QED BY <1>6, <1>7, <2>1, <3>2 DEF CostAfter
  <2>3. r \in StrategyState
    BY <1>2, <1>6, <1>7, <2>2 DEF StrategyState
  <2>4. r.quantity = rest /\ r.cost = cost /\ r.t = t
    BY <1>2, <2>2 DEF StrategyState
  <2>5. /\ r.day = s.day /\ r.mode = s.mode /\ r.pool = s.pool
        /\ r.used = s.used /\ r.days = s.days
    BY <1>2, <2>2 DEF StrategyState
  <2>6. StateOK(r)
    BY <1>2, <1>7, <1>9, <2>1, <2>3, <2>4 DEF StateOK
  <2>7. PoolBeforeBuys(r)
    BY <2>5 DEF PoolBeforeBuys
  <2>8. SellOrdersOK(r, orders \ {i})
    BY <1>2, <1>3, <2>4, SellRest
  <2>9. Sold(s, filled, r)
    BY <1>3, <2>1, <2>4, <2>5 DEF Sold
  <2> QED BY <1>5, <2>6, <2>7, <2>8, <2>9
<1> QED BY <1>3, <1>8, <1>9

-----------------------------------------------------------------------------
(* apply_fill of a buy.                                                    *)

(* T grows by at most the part of it that the order was planned with.      *)
LEMMA TAfterBuyOK ==
    ASSUME NEW s, s.t \in Nat, s.t < FullT, NEW i \in OrderIntent, i.role \in BuyRole,
           NEW filled \in Nat, filled <= i.qty,
           NEW r, r = TAfterBuy(s, i, filled)
    PROVE  /\ r \in Nat
           /\ i.role \in WholeRole => r <= s.t + Unit
           /\ i.role \in HalfRole => 2 * r <= 2 * s.t + Unit
           /\ i.role = "REVERSE_BUY" => r < FullT
<1>1. i.qty \in Nat \ {0} /\ Unit \in Nat /\ FullT \in Nat
  BY Units DEF OrderIntent
<1>2. PICK whole \in Nat : whole = IF i.role = "REVERSE_BUY" THEN FullT - s.t ELSE Unit
  BY <1>1
<1>3. PICK e2 \in Nat \ {0} : /\ TEffect(i.role) = <<1, e2>>
                              /\ i.role \in WholeRole => e2 = 1
                              /\ i.role \in HalfRole => e2 = 2
                              /\ i.role = "REVERSE_BUY" => e2 = 4
  <2>1. CASE i.role \in WholeRole
    BY <2>1 DEF TEffect, WholeRole, HalfRole
  <2>2. CASE i.role \in HalfRole
    BY <2>2 DEF TEffect, WholeRole, HalfRole
  <2>3. CASE i.role = "REVERSE_BUY"
    BY <2>3 DEF TEffect, WholeRole, HalfRole
  <2> QED BY <2>1, <2>2, <2>3 DEF BuyRole, WholeRole, HalfRole
<1>4. PICK m \in Nat \ {0} : m = e2 * i.qty
  BY <1>1, <1>3
<1>5. PICK x \in Nat : x = (whole * filled) \div m /\ m * x <= whole * filled
  <2>1. whole * filled \in Nat
    BY <1>2
  <2> QED BY <1>4, <2>1, DivBounds
<1>6. r = s.t + x
  <2>1. whole * 1 * filled = whole * filled
    BY <1>2
  <2>2. TAfterBuy(s, i, filled) = s.t + (whole * 1 * filled) \div (e2 * i.qty)
    <3>1. TEffect(i.role)[1] = 1 /\ TEffect(i.role)[2] = e2
      BY <1>3
    <3>2. TAfterBuy(s, i, filled)
            = s.t + (whole * TEffect(i.role)[1] * filled)
                      \div (TEffect(i.role)[2] * i.qty)
      BY <1>2 DEF TAfterBuy
    <3> QED BY <3>1, <3>2
  <2> QED BY <1>4, <1>5, <2>1, <2>2
<1>7. e2 * x <= whole
  <2>1. filled * whole <= i.qty * whole
    BY <1>1, <1>2, Times
  <2>2. m * x = (e2 * x) * i.qty /\ i.qty * whole = whole * i.qty
        /\ filled * whole = whole * filled
    BY <1>1, <1>2, <1>3, <1>4, <1>5
  <2>3. m * x \in Nat /\ whole * filled \in Nat /\ whole * i.qty \in Nat
    BY <1>1, <1>2, <1>4, <1>5
  <2>4. (e2 * x) * i.qty <= whole * i.qty
    BY <1>5, <2>1, <2>2, <2>3
  <2>5. e2 * x \in Nat
    BY <1>3, <1>5
  <2> QED BY <1>1, <1>2, <2>4, <2>5, TimesCancel
<1>8. CASE i.role \in WholeRole
  <2>1. e2 = 1 /\ whole = Unit /\ i.role \notin HalfRole /\ i.role # "REVERSE_BUY"
    <3>1. i.role \notin HalfRole /\ i.role # "REVERSE_BUY"
      BY <1>8 DEF WholeRole, HalfRole
    <3> QED BY <1>2, <1>3, <1>8, <3>1
  <2> QED BY <1>1, <1>5, <1>6, <1>7, <2>1
<1>9. CASE i.role \in HalfRole
  <2>1. e2 = 2 /\ whole = Unit /\ i.role \notin WholeRole /\ i.role # "REVERSE_BUY"
    <3>1. i.role \notin WholeRole /\ i.role # "REVERSE_BUY"
      BY <1>9 DEF WholeRole, HalfRole
    <3> QED BY <1>2, <1>3, <1>9, <3>1
  <2> QED BY <1>1, <1>5, <1>6, <1>7, <2>1
<1>10. CASE i.role = "REVERSE_BUY"
  <2>1. /\ e2 = 4 /\ whole = FullT - s.t
        /\ i.role \notin WholeRole /\ i.role \notin HalfRole
    <3>1. i.role \notin WholeRole /\ i.role \notin HalfRole
      BY <1>10 DEF WholeRole, HalfRole
    <3> QED BY <1>2, <1>3, <1>10, <3>1
  <2> QED BY <1>1, <1>5, <1>6, <1>7, <2>1
<1> QED BY <1>8, <1>9, <1>10 DEF BuyRole, WholeRole, HalfRole

(* The cash that is left when the first of two buys took v and a fee on    *)
(* top is enough for the second.                                           *)
LEMMA CashForSecond ==
    ASSUME NEW F \in Nat, F >= 3, NEW c \in Nat, NEW A \in Nat, NEW B \in Nat,
           (F + 1) * A + F * B <= F * c,
           NEW v \in Nat, v <= A, NEW fee \in Nat, F * fee <= v, v + fee <= c
    PROVE  B <= c - v - fee
<1>1. (F + 1) * v <= (F + 1) * A
  <2>1. v * (F + 1) <= A * (F + 1)
    BY Times
  <2> QED BY <2>1
<1>2. PICK rest \in Nat : rest = c - v - fee
  OBVIOUS
<1>3. F * rest = F * c - F * v - F * fee /\ (F + 1) * v = F * v + v
  BY <1>2
<1>4. /\ F * c \in Nat /\ F * v \in Nat /\ F * fee \in Nat /\ F * B \in Nat
      /\ (F + 1) * A \in Nat /\ F * rest \in Nat
  BY <1>2
<1>5. F * B <= F * rest
  BY <1>1, <1>3, <1>4
<1>6. B * F <= rest * F
  BY <1>2, <1>5
<1> QED BY <1>2, <1>6, TimesCancel

(* What the buy of some shares does to the holding.                        *)
Bought(s, filled, price, fee, r) ==
    /\ r.day = s.day /\ r.mode = s.mode /\ r.quantity = s.quantity + filled
    /\ r.cost = s.cost + price * filled + fee

(* A fill of a planned buy that the cash pays for leaves the other covered.*)
LEMMA BuyFillOK ==
    ASSUME NEW s, StateOK(s), PoolOK(s),
           NEW orders, BuyOrdersOK(s, orders), NEW i \in orders,
           \A j \in orders : ~AvgThenStar(j, i),
           NEW filled \in Nat \ {0}, filled <= i.qty,
           NEW price \in Nat, price >= Tick, price <= i.limit,
           NEW fee \in Nat, FeeDen * fee <= price * filled,
           price * filled + fee <= s.cash,
           NEW r, r = ApplyFill(s, i, filled, price, fee)
    PROVE  /\ StateOK(r) /\ PoolOK(r) /\ BuyOrdersOK(r, orders \ {i})
           /\ Bought(s, filled, price, fee, r)
<1>1. /\ i \in OrderIntent /\ i.role \in BuyRole /\ i.qty \in Nat \ {0} /\ i.limit \in Nat
  BY DEF BuyOrdersOK, OrderIntent
<1>2. /\ s \in StrategyState /\ s.day \in Nat /\ s.cash \in Nat /\ s.quantity \in Nat
      /\ s.cost \in Nat /\ s.t \in Nat /\ s.t < FullT /\ s.used \in Nat
      /\ s.pool \in Nat /\ s.days \in Nat
      /\ s.cost >= Tick * s.quantity /\ Tick \in Nat /\ FullT \in Nat /\ Unit \in Nat
  BY StateFields, Units DEF StateOK
<1>3. PICK v \in Nat : v = price * filled /\ v <= Value(i)
  <2>1. price * filled \in Nat /\ price * filled <= i.limit * filled
    BY <1>1, Times
  <2>2. filled * i.limit <= i.qty * i.limit
    BY <1>1, Times
  <2>3. i.limit * filled = filled * i.limit /\ filled * i.limit \in Nat
        /\ i.qty * i.limit \in Nat
    BY <1>1
  <2> QED BY <2>1, <2>2, <2>3 DEF Value
<1>4. Value(i) \in Nat
  BY <1>1 DEF Value
<1>5. PICK cash \in Nat : cash = s.cash - v - fee
  BY <1>2, <1>3
<1>6. PICK quantity \in Nat : quantity = s.quantity + filled
  BY <1>2
<1>7. PICK cost \in Nat : cost = s.cost + v + fee
  BY <1>2, <1>3
<1>8. PICK used \in Nat : used = IF i.role = "REVERSE_BUY" THEN s.used + v ELSE s.used
  BY <1>2, <1>3
<1>9. PICK t \in Nat : /\ t = TAfterBuy(s, i, filled)
                       /\ i.role \in WholeRole => t <= s.t + Unit
                       /\ i.role \in HalfRole => 2 * t <= 2 * s.t + Unit
                       /\ i.role = "REVERSE_BUY" => t < FullT
  BY <1>1, <1>2, TAfterBuyOK
<1>10. r = [s EXCEPT !.cash = cash, !.quantity = quantity, !.cost = cost, !.t = t,
                     !.used = used]
  <2>1. r = [s EXCEPT !.cash = @ - v - fee, !.quantity = @ + filled,
                      !.cost = @ + v + fee, !.t = TAfterBuy(s, i, filled),
                      !.used = IF i.role = "REVERSE_BUY" THEN @ + v ELSE @]
    BY <1>1, <1>3 DEF ApplyFill, BoughtState
  <2>2. CASE i.role = "REVERSE_BUY"
    <3>1. used = s.used + v
      BY <1>8, <2>2
    <3> QED BY <1>5, <1>6, <1>7, <1>9, <2>1, <2>2, <3>1
  <2>3. CASE i.role # "REVERSE_BUY"
    <3>1. used = s.used
      BY <1>8, <2>3
    <3> QED BY <1>5, <1>6, <1>7, <1>9, <2>1, <2>3, <3>1
  <2> QED BY <2>2, <2>3
<1>11. r \in StrategyState
  BY <1>2, <1>5, <1>6, <1>7, <1>8, <1>9, <1>10 DEF StrategyState
<1>12. r.cash = cash /\ r.quantity = quantity /\ r.cost = cost /\ r.t = t /\ r.used = used
  BY <1>2, <1>10 DEF StrategyState
<1>13. r.day = s.day /\ r.mode = s.mode /\ r.pool = s.pool /\ r.days = s.days
  BY <1>2, <1>10 DEF StrategyState
<1>14. t < FullT
  <2>1. i.role \in WholeRole => s.t + Unit < FullT
    BY DEF BuyOrdersOK
  <2>2. i.role \in HalfRole => 2 * s.t + Unit < 2 * FullT
    BY DEF BuyOrdersOK
  <2>3. i.role \in WholeRole \cup HalfRole \cup {"REVERSE_BUY"}
    BY <1>1 DEF BuyRole, WholeRole, HalfRole
  <2>4. CASE i.role \in WholeRole
    BY <1>2, <1>9, <2>1, <2>4
  <2>5. CASE i.role \in HalfRole
    BY <1>2, <1>9, <2>2, <2>5
  <2>6. CASE i.role = "REVERSE_BUY"
    BY <1>9, <2>6
  <2> QED BY <2>3, <2>4, <2>5, <2>6
<1>15. cost >= Tick * quantity
  <2>1. Tick * filled <= price * filled
    BY <1>2, Times
  <2>2. Tick * quantity = Tick * s.quantity + Tick * filled
    BY <1>2, <1>6
  <2>3. Tick * s.quantity \in Nat /\ Tick * filled \in Nat
    BY <1>2
  <2> QED BY <1>2, <1>3, <1>7, <2>1, <2>2, <2>3
<1>16. StateOK(r)
  <2>1. quantity # 0
    BY <1>2, <1>6
  <2> QED BY <1>11, <1>12, <1>14, <1>15, <2>1 DEF StateOK
<1>17. PoolOK(r)
  <2>1. CASE i.role # "REVERSE_BUY"
    BY <1>8, <1>12, <1>13, <2>1 DEF PoolOK
  <2>2. CASE i.role = "REVERSE_BUY"
    <3>1. /\ s.used + Value(i) <= s.pool
          /\ 4 * (s.used + Value(i)) <= s.days * s.pool
      BY <2>2 DEF BuyOrdersOK
    <3>2. used = s.used + v /\ used <= s.used + Value(i)
      BY <1>2, <1>3, <1>4, <1>8, <2>2
    <3>3. s.days * s.pool \in Nat
      BY <1>2
    <3>4. used <= s.pool /\ 4 * used <= s.days * s.pool
      BY <1>2, <1>4, <3>1, <3>2, <3>3
    <3> QED BY <1>12, <1>13, <3>4 DEF PoolOK
  <2> QED BY <2>1, <2>2
<1>18. ASSUME NEW j \in orders \ {i}
       PROVE  /\ i.role = "AVG_HALF_BUY" /\ j.role = "STAR_HALF_BUY"
              /\ Value(j) <= cash /\ 2 * t + Unit < 2 * FullT
  <2>1. AvgThenStar(i, j)
    BY DEF BuyOrdersOK
  <2>2. /\ s.t + Unit < FullT
        /\ (FeeDen + 1) * Value(i) + FeeDen * Value(j) <= FeeDen * s.cash
    BY <2>1 DEF BuyOrdersOK
  <2>3. Value(j) \in Nat
    BY DEF BuyOrdersOK, OrderIntent, Value
  <2>4. Value(j) <= cash
    BY <1>2, <1>3, <1>4, <1>5, <2>2, <2>3, Units, CashForSecond
  <2>5. i.role \in HalfRole
    BY <2>1 DEF AvgThenStar, HalfRole
  <2>6. 2 * t <= 2 * s.t + Unit
    BY <1>9, <2>5
  <2>7. 2 * t + Unit < 2 * FullT
    BY <1>2, <1>9, <2>2, <2>6
  <2> QED BY <2>1, <2>4, <2>7 DEF AvgThenStar
<1>19. BuyOrdersOK(r, orders \ {i})
  <2>1. orders \ {i} \subseteq OrderIntent /\ AtMostTwo(orders \ {i})
    BY DEF BuyOrdersOK, AtMostTwo
  <2>2. ASSUME NEW j \in orders \ {i}
        PROVE  /\ j.role \in BuyRole /\ Value(j) <= r.cash
               /\ j.role \notin WholeRole /\ j.role # "REVERSE_BUY"
               /\ 2 * r.t + Unit < 2 * FullT
    <3>1. "STAR_HALF_BUY" \in BuyRole /\ "STAR_HALF_BUY" \notin WholeRole
      BY DEF BuyRole, WholeRole
    <3> QED BY <1>12, <1>18, <3>1
  <2>3. ASSUME NEW j \in orders \ {i}, NEW k \in orders \ {i}
        PROVE  j = k /\ ~AvgThenStar(j, k)
    <3>1. j.role = "STAR_HALF_BUY" /\ k.role = "STAR_HALF_BUY"
      BY <1>18
    <3>2. ~AvgThenStar(j, k) /\ ~AvgThenStar(k, j)
      BY <3>1 DEF AvgThenStar
    <3> QED BY <3>2 DEF BuyOrdersOK
  <2> QED BY <2>1, <2>2, <2>3 DEF BuyOrdersOK
<1>20. Bought(s, filled, price, fee, r)
  BY <1>3, <1>6, <1>7, <1>12, <1>13 DEF Bought
<1> QED BY <1>16, <1>17, <1>19, <1>20

(* An order that does not fill leaves the others covered.                  *)
LEMMA BuyRest ==
    ASSUME NEW s, NEW orders, BuyOrdersOK(s, orders), NEW i \in orders
    PROVE  BuyOrdersOK(s, orders \ {i})
<1>1. orders \ {i} \subseteq OrderIntent /\ AtMostTwo(orders \ {i})
  BY DEF BuyOrdersOK, AtMostTwo
<1>2. ASSUME NEW j \in orders \ {i}
      PROVE  /\ j.role \in BuyRole /\ Value(j) <= s.cash
             /\ j.role \notin WholeRole /\ j.role # "REVERSE_BUY"
             /\ j.role \in HalfRole => 2 * s.t + Unit < 2 * FullT
  BY DEF BuyOrdersOK
<1>3. ASSUME NEW j \in orders, NEW k \in orders
      PROVE  /\ j # k => AvgThenStar(j, k) \/ AvgThenStar(k, j)
             /\ AvgThenStar(j, k) =>
                  /\ s.t + Unit < FullT
                  /\ (FeeDen + 1) * Value(j) + FeeDen * Value(k) <= FeeDen * s.cash
  BY DEF BuyOrdersOK
<1> QED BY <1>1, <1>2, <1>3 DEF BuyOrdersOK

-----------------------------------------------------------------------------
(* The average cost.                                                       *)

(* A buy at a price between lo and hi, with its fee, keeps the cost        *)
(* between them.                                                           *)
LEMMA AverageBuy ==
    ASSUME NEW c \in Nat, NEW q \in Nat, NEW f \in Nat, NEW price \in Nat,
           NEW fee \in Nat, NEW F \in Nat, F * fee <= price * f, NEW k \in Nat,
           NEW lo \in Nat, NEW hi \in Nat, lo <= price, price <= hi,
           lo * q <= c, F * (c - k) <= (F + 1) * hi * q
    PROVE  /\ lo * (q + f) <= c + price * f + fee
           /\ F * (c + price * f + fee - k) <= (F + 1) * hi * (q + f)
<1>1. PICK v \in Nat : v = price * f
  OBVIOUS
<1>2. lo * f <= v /\ v <= hi * f
  BY <1>1, Times
<1>3. lo * (q + f) <= c + v + fee
  <2>1. lo * (q + f) = lo * q + lo * f /\ lo * q \in Nat /\ lo * f \in Nat
    OBVIOUS
  <2> QED BY <1>2, <2>1
<1>4. (F + 1) * v <= (F + 1) * (hi * f)
  <2>1. hi * f \in Nat
    OBVIOUS
  <2>2. v * (F + 1) <= (hi * f) * (F + 1)
    BY <1>1, <1>2, <2>1, Times
  <2> QED BY <1>1, <2>1, <2>2
<1>5. F * (c + v + fee - k) = F * (c - k) + F * v + F * fee
  BY <1>1
<1>6. (F + 1) * v = F * v + v
  BY <1>1
<1>7. (F + 1) * hi * (q + f) = (F + 1) * hi * q + (F + 1) * (hi * f)
  OBVIOUS
<1>8. /\ F * (c - k) \in Int /\ F * v \in Int /\ F * fee \in Int
      /\ (F + 1) * hi * q \in Int /\ (F + 1) * (hi * f) \in Int
  BY <1>1
<1>9. F * (c + v + fee - k) <= (F + 1) * hi * (q + f)
  BY <1>1, <1>4, <1>5, <1>6, <1>7, <1>8
<1> QED BY <1>1, <1>3, <1>9

(* A higher highest price and more units of rounding allow more.           *)
LEMMA AverageLoosen ==
    ASSUME NEW c \in Nat, NEW q \in Nat, NEW F \in Nat, NEW k \in Nat, NEW k2 \in Nat,
           NEW lo \in Nat, NEW lo2 \in Nat, NEW hi \in Nat, NEW hi2 \in Nat,
           k <= k2, lo2 <= lo, hi <= hi2,
           lo * q <= c, F * (c - k) <= (F + 1) * hi * q
    PROVE  lo2 * q <= c /\ F * (c - k2) <= (F + 1) * hi2 * q
<1>1. lo2 * q <= lo * q /\ lo2 * q \in Nat /\ lo * q \in Nat
  BY Times
<1>2. F * (c - k2) <= F * (c - k)
  <2>1. (c - k2) * F <= (c - k) * F
    BY Times
  <2> QED BY <2>1
<1>3. (F + 1) * hi * q <= (F + 1) * hi2 * q
  <2>1. hi * ((F + 1) * q) <= hi2 * ((F + 1) * q)
    BY Times
  <2> QED BY <2>1
<1>4. /\ F * (c - k2) \in Int /\ F * (c - k) \in Int
      /\ (F + 1) * hi * q \in Int /\ (F + 1) * hi2 * q \in Int
  OBVIOUS
<1> QED BY <1>1, <1>2, <1>3, <1>4

-----------------------------------------------------------------------------
(* At most two orders.                                                     *)

(* Working off an order leaves one less.                                   *)
LEMMA LeftRest ==
    ASSUME NEW orders, AtMostTwo(orders)
    PROVE  /\ Left(orders) \in 0..2 /\ Left({}) = 0
           /\ \A i \in orders : Left(orders \ {i}) = Left(orders) - 1
<1>1. PICK a, b : orders \subseteq {a, b}
  BY DEF AtMostTwo
<1>2. Left(orders) \in 0..2 /\ Left({}) = 0
  BY DEF Left
<1>3. ASSUME NEW i \in orders
      PROVE  Left(orders \ {i}) = Left(orders) - 1
  <2>1. CASE orders = {i}
    <3>1. orders \ {i} = {} /\ orders # {}
      BY <2>1
    <3>2. Left(orders) = 1 /\ Left(orders \ {i}) = 0
      BY <2>1, <3>1 DEF Left
    <3> QED BY <3>2
  <2>2. CASE orders # {i}
    <3>1. PICK j \in orders : j # i
      BY <2>2
    <3>2. orders = {i, j}
      BY <1>1, <3>1
    <3>3. orders \ {i} = {j}
      BY <3>1, <3>2
    <3>4. orders # {} /\ \A k \in orders : orders # {k}
      BY <3>1, <3>2
    <3>5. Left(orders) = 2
      BY <3>4 DEF Left
    <3>6. Left({j}) = 1
      BY DEF Left
    <3> QED BY <3>3, <3>5, <3>6
  <2> QED BY <2>1, <2>2
<1> QED BY <1>2, <1>3

(* A sum over at most two orders.                                          *)
LEMMA SumOfTwo ==
    ASSUME NEW orders, AtMostTwo(orders), NEW f, NEW bound \in Nat,
           \A i \in orders : f[i] \in Nat /\ f[i] <= bound,
           \A i, j \in orders : i # j => f[i] + f[j] <= bound
    PROVE  SumFunctionOnSet(f, orders) <= bound
<1>1. PICK a, b : orders \subseteq {a, b}
  BY DEF AtMostTwo
<1>2. IsFiniteSet(orders)
  <2>1. IsFiniteSet({a, b})
    <3>1. IsFiniteSet({a}) /\ {a, b} = {a} \cup {b}
      BY FS_Singleton
    <3> QED BY <3>1, FS_AddElement
  <2> QED BY <1>1, <2>1, FS_Subset
<1>3. CASE orders = {}
  BY <1>3, SumEmpty
<1>4. CASE orders # {}
  <2>1. PICK i \in orders : TRUE
    BY <1>4
  <2> DEFINE R == orders \ {i}
  <2>2. SumFunctionOnSet(f, orders) = SumFunctionOnSet(f, R) + f[i]
    BY <1>2, SumRemove
  <2>3. IsFiniteSet(R) /\ R \subseteq orders
    BY <1>2, FS_Subset
  <2>4. CASE R = {}
    <3>1. SumFunctionOnSet(f, R) = 0
      BY <2>4, SumEmpty
    <3> QED BY <2>2, <3>1
  <2>5. CASE R # {}
    <3>1. PICK j \in R : TRUE
      BY <2>5
    <3>2. R \ {j} = {}
      BY <1>1, <3>1
    <3>3. \A k \in R : f[k] \in Int
      BY <2>3
    <3> HIDE DEF R
    <3>4. SumFunctionOnSet(f, R) = SumFunctionOnSet(f, R \ {j}) + f[j]
      BY <2>3, <3>1, <3>3, SumRemove
    <3>5. SumFunctionOnSet(f, R \ {j}) = 0
      BY <3>2, SumEmpty
    <3>6. j \in orders /\ j # i
      BY <2>3, <3>1 DEF R
    <3>7. f[i] \in Nat /\ f[j] \in Nat /\ f[i] + f[j] <= bound
      BY <3>6
    <3> QED BY <2>2, <3>4, <3>5, <3>7
  <2> QED BY <2>4, <2>5
<1> QED BY <1>3, <1>4

-----------------------------------------------------------------------------
(* The steps.                                                              *)

(* A price of at least one tick is at least one tick of money.             *)
LEMMA MoneyOK ==
    ASSUME NEW p \in Nat
    PROVE  Money(p) \in Nat /\ (p # 0 => Money(p) >= Tick)
<1>1. Tick \in Nat /\ p * Tick \in Nat
  BY Units
<1>2. p # 0 => 1 * Tick <= p * Tick
  BY <1>1, Times
<1> QED BY <1>1, <1>2 DEF Money

(* The fields of a setup.                                                  *)
LEMMA SetupFields ==
    ASSUME NEW s \in Setups
    PROVE  /\ s.capital \in Nat /\ s.warmup \in [1..5 -> Nat \ {0}]
           /\ s.sessions \in Nat /\ s.closes \subseteq Nat \ {0}
           /\ s.spikes \subseteq Nat
BY BacktestAssumption DEF Setup

(* Initially nothing is held and nothing is planned.                       *)
LEMMA InitInv == Init => IInv
<1> SUFFICES ASSUME Init PROVE IInv
  OBVIOUS
<1>1. PICK w \in [1..5 -> Nat \ {0}] :
        /\ closes = [k \in 1..5 |-> Money(IF k = 1 THEN w[1] ELSE w[k - 1])]
        /\ row = [day |-> 0, high |-> Money(w[5]), close |-> Money(w[5])]
  BY SetupFields DEF Init
<1>2. /\ setup \in Setups /\ setup.capital \in Nat /\ setup.sessions \in Nat
      /\ phase = "BUY" /\ todo = {} /\ paid = NothingPaid
      /\ state = InitialState(setup.capital)
  BY SetupFields DEF Init
<1>3. row \in PriceRow /\ row.close >= Tick /\ row.day = 0
  <2>1. w[5] \in Nat \ {0}
    OBVIOUS
  <2>2. Money(w[5]) \in Nat /\ Money(w[5]) >= Tick
    BY <2>1, MoneyOK
  <2> QED BY <1>1, <2>2 DEF PriceRow, Price
<1>4. closes \in [1..5 -> Price] /\ \A k \in 1..5 : closes[k] >= Tick
  <2>1. ASSUME NEW k \in 1..5
        PROVE  /\ Money(IF k = 1 THEN w[1] ELSE w[k - 1]) \in Nat
               /\ Money(IF k = 1 THEN w[1] ELSE w[k - 1]) >= Tick
    <3>1. PICK x \in Nat \ {0} : x = IF k = 1 THEN w[1] ELSE w[k - 1]
      <4>1. k # 1 => k - 1 \in 1..5
        OBVIOUS
      <4> QED BY <4>1
    <3>2. Money(x) \in Nat /\ Money(x) >= Tick
      BY <3>1, MoneyOK
    <3> QED BY <3>1, <3>2
  <2> QED BY <1>1, <2>1 DEF Price
<1>5. paid \in Paid
  BY <1>2 DEF NothingPaid, Paid, Price
<1>6. /\ state \in StrategyState /\ state.quantity = 0 /\ state.cost = 0
      /\ state.t = 0 /\ state.mode = "NORMAL" /\ state.day = 1
  <2>1. Money(setup.capital) \in Nat
    BY <1>2, MoneyOK
  <2> QED BY <1>2, <2>1 DEF InitialState, StrategyState, Mode
<1>7. StateOK(state)
  <2>1. FullT > 0 /\ Tick * 0 = 0
    BY Units
  <2> QED BY <1>6, <2>1 DEF StateOK
<1>8. PoolOK(state) /\ AverageOK(state, paid, Sells) /\ DayOK
  BY <1>2, <1>3, <1>6 DEF PoolOK, AverageOK, DayOK
<1>9. BuyOrdersOK(state, todo)
  BY <1>2, NoBuyOK
<1> QED BY <1>2, <1>3, <1>4, <1>5, <1>7, <1>8, <1>9 DEF IInv

(* The units of rounding so far.                                           *)
LEMMA SellsOK ==
    ASSUME IInv
    PROVE  /\ row.day \in Nat /\ Sells \in Nat /\ AtMostTwo(todo)
           /\ phase = "SELL" => /\ row.day > 0 /\ Sells = 2 * row.day - Left(todo)
                                /\ Left(todo) \in 0..2
           /\ phase = "BUY" => Sells = 2 * row.day
<1>1. row.day \in Nat
  BY DEF IInv, PriceRow
<1>2. AtMostTwo(todo) /\ Left(todo) \in 0..2
  <2>1. AtMostTwo(todo)
    BY DEF IInv, SellOrdersOK, BuyOrdersOK
  <2> QED BY <2>1, LeftRest
<1>3. phase = "SELL" => row.day > 0
  BY <1>1 DEF IInv, DayOK
<1>4. CASE phase = "SELL"
  BY <1>1, <1>2, <1>3, <1>4 DEF Sells
<1>5. CASE phase = "BUY"
  BY <1>1, <1>2, <1>5 DEF Sells
<1> QED BY <1>1, <1>2, <1>4, <1>5 DEF IInv

(* The average stays explained when only more roundings are allowed for.   *)
LEMMA AverageMore ==
    ASSUME NEW s \in StrategyState, NEW r \in StrategyState, SameHolding(s, r),
           NEW p \in Paid, NEW k \in Nat, NEW k2 \in Nat, k <= k2, AverageOK(s, p, k)
    PROVE  AverageOK(r, p, k2)
<1>1. p.lo \in Nat /\ p.hi \in Nat
  BY DEF Paid, Price
<1>2. s.quantity \in Nat /\ s.cost \in Nat
  BY StateFields
<1>3. CASE s.quantity > 0
  <2>1. /\ p.lo >= Tick /\ p.lo * s.quantity <= s.cost
        /\ FeeDen * (s.cost - k) <= (FeeDen + 1) * p.hi * s.quantity
    BY <1>3 DEF AverageOK
  <2>2. FeeDen * (s.cost - k2) <= (FeeDen + 1) * p.hi * s.quantity
    BY <1>1, <1>2, <2>1, Units, AverageLoosen
  <2> QED BY <2>1, <2>2 DEF AverageOK, SameHolding
<1>4. CASE ~(s.quantity > 0)
  BY <1>4 DEF AverageOK, SameHolding
<1> QED BY <1>3, <1>4

(* A session starts: its candle, prepare_state and the sell plan.          *)
LEMMA StartSessionInv ==
    ASSUME IInv, StartSession
    PROVE  IInv'
<1>1. /\ phase = "BUY" /\ todo = {} /\ row.day < setup.sessions /\ setup' = setup
      /\ phase' = "SELL" /\ paid' = paid
      /\ state' = PrepareState(state, row'.day, closes')
      /\ todo' = SellPlan(state', closes')
  BY DEF StartSession
<1>2. /\ row.day \in Nat /\ row.close \in Nat /\ row.close >= Tick
      /\ setup \in Setups /\ setup.sessions \in Nat
      /\ closes \in [1..5 -> Price] /\ \A k \in 1..5 : closes[k] >= Tick
  BY SetupFields DEF IInv, PriceRow, Price
<1>3. /\ row' \in PriceRow /\ row'.close >= Tick /\ row'.day = row.day + 1
  <2>1. PICK c \in setup.closes, up \in setup.spikes :
          row' = [day |-> row.day + 1, high |-> Money(c + up), close |-> Money(c)]
    BY DEF StartSession
  <2>2. c \in Nat /\ c # 0 /\ up \in Nat
    BY <1>2, <2>1, SetupFields
  <2>3. Money(c) \in Nat /\ Money(c) >= Tick /\ Money(c + up) \in Nat
    <3>1. c + up \in Nat
      BY <2>2
    <3> QED BY <2>2, <3>1, MoneyOK
  <2> QED BY <1>2, <2>1, <2>3 DEF PriceRow, Price
<1>4. closes' \in [1..5 -> Price] /\ \A k \in 1..5 : closes'[k] >= Tick
  <2>1. closes' = [k \in 1..5 |-> IF k = 5 THEN row.close ELSE closes[k + 1]]
    BY DEF StartSession
  <2>2. ASSUME NEW k \in 1..5
        PROVE  closes'[k] \in Price /\ closes'[k] >= Tick
    <3>1. CASE k = 5
      BY <1>2, <2>1, <3>1 DEF Price
    <3>2. CASE k # 5
      <4>1. k + 1 \in 1..5
        BY <3>2
      <4>2. closes'[k] = closes[k + 1]
        BY <2>1, <3>2
      <4> QED BY <1>2, <4>1, <4>2
    <3> QED BY <3>1, <3>2
  <2> QED BY <2>1, <2>2
<1>5. /\ StateOK(state) /\ PoolOK(state) /\ state \in StrategyState
      /\ AverageOK(state, paid, Sells) /\ paid \in Paid
  BY DEF IInv, StateOK
<1>6. /\ row'.day \in Nat /\ state.day <= row'.day
      /\ row'.day = state.day => PoolBeforeBuys(state)
  <2>1. CASE row.day = 0
    <3>1. state.day = 1 /\ state.mode = "NORMAL"
      BY <2>1 DEF IInv, DayOK
    <3> QED BY <1>3, <2>1, <3>1 DEF PoolBeforeBuys
  <2>2. CASE row.day > 0
    <3>1. state.day = row.day
      BY <2>2 DEF IInv, DayOK
    <3> QED BY <1>2, <1>3, <3>1
  <2> QED BY <1>2, <2>1, <2>2
<1>7. /\ StateOK(state') /\ SameHolding(state, state') /\ state'.day = row'.day
      /\ PoolBeforeBuys(state') /\ PoolOK(state')
  BY <1>1, <1>5, <1>6, PrepareOK
<1>8. SellOrdersOK(state', todo')
  BY <1>1, <1>4, <1>7, SellPlanOK
<1>9. Sells' \in Nat /\ Sells <= Sells' /\ Sells \in Nat
  <2>1. Sells \in Nat /\ Sells = 2 * row.day
    BY <1>1, SellsOK
  <2>2. Left(todo') \in 0..2
    <3>1. AtMostTwo(todo')
      BY <1>8 DEF SellOrdersOK
    <3> QED BY <3>1, LeftRest
  <2>3. Sells' = 2 * row'.day - Left(todo')
    BY <1>1 DEF Sells
  <2> QED BY <1>2, <1>3, <2>1, <2>2, <2>3
<1>10. AverageOK(state', paid, Sells')
  BY <1>5, <1>7, <1>9, AverageMore DEF StateOK
<1>11. DayOK'
  BY <1>1, <1>2, <1>3, <1>7 DEF DayOK
<1>12. AverageOK(state, paid, Sells)'
  BY <1>1, <1>10
<1> QED BY <1>1, <1>2, <1>3, <1>4, <1>5, <1>7, <1>8, <1>11, <1>12 DEF IInv

(* The sells are done: prepare_state and the buy plan.                     *)
LEMMA PlanBuysInv ==
    ASSUME IInv, PlanBuys
    PROVE  IInv'
<1>1. /\ phase = "SELL" /\ todo = {} /\ phase' = "BUY"
      /\ UNCHANGED <<setup, row, closes, paid>>
      /\ state' = PrepareState(state, row.day, closes)
      /\ todo' = BuyPlan(state', closes)
  BY DEF PlanBuys
<1>2. /\ StateOK(state) /\ PoolOK(state) /\ state \in StrategyState
      /\ AverageOK(state, paid, Sells) /\ paid \in Paid /\ PoolBeforeBuys(state)
      /\ closes \in [1..5 -> Price] /\ \A k \in 1..5 : closes[k] >= Tick
  BY <1>1 DEF IInv, StateOK
<1>3. row.day \in Nat /\ row.day > 0 /\ state.day = row.day /\ Sells \in Nat
  <2>1. row.day \in Nat /\ row.day > 0 /\ Sells \in Nat
    BY <1>1, SellsOK
  <2> QED BY <2>1 DEF IInv, DayOK
<1>4. /\ StateOK(state') /\ SameHolding(state, state') /\ state'.day = row.day
      /\ PoolBeforeBuys(state') /\ PoolOK(state')
  <2>1. state.day <= row.day
    BY <1>3
  <2> QED BY <1>1, <1>2, <1>3, <2>1, PrepareOK
<1>5. BuyOrdersOK(state', todo')
  BY <1>1, <1>2, <1>4, BuyPlanOK
<1>6. Sells' = 2 * row.day /\ Sells <= Sells' /\ Sells' \in Nat
  <2>1. Sells' = 2 * row.day
    BY <1>1 DEF Sells
  <2>2. Sells = 2 * row.day - Left(todo) /\ Left(todo) \in 0..2
    BY <1>1, SellsOK
  <2> QED BY <1>3, <2>1, <2>2
<1>7. AverageOK(state', paid, Sells')
  BY <1>2, <1>3, <1>4, <1>6, AverageMore DEF StateOK
<1>8. AverageOK(state, paid, Sells)'
  BY <1>1, <1>7
<1>9. DayOK'
  BY <1>1, <1>3, <1>4 DEF IInv, DayOK
<1> QED BY <1>1, <1>4, <1>5, <1>8, <1>9 DEF IInv

(* What working off an order does not touch.                               *)
Untouched == UNCHANGED <<setup, row, closes>>

(* An order that does not fill.                                            *)
LEMMA NotFilledInv ==
    ASSUME IInv, Untouched, NEW i \in todo, todo' = todo \ {i}, NotFilled
    PROVE  IInv'
<1>1. state' = state /\ phase' = phase /\ paid' = paid /\ UNCHANGED <<setup, row, closes>>
  BY DEF NotFilled, Untouched
<1>2. AtMostTwo(todo) /\ Sells \in Nat /\ row.day \in Nat
  BY SellsOK
<1>3. Sells' \in Nat /\ Sells <= Sells'
  <2>1. Left(todo') = Left(todo) - 1 /\ Left(todo) \in 0..2
    BY <1>2, LeftRest
  <2>2. CASE phase = "SELL"
    <3>1. Sells = 2 * row.day - Left(todo) /\ Sells' = 2 * row.day - Left(todo')
      BY <1>1, <2>2 DEF Sells
    <3> QED BY <1>2, <2>1, <3>1
  <2>3. CASE phase # "SELL"
    <3>1. Sells = 2 * row.day /\ Sells' = 2 * row.day
      BY <1>1, <2>3 DEF Sells
    <3> QED BY <1>2, <3>1
  <2> QED BY <2>2, <2>3
<1>4. AverageOK(state, paid, Sells')
  <2>1. /\ state \in StrategyState /\ paid \in Paid /\ AverageOK(state, paid, Sells)
        /\ SameHolding(state, state)
    BY DEF IInv, StateOK, SameHolding
  <2> QED BY <1>2, <1>3, <2>1, AverageMore
<1>5. AverageOK(state, paid, Sells)'
  BY <1>1, <1>4
<1>6. phase = "SELL" => SellOrdersOK(state, todo')
  <2>1. SUFFICES ASSUME phase = "SELL" PROVE SellOrdersOK(state, todo \ {i})
    OBVIOUS
  <2>2. SellOrdersOK(state, todo) /\ state.quantity \in Nat
    BY <2>1, StateFields DEF IInv, StateOK
  <2>3. i.qty \in Nat
    BY <2>2 DEF SellOrdersOK, OrderIntent
  <2>4. state.quantity >= state.quantity - i.qty
    BY <2>2, <2>3
  <2> QED BY <2>2, <2>4, SellRest
<1>7. phase = "BUY" => BuyOrdersOK(state, todo')
  BY BuyRest DEF IInv
<1>8. DayOK'
  BY <1>1 DEF IInv, DayOK
<1> QED BY <1>1, <1>5, <1>6, <1>7, <1>8 DEF IInv

(* A sell that fills.                                                      *)
LEMMA SellInv ==
    ASSUME IInv, Untouched, phase = "SELL", NEW i \in todo, todo' = todo \ {i},
           NEW filled \in Nat \ {0}, filled <= i.qty,
           NEW fee \in Nat, fee <= FillPrice(i) * filled, Apply(i, filled, fee)
    PROVE  IInv'
<1>1. /\ StateOK(state) /\ PoolBeforeBuys(state) /\ SellOrdersOK(state, todo)
      /\ AverageOK(state, paid, Sells) /\ paid \in Paid
      /\ state \in StrategyState /\ paid.lo \in Nat /\ paid.hi \in Nat
  BY DEF IInv, StateOK, Paid, Price
<1>2. i.role \notin BuyRole /\ i.qty \in Nat /\ i.qty <= state.quantity
  BY <1>1 DEF SellOrdersOK, SellRole, BuyRole, OrderIntent
<1>3. PICK price \in Nat : price = FillPrice(i)
  <2>1. row.close \in Nat /\ i.limit \in Nat
    BY <1>1 DEF IInv, PriceRow, Price, SellOrdersOK, OrderIntent
  <2> QED BY <2>1 DEF FillPrice
<1>4. PICK r : r = ApplyFill(state, i, filled, price, fee)
  OBVIOUS
<1>5. /\ ~FillRaises(state, i, filled, price, fee)
      /\ StateOK(r) /\ PoolBeforeBuys(r) /\ SellOrdersOK(r, todo \ {i})
      /\ r.day = state.day /\ r.quantity = state.quantity - filled
      /\ state.mode = "NORMAL" => r.mode = "NORMAL"
      /\ r.quantity > 0 =>
            r.cost = CostAfter(state.cost, state.quantity, filled)
  <2>1. fee <= price * filled
    BY <1>3
  <2>2. /\ ~FillRaises(state, i, filled, price, fee)
        /\ StateOK(r) /\ PoolBeforeBuys(r) /\ SellOrdersOK(r, todo \ {i})
        /\ Sold(state, filled, r)
    BY <1>1, <1>4, <2>1, SellFillOK
  <2> QED BY <2>2 DEF Sold
<1>6. state' = r /\ phase' = "SELL" /\ paid' = PaidAfter(i, price)
  BY <1>3, <1>4, <1>5 DEF Apply
<1>7. /\ UNCHANGED <<setup, row, closes>> /\ row.day \in Nat /\ row.day > 0
      /\ Sells \in Nat /\ Sells' = Sells + 1
  <2>1. AtMostTwo(todo) /\ row.day \in Nat /\ row.day > 0 /\ Sells \in Nat
        /\ Sells = 2 * row.day - Left(todo) /\ Left(todo) \in 0..2
    BY SellsOK
  <2>2. Left(todo') = Left(todo) - 1
    BY <2>1, LeftRest
  <2>3. Sells' = 2 * row.day - Left(todo')
    BY <1>6 DEF Sells, Untouched
  <2> QED BY <2>1, <2>2, <2>3 DEF Untouched
<1>8. paid' \in Paid /\ AverageOK(state', paid', Sells')
  <2>1. state.quantity \in Nat /\ state.cost \in Nat
    BY <1>1, StateFields
  <2>2. CASE r.quantity = 0
    <3>1. paid' = NothingPaid
      BY <1>6, <2>2 DEF PaidAfter
    <3> QED BY <1>6, <2>2, <3>1 DEF AverageOK, NothingPaid, Paid, Price
  <2>3. CASE r.quantity # 0
    <3>1. paid' = paid
      BY <1>2, <1>6, <2>3 DEF PaidAfter
    <3>2. /\ state.quantity \in Nat \ {0} /\ filled <= state.quantity
          /\ r.quantity > 0
      BY <1>2, <1>5, <2>1, <2>3
    <3>3. /\ paid.lo >= Tick /\ paid.lo * state.quantity <= state.cost
          /\ FeeDen * (state.cost - Sells) <= (FeeDen + 1) * paid.hi * state.quantity
      BY <1>1, <3>2 DEF AverageOK
    <3>4. r.cost = CostAfter(state.cost, state.quantity, filled)
      BY <1>5, <3>2
    <3>5. paid.lo * (state.quantity - filled) <= r.cost
      BY <1>1, <2>1, <3>2, <3>3, <3>4, CostLeftAbove
    <3>6. PICK h \in Nat : h = (FeeDen + 1) * paid.hi
      BY <1>1, Units
    <3>7. FeeDen * (state.cost - Sells) <= h * state.quantity
      BY <3>3, <3>6
    <3>8. FeeDen * (r.cost - (Sells + 1)) <= h * (state.quantity - filled)
      BY <1>7, <2>1, <3>2, <3>4, <3>7, Units, CostLeftBelow
    <3>9. AverageOK(r, paid, Sells + 1)
      BY <1>5, <3>3, <3>5, <3>6, <3>8 DEF AverageOK
    <3> QED BY <1>1, <1>6, <1>7, <3>1, <3>9
  <2> QED BY <2>2, <2>3
<1>9. AverageOK(state, paid, Sells)'
  BY <1>8
<1>10. DayOK'
  BY <1>5, <1>6, <1>7 DEF IInv, DayOK
<1>11. PoolOK(r)
  BY <1>5, PoolWeaken DEF StateOK
<1> QED BY <1>5, <1>6, <1>7, <1>8, <1>9, <1>10, <1>11 DEF IInv

(* A buy that fills, at no more than its limit and with its fee at most    *)
(* the cash: nothing is refused.                                           *)
LEMMA BuyInv ==
    ASSUME IInv, Untouched, phase = "BUY", NEW i \in todo, todo' = todo \ {i},
           IsNext(i), Fills(i),
           NEW filled \in Nat \ {0}, filled <= i.qty,
           NEW fee \in Nat, FeeDen * fee <= row.close * filled,
           row.close * filled + fee <= state.cash, Apply(i, filled, fee)
    PROVE  IInv'
<1>1. /\ StateOK(state) /\ PoolOK(state) /\ BuyOrdersOK(state, todo)
      /\ AverageOK(state, paid, Sells) /\ paid \in Paid
      /\ state \in StrategyState /\ paid.lo \in Nat /\ paid.hi \in Nat
      /\ row.close \in Nat /\ row.close >= Tick
  BY DEF IInv, StateOK, Paid, PriceRow, Price
<1>2. i.role \in BuyRole
  BY <1>1 DEF BuyOrdersOK
<1>3. row.close <= i.limit /\ FillPrice(i) = row.close
  <2>1. OrderType(i.role) = "LOC"
    BY <1>2 DEF OrderType, BuyRole
  <2> QED BY <1>2, <2>1 DEF Fills, FillPrice
<1>4. \A j \in todo : ~AvgThenStar(j, i)
  <2>1. SUFFICES ASSUME NEW j \in todo, AvgThenStar(j, i) PROVE FALSE
    OBVIOUS
  <2>2. Rank(i) = 2 /\ Rank(j) = 1
    BY <2>1 DEF Rank, AvgThenStar
  <2>3. Rank(i) <= Rank(j)
    BY DEF IsNext
  <2> QED BY <2>2, <2>3
<1>5. PICK r : r = ApplyFill(state, i, filled, row.close, fee)
  OBVIOUS
<1>6. /\ StateOK(r) /\ PoolOK(r) /\ BuyOrdersOK(r, todo \ {i})
      /\ r.day = state.day /\ r.mode = state.mode
      /\ r.quantity = state.quantity + filled
      /\ r.cost = state.cost + row.close * filled + fee
  <2>1. PICK price \in Nat : price = row.close
    BY <1>1
  <2>2. /\ price >= Tick /\ price <= i.limit
        /\ FeeDen * fee <= price * filled /\ price * filled + fee <= state.cash
        /\ r = ApplyFill(state, i, filled, price, fee)
    BY <1>1, <1>3, <1>5, <2>1
  <2>3. /\ StateOK(r) /\ PoolOK(r) /\ BuyOrdersOK(r, todo \ {i})
        /\ Bought(state, filled, price, fee, r)
    BY <1>1, <1>4, <2>2, BuyFillOK
  <2> QED BY <2>1, <2>3 DEF Bought
<1>7. ~FillRaises(state, i, filled, row.close, fee)
  <2>1. ~(row.close * filled + fee > state.cash)
    <3>1. row.close * filled + fee \in Nat /\ state.cash \in Nat
      BY <1>1, StateFields
    <3> QED BY <3>1
  <2> QED BY <1>2, <2>1 DEF FillRaises
<1>8. state' = r /\ phase' = "BUY" /\ paid' = PaidAfter(i, row.close)
  BY <1>3, <1>5, <1>7 DEF Apply
<1>9. /\ UNCHANGED <<setup, row, closes>> /\ row.day \in Nat
      /\ Sells \in Nat /\ Sells' = Sells
  <2>1. row.day \in Nat /\ Sells \in Nat /\ Sells = 2 * row.day
    BY SellsOK
  <2>2. Sells' = 2 * row.day
    BY <1>8 DEF Sells, Untouched
  <2> QED BY <2>1, <2>2 DEF Untouched
<1>10. paid' \in Paid /\ AverageOK(r, paid', Sells)
  <2>1. state.quantity \in Nat /\ state.cost \in Nat
    BY <1>1, StateFields
  <2>2. r.quantity > 0 /\ r.quantity # 0
    BY <1>6, <2>1
  <2>3. CASE state.quantity = 0
    <3>1. paid' = [lo |-> row.close, hi |-> row.close]
      BY <1>2, <1>8, <2>2, <2>3 DEF PaidAfter
    <3>2. state.cost = 0
      BY <1>1, <2>3 DEF StateOK
    <3>3. /\ row.close * state.quantity <= state.cost
          /\ FeeDen * (state.cost - Sells) <= (FeeDen + 1) * row.close * state.quantity
      <4>1. row.close * 0 = 0 /\ (FeeDen + 1) * row.close * 0 = 0
        BY <1>1, Units
      <4>2. FeeDen * (0 - Sells) <= 0
        BY <1>9, Units
      <4> QED BY <2>3, <3>2, <4>1, <4>2
    <3>4. /\ row.close * (state.quantity + filled) <= r.cost
          /\ FeeDen * (r.cost - Sells)
               <= (FeeDen + 1) * row.close * (state.quantity + filled)
      <4>1. PICK c \in Nat, q \in Nat, price \in Nat, k \in Nat :
              c = state.cost /\ q = state.quantity /\ price = row.close /\ k = Sells
        BY <1>1, <1>9, <2>1
      <4>2. /\ FeeDen \in Nat /\ FeeDen * fee <= price * filled /\ price <= price
            /\ price * q <= c /\ FeeDen * (c - k) <= (FeeDen + 1) * price * q
        BY <3>3, <4>1, Units
      <4>3. /\ price * (q + filled) <= c + price * filled + fee
            /\ FeeDen * (c + price * filled + fee - k)
                 <= (FeeDen + 1) * price * (q + filled)
        BY <4>2, AverageBuy
      <4> QED BY <1>6, <4>1, <4>3
    <3> QED BY <1>1, <1>6, <3>1, <3>4 DEF AverageOK, Paid, Price
  <2>4. CASE state.quantity # 0
    <3>1. PICK lo \in Nat, hi \in Nat :
            /\ paid' = [lo |-> lo, hi |-> hi]
            /\ lo <= row.close /\ row.close <= hi /\ lo <= paid.lo /\ paid.hi <= hi
            /\ lo \in {paid.lo, row.close}
      <4>1. paid' = [lo |-> Smaller(paid.lo, row.close), hi |-> Larger(paid.hi, row.close)]
        BY <1>2, <1>8, <2>2, <2>4 DEF PaidAfter
      <4>2. PICK a \in Nat, b \in Nat, c \in Nat :
              a = paid.lo /\ b = paid.hi /\ c = row.close
        BY <1>1
      <4>3. PICK lo \in Nat : lo = Smaller(a, c) /\ lo <= c /\ lo <= a /\ lo \in {a, c}
        BY DEF Smaller
      <4>4. PICK hi \in Nat : hi = Larger(b, c) /\ c <= hi /\ b <= hi
        BY DEF Larger
      <4>5. paid' = [lo |-> lo, hi |-> hi]
        BY <4>1, <4>2, <4>3, <4>4
      <4> QED BY <4>2, <4>3, <4>4, <4>5
    <3>2. /\ paid.lo >= Tick /\ paid.lo * state.quantity <= state.cost
          /\ FeeDen * (state.cost - Sells) <= (FeeDen + 1) * paid.hi * state.quantity
      BY <1>1, <2>1, <2>4 DEF AverageOK
    <3>3. /\ lo * state.quantity <= state.cost
          /\ FeeDen * (state.cost - Sells) <= (FeeDen + 1) * hi * state.quantity
      BY <1>1, <1>9, <2>1, <3>1, <3>2, Units, AverageLoosen
    <3>4. /\ lo * (state.quantity + filled) <= r.cost
          /\ FeeDen * (r.cost - Sells)
               <= (FeeDen + 1) * hi * (state.quantity + filled)
      <4>1. PICK c \in Nat, q \in Nat, price \in Nat, k \in Nat :
              c = state.cost /\ q = state.quantity /\ price = row.close /\ k = Sells
        BY <1>1, <1>9, <2>1
      <4>2. /\ FeeDen \in Nat /\ FeeDen * fee <= price * filled
            /\ lo <= price /\ price <= hi
            /\ lo * q <= c /\ FeeDen * (c - k) <= (FeeDen + 1) * hi * q
        BY <3>1, <3>3, <4>1, Units
      <4>3. /\ lo * (q + filled) <= c + price * filled + fee
            /\ FeeDen * (c + price * filled + fee - k)
                 <= (FeeDen + 1) * hi * (q + filled)
        BY <4>2, AverageBuy
      <4> QED BY <1>6, <4>1, <4>3
    <3>5. lo >= Tick
      BY <1>1, <3>1, <3>2
    <3> QED BY <1>6, <3>1, <3>4, <3>5 DEF AverageOK, Paid, Price
  <2> QED BY <2>3, <2>4
<1>11. AverageOK(state, paid, Sells)'
  BY <1>8, <1>9, <1>10
<1>12. DayOK'
  BY <1>6, <1>8, <1>9 DEF IInv, DayOK
<1> QED BY <1>1, <1>6, <1>8, <1>9, <1>10, <1>11, <1>12 DEF IInv

(* IInv lets only planned orders be worked off, each in its phase.         *)
LEMMA OrderOK ==
    ASSUME IInv, NEW i \in todo
    PROVE  /\ i \in OrderIntent /\ i.qty \in Nat \ {0} /\ i.limit \in Nat
           /\ phase = "SELL" => i.role \notin BuyRole /\ i.qty <= state.quantity
           /\ phase = "BUY" => i.role \in BuyRole /\ Value(i) <= state.cash
           /\ phase \in {"SELL", "BUY"}
           /\ FillPrice(i) \in Nat
           /\ row.close \in Nat /\ row.close >= Tick
           /\ state.cash \in Nat /\ state.quantity \in Nat
<1>1. /\ todo \subseteq OrderIntent /\ phase \in {"SELL", "BUY"}
      /\ row.close \in Nat /\ row.close >= Tick
      /\ state.cash \in Nat /\ state.quantity \in Nat
  BY StateFields DEF IInv, SellOrdersOK, BuyOrdersOK, StateOK, PriceRow, Price
<1>2. i \in OrderIntent /\ i.qty \in Nat \ {0} /\ i.limit \in Nat
  BY <1>1 DEF OrderIntent
<1>3. phase = "SELL" => i.role \notin BuyRole /\ i.qty <= state.quantity
  BY DEF IInv, SellOrdersOK, SellRole, BuyRole
<1>4. phase = "BUY" => i.role \in BuyRole /\ Value(i) <= state.cash
  BY DEF IInv, BuyOrdersOK
<1>5. FillPrice(i) \in Nat
  BY <1>1, <1>2 DEF FillPrice
<1> QED BY <1>1, <1>2, <1>3, <1>4, <1>5

(* A buy fills at the close, which is at most its limit.                   *)
LEMMA BuyPrice ==
    ASSUME NEW i, i.role \in BuyRole
    PROVE  FillPrice(i) = row.close /\ (Fills(i) => row.close <= i.limit)
<1>1. OrderType(i.role) = "LOC"
  BY DEF OrderType, BuyRole
<1> QED BY <1>1 DEF Fills, FillPrice

(* What the cash affords, it pays with the fee.                            *)
LEMMA AffordableOK ==
    ASSUME NEW F \in Nat, F >= 3, NEW cash \in Nat, NEW price \in Nat \ {0},
           NEW n \in Nat, n <= (cash * F) \div (price * (F + 1)),
           NEW fee \in Nat, F * fee <= price * n
    PROVE  price * n + fee <= cash
<1>1. PICK m \in Nat \ {0} : m = price * (F + 1)
  OBVIOUS
<1>2. PICK x \in Nat : x = (cash * F) \div m /\ m * x <= cash * F /\ n <= x
  <2>1. cash * F \in Nat
    OBVIOUS
  <2> QED BY <1>1, <2>1, DivBounds
<1>3. m * n <= cash * F
  <2>1. n * m <= x * m
    BY <1>1, <1>2, Times
  <2>2. n * m = m * n /\ x * m = m * x /\ m * n \in Nat /\ m * x \in Nat /\ cash * F \in Nat
    BY <1>1, <1>2
  <2> QED BY <1>2, <2>1, <2>2
<1>4. PICK v \in Nat : v = price * n
  OBVIOUS
<1>5. m * n = v * F + v
  BY <1>1, <1>4
<1>6. (v + fee) * F <= cash * F
  <2>1. (v + fee) * F = v * F + F * fee
    BY <1>4
  <2>2. v * F \in Nat /\ F * fee \in Nat /\ cash * F \in Nat
    BY <1>4
  <2> QED BY <1>3, <1>4, <1>5, <2>1, <2>2
<1>7. v + fee <= cash
  <2>1. v + fee \in Nat /\ F \in Nat \ {0}
    BY <1>4
  <2> QED BY <1>6, <2>1, TimesCancel
<1> QED BY <1>4, <1>7

(* The backtest works off an order.                                        *)
LEMMA BacktestOrderInv ==
    ASSUME IInv, BacktestOrder
    PROVE  IInv'
<1>1. PICK i \in todo :
        /\ IsNext(i)
        /\ IF Fills(i) /\ FilledQty(i) > 0
             THEN Apply(i, FilledQty(i), (FillPrice(i) * FilledQty(i)) \div FeeDen)
             ELSE NotFilled
        /\ todo' = todo \ {i}
  BY DEF BacktestOrder
<1>2. Untouched
  BY DEF BacktestOrder, Untouched
<1>3. CASE ~(Fills(i) /\ FilledQty(i) > 0)
  BY <1>1, <1>2, <1>3, NotFilledInv
<1>4. CASE Fills(i) /\ FilledQty(i) > 0
  <2>1. /\ i.qty \in Nat \ {0} /\ FillPrice(i) \in Nat
        /\ state.cash \in Nat /\ state.quantity \in Nat
        /\ row.close \in Nat /\ row.close >= Tick /\ phase \in {"SELL", "BUY"}
    BY OrderOK
  <2>2. FeeDen \in Nat \ {0} /\ FeeDen >= 3 /\ row.close \in Nat \ {0}
    BY <2>1, Units
  <2>3. CASE phase = "SELL"
    <3>1. i.role \notin BuyRole
      BY <2>3, OrderOK
    <3>2. PICK n \in Nat \ {0} : n = FilledQty(i) /\ n <= i.qty
      <4>1. FilledQty(i) = Smaller(i.qty, state.quantity)
        BY <3>1 DEF FilledQty
      <4> QED BY <1>4, <2>1, <4>1 DEF Smaller
    <3>3. PICK price \in Nat : price = FillPrice(i)
      BY <2>1
    <3>4. PICK fee \in Nat : fee = (price * n) \div FeeDen /\ fee <= price * n
      <4>1. price * n \in Nat
        OBVIOUS
      <4>2. (price * n) \div FeeDen \in Nat
        BY <2>2, <4>1, DivBounds
      <4>3. price * n <= (price * n) * FeeDen
        <5>1. PICK v \in Nat : v = price * n
          BY <4>1
        <5>2. 1 * v <= FeeDen * v
          BY <2>2, <5>1, Times
        <5>3. FeeDen * v = v * FeeDen /\ 1 * v = v
          BY <2>2
        <5> QED BY <5>1, <5>2, <5>3
      <4> QED BY <2>2, <4>1, <4>2, <4>3, DivAtMost
    <3>5. Apply(i, n, fee) /\ fee <= FillPrice(i) * n
      BY <1>1, <1>4, <3>2, <3>3, <3>4
    <3> QED BY <1>1, <1>2, <2>3, <3>2, <3>5, SellInv
  <2>4. CASE phase = "BUY"
    <3>1. i.role \in BuyRole
      BY <2>4, OrderOK
    <3>2. FillPrice(i) = row.close
      BY <3>1, BuyPrice
    <3>3. Affordable(row.close) \in Nat
      <4>1. row.close * (FeeDen + 1) \in Nat \ {0} /\ state.cash * FeeDen \in Nat
        BY <2>1, <2>2
      <4> QED BY <4>1, DivBounds DEF Affordable
    <3>4. PICK n \in Nat \ {0} : n = FilledQty(i) /\ n <= i.qty /\ n <= Affordable(row.close)
      <4>1. FilledQty(i) = Smaller(i.qty, Affordable(row.close))
        BY <3>1, <3>2 DEF FilledQty
      <4> QED BY <1>4, <2>1, <3>3, <4>1 DEF Smaller
    <3>5. PICK price \in Nat \ {0}, cash \in Nat : price = row.close /\ cash = state.cash
      BY <2>1, <2>2
    <3>6. PICK fee \in Nat : fee = (price * n) \div FeeDen /\ FeeDen * fee <= price * n
      <4>1. price * n \in Nat
        OBVIOUS
      <4> QED BY <2>2, <4>1, DivBounds
    <3>7. price * n + fee <= cash
      <4>1. n <= (cash * FeeDen) \div (price * (FeeDen + 1))
        BY <3>4, <3>5 DEF Affordable
      <4> QED BY <2>2, <3>6, <4>1, AffordableOK
    <3>8. Apply(i, n, fee)
      BY <1>1, <1>4, <3>2, <3>4, <3>5, <3>6
    <3>9. FeeDen * fee <= row.close * n /\ row.close * n + fee <= state.cash
      BY <3>5, <3>6, <3>7
    <3> QED BY <1>1, <1>2, <1>4, <2>4, <3>4, <3>8, <3>9, BuyInv
  <2> QED BY <2>1, <2>3, <2>4
<1> QED BY <1>3, <1>4

(* A replay works off an order, as far as the file says it filled.         *)
LEMMA ReplayOrderInv ==
    ASSUME IInv, ReplayOrder
    PROVE  IInv'
<1>1. PICK i \in todo :
        /\ IsNext(i)
        /\ \/ NotFilled
           \/ Fills(i) /\ \E filled \in 1..i.qty : Apply(i, filled, 0)
        /\ todo' = todo \ {i}
  BY DEF ReplayOrder
<1>2. Untouched
  BY DEF ReplayOrder, Untouched
<1>3. CASE NotFilled
  BY <1>1, <1>2, <1>3, NotFilledInv
<1>4. CASE Fills(i) /\ \E filled \in 1..i.qty : Apply(i, filled, 0)
  <2>1. /\ i.qty \in Nat \ {0} /\ i.limit \in Nat /\ FillPrice(i) \in Nat
        /\ state.cash \in Nat /\ row.close \in Nat /\ phase \in {"SELL", "BUY"}
    BY OrderOK
  <2>2. PICK filled \in Nat \ {0}, fee \in Nat :
          filled <= i.qty /\ fee = 0 /\ Apply(i, filled, fee)
    <3>1. PICK filled \in 1..i.qty : Apply(i, filled, 0)
      BY <1>4
    <3>2. filled \in Nat \ {0} /\ filled <= i.qty
      BY <2>1, <3>1
    <3> QED BY <3>1, <3>2
  <2>3. CASE phase = "SELL"
    <3>1. fee <= FillPrice(i) * filled
      <4>1. FillPrice(i) * filled \in Nat
        BY <2>1
      <4> QED BY <2>2, <4>1
    <3> QED BY <1>1, <1>2, <2>2, <2>3, <3>1, SellInv
  <2>4. CASE phase = "BUY"
    <3>1. i.role \in BuyRole /\ Value(i) <= state.cash
      BY <2>4, OrderOK
    <3>2. row.close <= i.limit
      BY <1>4, <3>1, BuyPrice
    <3>3. PICK v \in Nat : v = row.close * filled /\ v <= state.cash
      <4>1. row.close * filled <= i.limit * filled
        BY <2>1, <3>2, Times
      <4>2. filled * i.limit <= i.qty * i.limit
        BY <2>1, <2>2, Times
      <4>3. /\ i.limit * filled = filled * i.limit /\ filled * i.limit \in Nat
            /\ i.qty * i.limit \in Nat /\ row.close * filled \in Nat
        BY <2>1
      <4>4. i.qty * i.limit <= state.cash
        BY <3>1 DEF Value
      <4> QED BY <2>1, <4>1, <4>2, <4>3, <4>4
    <3>4. FeeDen * fee <= row.close * filled /\ row.close * filled + fee <= state.cash
      <4>1. FeeDen * 0 = 0
        BY Units
      <4> QED BY <2>1, <2>2, <3>3, <4>1
    <3> QED BY <1>1, <1>2, <1>4, <2>2, <2>4, <3>4, BuyInv
  <2> QED BY <2>1, <2>3, <2>4
<1> QED BY <1>1, <1>3, <1>4

(* Every step keeps the invariant.                                         *)
LEMMA NextInv == IInv /\ [Next]_vars => IInv'
<1> SUFFICES ASSUME IInv, [Next]_vars PROVE IInv'
  OBVIOUS
<1>1. CASE StartSession
  BY <1>1, StartSessionInv
<1>2. CASE BacktestOrder
  BY <1>2, BacktestOrderInv
<1>3. CASE ReplayOrder
  BY <1>3, ReplayOrderInv
<1>4. CASE PlanBuys
  BY <1>4, PlanBuysInv
<1>5. CASE UNCHANGED vars
  BY <1>5 DEF vars, IInv, StateOK, PoolOK, PoolBeforeBuys, AverageOK, DayOK,
              SellOrdersOK, BuyOrdersOK, Sells, Left
<1> QED BY <1>1, <1>2, <1>3, <1>4, <1>5 DEF Next

(* The invariant holds in every reachable state.                           *)
LEMMA AlwaysIInv == Spec => []IInv
<1> QED BY InitInv, NextInv, PTL DEF Spec

-----------------------------------------------------------------------------
(* Every strategy state and every order passes the checks of its           *)
(* __post_init__, whatever fills and in whatever part.                     *)
THEOREM BacktestTypes == Spec => []TypeOK
<1>1. IInv => TypeOK
  <2> SUFFICES ASSUME IInv PROVE TypeOK
    OBVIOUS
  <2>1. /\ setup \in Setups /\ phase \in Phase /\ row \in PriceRow
        /\ closes \in [1..5 -> Price] /\ paid \in Paid
    BY DEF IInv, Phase
  <2>2. state \in StrategyState /\ (state.quantity = 0 => state.cost = 0)
    BY DEF IInv, StateOK
  <2>3. todo \subseteq OrderIntent
    BY DEF IInv, SellOrdersOK, BuyOrdersOK
  <2> QED BY <2>1, <2>2, <2>3 DEF TypeOK
<1> QED BY <1>1, AlwaysIInv, PTL

(* apply_fill and StrategyState refuse no fill of a planned order: with    *)
(* any fee rate up to a third the backtest gets to its end, and a replay   *)
(* with whatever part of the orders was filled.                            *)
THEOREM NoFillRefused == Spec => []NeverRaises
<1>1. IInv => NeverRaises
  BY DEF IInv, NeverRaises
<1> QED BY <1>1, AlwaysIInv, PTL

(* _sell_specs and _buy_specs: whatever has been filled so far, the orders *)
(* still to come sell no more shares than are held and spend no more money *)
(* than there is.                                                          *)
THEOREM PlansStayCovered == Spec => []PlanCovered
<1>1. ASSUME IInv, phase = "SELL"
      PROVE  SumFunctionOnSet([i \in todo |-> i.qty], todo) <= state.quantity
  <2>1. SellOrdersOK(state, todo) /\ state.quantity \in Nat
    BY <1>1, StateFields DEF IInv, StateOK
  <2> DEFINE f == [i \in todo |-> i.qty]
  <2>2. \A i \in todo : f[i] = i.qty /\ i.qty \in Nat
    BY <2>1 DEF SellOrdersOK, OrderIntent
  <2>3. /\ \A i \in todo : f[i] \in Nat /\ f[i] <= state.quantity
        /\ \A i, j \in todo : i # j => f[i] + f[j] <= state.quantity
    BY <2>1, <2>2 DEF SellOrdersOK
  <2>4. AtMostTwo(todo)
    BY <2>1 DEF SellOrdersOK
  <2> HIDE DEF f
  <2>5. SumFunctionOnSet(f, todo) <= state.quantity
    BY <2>1, <2>3, <2>4, SumOfTwo
  <2> QED BY <2>5 DEF f
<1>2. ASSUME IInv, phase = "BUY"
      PROVE  SumFunctionOnSet([i \in todo |-> i.qty * i.limit], todo) <= state.cash
  <2>1. BuyOrdersOK(state, todo) /\ state.cash \in Nat
    BY <1>2, StateFields DEF IInv, StateOK
  <2> DEFINE f == [i \in todo |-> i.qty * i.limit]
  <2>2. ASSUME NEW i \in todo
        PROVE  f[i] = Value(i) /\ Value(i) \in Nat /\ Value(i) <= state.cash
    <3>1. i.qty \in Nat /\ i.limit \in Nat
      BY <2>1 DEF BuyOrdersOK, OrderIntent
    <3>2. f[i] = Value(i) /\ Value(i) \in Nat
      BY <3>1 DEF Value
    <3> QED BY <2>1, <3>2 DEF BuyOrdersOK
  <2> HIDE DEF f
  <2>3. ASSUME NEW i \in todo, NEW j \in todo, AvgThenStar(i, j)
        PROVE  Value(i) + Value(j) <= state.cash
    <3>1. (FeeDen + 1) * Value(i) + FeeDen * Value(j) <= FeeDen * state.cash
      BY <2>1, <2>3 DEF BuyOrdersOK
    <3>2. PICK a \in Nat, b \in Nat, c \in Nat, F \in Nat \ {0} :
            a = Value(i) /\ b = Value(j) /\ c = state.cash /\ F = FeeDen
      BY <2>1, <2>2, Units
    <3>3. (a + b) * F <= c * F
      <4>1. (F + 1) * a + F * b <= F * c
        BY <3>1, <3>2
      <4>2. (F + 1) * a + F * b = (a + b) * F + a /\ F * c = c * F
        OBVIOUS
      <4>3. (a + b) * F \in Nat /\ c * F \in Nat
        OBVIOUS
      <4> QED BY <4>1, <4>2, <4>3
    <3>4. a + b <= c
      <4>1. a + b \in Nat
        OBVIOUS
      <4> QED BY <3>3, <4>1, TimesCancel
    <3> QED BY <3>2, <3>4
  <2>4. ASSUME NEW i \in todo, NEW j \in todo, i # j
        PROVE  f[i] + f[j] <= state.cash
    <3>1. AvgThenStar(i, j) \/ AvgThenStar(j, i)
      BY <2>1, <2>4 DEF BuyOrdersOK
    <3>2. Value(i) + Value(j) <= state.cash
      <4>1. Value(i) \in Nat /\ Value(j) \in Nat
        BY <2>2
      <4>2. CASE AvgThenStar(i, j)
        BY <2>3, <4>2
      <4>3. CASE AvgThenStar(j, i)
        <5>1. Value(j) + Value(i) <= state.cash
          BY <2>3, <4>3
        <5> QED BY <4>1, <5>1
      <4> QED BY <3>1, <4>2, <4>3
    <3> QED BY <2>2, <3>2
  <2>5. \A i \in todo : f[i] \in Nat /\ f[i] <= state.cash
    BY <2>2
  <2>6. AtMostTwo(todo)
    BY <2>1 DEF BuyOrdersOK
  <2>7. SumFunctionOnSet(f, todo) <= state.cash
    BY <2>1, <2>4, <2>5, <2>6, SumOfTwo
  <2> QED BY <2>7 DEF f
<1>3. IInv => PlanCovered
  BY <1>1, <1>2 DEF PlanCovered
<1> QED BY <1>3, AlwaysIInv, PTL

(* prepare_state and _buy_specs: the buys of a REVERSE mode stay within    *)
(* the cash there was when it began, and use up to a quarter of it in each *)
(* session after the first.                                                *)
THEOREM PoolNeverOverspent == Spec => []PoolLasts
<1>1. IInv => PoolLasts
  BY DEF IInv, PoolOK, PoolLasts
<1> QED BY <1>1, AlwaysIInv, PTL

(* apply_fill: whatever was bought and sold in parts, the average cost of  *)
(* a position lies between the lowest and the highest price paid in its    *)
(* cycle, fees and two units of rounding per session on top.               *)
THEOREM AverageBetweenPrices == Spec => []AverageWithinPaid
<1>1. ASSUME IInv, state.quantity > 0
      PROVE  /\ paid.lo * state.quantity <= state.cost
             /\ FeeDen * (state.cost - 2 * setup.sessions)
                  <= (FeeDen + 1) * paid.hi * state.quantity
  <2>1. /\ paid.lo * state.quantity <= state.cost
        /\ FeeDen * (state.cost - Sells) <= (FeeDen + 1) * paid.hi * state.quantity
    BY <1>1 DEF IInv, AverageOK
  <2>2. PICK c \in Nat, q \in Nat, lo \in Nat, hi \in Nat :
          c = state.cost /\ q = state.quantity /\ lo = paid.lo /\ hi = paid.hi
    <3>1. state \in StrategyState /\ paid \in Paid
      BY <1>1 DEF IInv, StateOK
    <3> QED BY <3>1, StateFields DEF Paid, Price
  <2>3. PICK k \in Nat, k2 \in Nat : k = Sells /\ k2 = 2 * setup.sessions /\ k <= k2
    <3>1. row.day \in Nat /\ setup.sessions \in Nat /\ row.day <= setup.sessions
      BY <1>1, SellsOK, SetupFields DEF IInv, DayOK
    <3>2. Sells \in Nat /\ Sells <= 2 * row.day
      BY <1>1, <3>1, SellsOK DEF IInv
    <3> QED BY <3>1, <3>2
  <2>4. /\ FeeDen \in Nat /\ lo <= lo /\ hi <= hi /\ lo * q <= c
        /\ FeeDen * (c - k) <= (FeeDen + 1) * hi * q
    BY <2>1, <2>2, <2>3, Units
  <2>5. FeeDen * (c - k2) <= (FeeDen + 1) * hi * q
    BY <2>3, <2>4, AverageLoosen
  <2> QED BY <2>1, <2>2, <2>3, <2>5
<1>2. IInv => AverageWithinPaid
  BY <1>1 DEF AverageWithinPaid
<1> QED BY <1>2, AlwaysIInv, PTL

(* T stays below division_count, where one_buy_amount would divide by      *)
(* zero, and what is sold out has used no division.                        *)
TBelowDivisions == state.t < FullT /\ (state.quantity = 0 => state.t = 0)

(* No sequence of whole or partial fills takes T to division_count, and    *)
(* selling everything takes it back to zero.                               *)
THEOREM DivisionsRemain == Spec => []TBelowDivisions
<1>1. IInv => TBelowDivisions
  BY DEF IInv, StateOK, TBelowDivisions
<1> QED BY <1>1, AlwaysIInv, PTL
=============================================================================

----------------------------- MODULE MCBacktest -----------------------------
(* Instances of Backtest.                                                  *)
EXTENDS Backtest

Steady == [k \in 1..5 |-> 100]
Setting(engine, sessions, prices, spikes) ==
    [engine |-> engine, capital |-> 1000, warmup |-> Steady,
     sessions |-> sessions, closes |-> prices, spikes |-> spikes]

(* A backtest over falls, rises to the star and jumps to the target, and a *)
(* replay of falls in which any part of an order may be filled.            *)
Histories == {Setting("backtest", 8, {66, 90, 104, 120}, {0, 14}),
              Setting("replay", 7, {66, 90}, {0})}

(* A fall to REVERSE mode and a recovery that just ends it.                *)
FallAndRecovery == {Setting("backtest", 11, {64, 66, 90}, {0})}
=============================================================================

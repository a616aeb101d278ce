----------------------------- MODULE MCWeather ------------------------------
(* Instances of Weather.                                                   *)
EXTENDS Weather

CONSTANTS p1, p2

(* One process, any market and an early file; any file for which there is  *)
(* no weather yet, opened by one process or by two; two processes that     *)
(* update the weather of a young symbol.                                   *)
OneOrTwoOpeners ==
    [openers : {{p1}}, file : {"early v2"}, market : {"any"}, candles : {2}]
    \cup [openers : {{p1}, {p1, p2}}, file : File, market : {"turn"},
          candles : {LastSession + 1}]
    \cup [openers : {{p1, p2}}, file : {"early v2"}, market : {"turn"},
          candles : {2}]

CandlesOf(s) == s.candles

(* Stress that ends before the first update.                               *)
Turn == [d \in Session |-> IF d < FirstEnd - 1 THEN "red" ELSE "thawing"]

(* A year that is cut short says the same, or hides all stress.            *)
Same(whole) == [d \in Session |-> [n \in 1..YearLength |-> whole[d]]]
Hidden(whole) ==
    [d \in Session |-> [n \in 1..YearLength |->
        IF n < YearLength THEN "thawing" ELSE whole[d]]]

MarketsOf(s) ==
    IF s.market = "turn" THEN {Same(Turn)}
    ELSE LET wholes == [Session -> {"red", "thawing"}]
         IN  {Same(w) : w \in wholes} \cup {Hidden(w) : w \in wholes}
=============================================================================

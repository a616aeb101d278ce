---------------------------- MODULE MCMarketData ----------------------------
(* Instances of MarketData.                                                *)
EXTENDS MarketData

CONSTANTS tqqq, soxl, c1, c2

(* Two files and one collector, or one file and two collectors.            *)
FilesOrCollectors ==
    {[symbols |-> <<tqqq, soxl>>, collectors |-> {c1}],
     [symbols |-> <<tqqq>>, collectors |-> {c1, c2}]}
=============================================================================

-------------------------- MODULE MCCapitalLedger --------------------------
(* Instances of CapitalLedger.                                             *)
EXTENDS CapitalLedger, TLC

CONSTANTS p1, p2, f1

(* Two processes that may die anywhere, or one that is left to finish.     *)
Pair == {{p1, p2}}
Solo == {{p1}, {p2}}
PairOrSolo == Pair \cup Solo

(* Two full cycles for the single process, one and a half for the pair.    *)
FillsPerTeam == <<4, 3>>
WritesPerTeam == <<1, 0>>

(* A sell-out at a loss; the .cfg syntax has no negative numbers.          *)
Losses == {-1}

(* Processes run the same code.                                            *)
AnyOrder == Permutations({p1, p2})
=============================================================================

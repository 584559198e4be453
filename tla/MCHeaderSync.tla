---------------------------- MODULE MCHeaderSync ----------------------------
(* All block trees over a few hashes, or one fork with a heavy branch. *)
EXTENDS HeaderSync, BlockTrees

AllTrees == TreesOver(Hash, Genesis, NoHash)

UnitDifficulty == [h \in Hash |-> 1]

(* Block 1 and a branch 3, 4, 5 beside it, whose first block is heavier. *)
ForkTree == {[h \in Hash |-> IF h = Genesis THEN NoHash ELSE IF h <= 3 THEN Genesis ELSE h - 1]}

ForkDifficulty == [h \in Hash |-> IF h = 3 THEN 2 ELSE 1]
=============================================================================

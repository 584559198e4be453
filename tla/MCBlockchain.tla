---------------------------- MODULE MCBlockchain ----------------------------
(* All block trees over a few hashes, and files of one or two blocks.  One *)
(* block weighs as much as two, so that a shorter branch can be the        *)
(* heavier one.                                                            *)
EXTENDS Blockchain, BlockTrees

AllTrees == TreesOver(Hash, Genesis, NoHash)

OneOrTwo == {<<h>> : h \in Hash} \cup {f \in Hash \X Hash : f[1] # f[2]}

HeavyBlock == [h \in Hash |-> IF h = Max(Hash) THEN 2 ELSE 1]

(* Seven blocks with which an orphan's id is given out again: the light    *)
(* block 2, and from 3 the branches 6, 4 and 5, 7.  Block 4 comes before   *)
(* its parent.                                                             *)
ReusedIdTree ==
  {[h \in Hash |-> CASE h = Genesis -> NoHash [] h \in {2, 3} -> 1 [] h \in {5, 6} -> 3
                      [] h = 4 -> 6 [] h = 7 -> 5]}

ReusedIdFiles == {<<1, 2>>, <<3, 4>>, <<5>>, <<6>>, <<7>>}

ReusedIdDifficulty == [h \in Hash |-> IF h = 7 THEN 5 ELSE IF h = 3 THEN 2 ELSE 1]
=============================================================================

----------------------------- MODULE MCHistory -----------------------------
(* Two branches and a side block; hash 4 is the genesis block:             *)
(*                                                                         *)
(*      4 - 1 - 2 - 3                                                      *)
(*       \       \ 6                                                       *)
(*        5 - 7 - 8                                                        *)
EXTENDS History, Functions, TLC

Parent == (1 :> 4) @@ (2 :> 1) @@ (3 :> 2) @@ (5 :> 4) @@ (6 :> 2) @@ (7 :> 5) @@ (8 :> 7)

TreeChain ==
  LET up[n \in 0 .. 3] ==
        IF n = 0 THEN [b \in Block |-> {b}]
        ELSE [b \in Block |-> up[n - 1][b] \cup {Parent[c] : c \in up[n - 1][b] \ {4}}]
  IN up[3]

TreeHeight == [b \in Block |-> Cardinality(TreeChain[b]) - 1]

(* No two blocks with the same work, and a new top on one branch after the *)
(* other.                                                                  *)
DistinctWork ==
  [b \in Block |-> CASE b = 4 -> 1 [] b = 1 -> 2 [] b = 5 -> 3 [] b = 2 -> 4
                     [] b = 7 -> 5 [] b = 3 -> 6 [] b = 6 -> 8 [] b = 8 -> 9]

(* Every block adds the same work. *)
UnitWork == [b \in Block |-> TreeHeight[b] + 1]
=============================================================================

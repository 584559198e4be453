----------------------------- MODULE BlockTrees -----------------------------
(* The block trees the models are checked on. *)
EXTENDS Naturals, FiniteSets

(* Every getPrevHash function on the blocks H that leads to the genesis    *)
(* block, which has no parent.                                             *)
TreesOver(H, genesis, none) ==
  LET leads(p) ==
        LET r[n \in 0 .. Cardinality(H)] ==
              IF n = 0 THEN {genesis} ELSE {h \in H : p[h] \in r[n - 1]} \cup r[n - 1]
        IN r[Cardinality(H)] IN
  {p \in [H -> H \cup {none}] : p[genesis] = none /\ leads(p) = H}
=============================================================================

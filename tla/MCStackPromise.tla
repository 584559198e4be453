--------------------------- MODULE MCStackPromise ---------------------------
(* Model values for StackPromise. *)
EXTENDS StackPromise, TLC

Sym == Permutations(Thread) \cup Permutations(Pair)
=============================================================================

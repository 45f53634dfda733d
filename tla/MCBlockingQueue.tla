--------------------------- MODULE MCBlockingQueue ---------------------------
(* An instance of BlockingQueue for TLC. *)
EXTENDS BlockingQueue, TLC

\* Nothing tells one thread from another, nor one value from another.
Symmetry == Permutations(Threads) \cup Permutations(Values)
=============================================================================

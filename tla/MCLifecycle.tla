---------------------------- MODULE MCLifecycle ----------------------------
(***************************************************************************)
(* The instances of Lifecycle.  The goroutines do the same things, and so  *)
(* do the connections: they may be exchanged.                              *)
(***************************************************************************)
EXTENDS Lifecycle, TLC

Symmetry == Permutations(Goroutines) \cup Permutations(Conns)
=============================================================================

------------------------------ MODULE MCLoader ------------------------------
(***************************************************************************)
(* An instance of Loader: who calls what.                                  *)
(***************************************************************************)
EXTENDS Loader, TLC

CONSTANTS g1, g2, g3

(* One goroutine loads, a second adds columns and closes, a third closes.  *)
MayLoading ==
  g1 :> {"table", "column", "finish"} @@ g2 :> {"column", "edges", "close"} @@
  g3 :> {"close"}
=============================================================================

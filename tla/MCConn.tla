------------------------------- MODULE MCConn -------------------------------
(***************************************************************************)
(* Instances of Conn: who does what on the connection.                     *)
(***************************************************************************)
EXTENDS Conn, TLC

CONSTANTS g1, g2, g3

(* Two goroutines share the connection, which the engine has to refuse, and *)
(* a Tx both may end; one interrupts it, and two close it.                 *)
MaySharing ==
  g1 :> {"query", "begin", "commit"} @@
  g2 :> {"interrupt", "rollback", "close"} @@
  g3 :> {"close"}

(* Two goroutines hand each other the connection, as a pool does, and the  *)
(* transactions they begin on it; the second interrupts and closes it,     *)
(* whoever has it.                                                         *)
MayOwning ==
  g1 :> {"query", "prepare", "execute", "begin", "commit", "tablename"} @@
  g2 :> {"query", "begin", "rollback", "interrupt", "close"}

(* One goroutine runs statements; nobody interrupts.                       *)
MayQuerying == g1 :> {"query"}

(* One goroutine begins a transaction and runs statements in it.           *)
MayBlock == g1 :> {"begin", "query"}

(* No statement spells a transaction; one may only end it; each may start  *)
(* and end one.                                                            *)
TextsNone == [g \in Goroutines |-> {}]
TextsEnding == [g \in Goroutines |-> {"end"}]
TextsBoth == [g \in Goroutines |-> {"start", "end"}]
=============================================================================

------------------------------- MODULE Handle -------------------------------
(***************************************************************************)
(* What the binding owes every handle the C library gave it: the handle is *)
(* passed to calls while it is open, it is freed once, never while a call  *)
(* has it, and never passed to a call after that.                          *)
(***************************************************************************)

CONSTANT Users  (* whatever may have the handle in hand *)

VARIABLES
  open,   (* whether the library's object exists           *)
  inside  (* the users that have the handle in hand        *)

handleVars == <<open, inside>>

Init == open = TRUE /\ inside = {}

Enter(u) ==
  /\ open
  /\ inside' = inside \cup {u}
  /\ UNCHANGED open

Leave(u) ==
  /\ inside' = inside \ {u}
  /\ UNCHANGED open

Free ==
  /\ open
  /\ inside = {}
  /\ open' = FALSE
  /\ UNCHANGED inside

Next ==
  \/ \E u \in Users : Enter(u) \/ Leave(u)
  \/ Free

Spec == Init /\ [][Next]_handleVars
=============================================================================

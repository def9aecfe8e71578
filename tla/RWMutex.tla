------------------------------ MODULE RWMutex ------------------------------
(***************************************************************************)
(* Go's sync.RWMutex as conn.go:33 uses it.  The part that matters is the  *)
(* preference for writers: a Lock is announced before it is granted, and   *)
(* an RLock that arrives after the announcement queues until that writer   *)
(* unlocks, even while other readers still hold the lock.  Unlock hands    *)
(* the lock to every queued reader at once.                                *)
(***************************************************************************)

CONSTANTS
  Goroutines,  (* the goroutines that take the lock *)
  NoOne        (* the writer when nobody writes     *)

ASSUME NoOneAssumption == NoOne \notin Goroutines

VARIABLES
  readers,  (* the goroutines holding the lock for reading           *)
  queued,   (* the goroutines whose RLock waits behind the writer    *)
  writer    (* the goroutine whose Lock is announced or granted      *)

muVars == <<readers, queued, writer>>

MuTypeOK ==
  /\ readers \subseteq Goroutines
  /\ queued \subseteq Goroutines
  /\ writer \in Goroutines \cup {NoOne}

MuInit ==
  /\ readers = {}
  /\ queued = {}
  /\ writer = NoOne

(* RLock: granted unless a writer is announced or inside.                  *)
RLock(g) ==
  \/ /\ writer = NoOne
     /\ readers' = readers \cup {g}
     /\ UNCHANGED <<queued, writer>>
  \/ /\ writer # NoOne
     /\ queued' = queued \cup {g}
     /\ UNCHANGED <<readers, writer>>

RUnlock(g) ==
  /\ readers' = readers \ {g}
  /\ UNCHANGED <<queued, writer>>

(* The first half of Lock: one writer at a time announces itself.          *)
Announce(g) ==
  /\ writer = NoOne
  /\ writer' = g
  /\ UNCHANGED <<readers, queued>>

(* The second half of Lock returns once the readers it found have left.    *)
Granted(g) == writer = g /\ readers = {}

Unlock(g) ==
  /\ writer' = NoOne
  /\ readers' = readers \cup queued
  /\ queued' = {}
=============================================================================

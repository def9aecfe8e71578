----------------------------- MODULE Lifecycle -----------------------------
(***************************************************************************)
(* Who gives the engine's memory back.  A DB, a Conn, a Stmt and a Rows    *)
(* each own one handle of the library, freed by Close, or by a cleanup     *)
(* that runtime.AddCleanup registered, once the collector finds the Go     *)
(* object unreachable; a Rows may hand its result to an Arrow consumer     *)
(* instead.  Goroutines, Close and the collector interleave here.          *)
(*                                                                         *)
(* A connection's and a database's lock is taken at its word, which Conn   *)
(* proves of the one and database.go writes the same way: Close waits      *)
(* until nobody is inside a call.  A Stmt and a Rows have no lock and are  *)
(* used by one goroutine at a time, which is the rule of rows.go:20-21.    *)
(***************************************************************************)
CONSTANTS
  Goroutines,
  DBs, Conns, Stmts, Results,  (* the handles that can be made, by kind    *)
  NoConn                       (* the connection of what has none          *)

Objects == DBs \cup Conns \cup Stmts \cup Results
OnConn == Stmts \cup Results      (* what keeps the Conn it was made on    *)
Locked == DBs \cup Conns          (* what has an RWMutex of its own        *)

ASSUME KindsAssumption ==
  /\ DBs \cap Conns = {} /\ DBs \cap OnConn = {} /\ Conns \cap OnConn = {}
  /\ Stmts \cap Results = {}
  /\ NoConn \notin Objects

VARIABLES
  lib,    (* the library's side: "none", "live", "freed", "given" to an    *)
          (* Arrow consumer, "released" by it, or freed "twice"            *)
  field,  (* the handle in the Go object: "none", "set", "nil"             *)
  armed,  (* the cleanup: "off", "armed", "queued" by the collector        *)
  conn,   (* the Conn that a Stmt or a Rows points at                      *)
  held,   (* the objects the program has a variable for                    *)
  op, on  (* per goroutine, the call it is in and its receiver             *)

vars == <<lib, field, armed, conn, held, op, on>>

(* The calls by receiver.  Of a DB and a Conn it is told apart only what   *)
(* they make; a "bind" makes nothing.  A "read" of a result needs the Rows *)
(* until it has copied what it reads; what is "lent" does not: a column's  *)
(* slice while the program reads it, and what GQLStatus asks the engine.   *)
Calls == {"use", "bind", "execute", "read", "lent", "export"}

CallsOf(o) ==
  {p \in Calls :
     \/ o \in Locked  /\ p = "use"
     \/ o \in Stmts   /\ p \in {"bind", "execute"}
     \/ o \in Results /\ p \in {"read", "lent", "export"}}

TypeOK ==
  /\ lib \in [Objects -> {"none", "live", "freed", "given", "released", "twice"}]
  /\ field \in [Objects -> {"none", "set", "nil"}]
  /\ armed \in [Objects -> {"off", "armed", "queued"}]
  /\ conn \in [OnConn -> Conns \cup {NoConn}]
  /\ held \subseteq Objects
  /\ op \in [Goroutines -> Calls \cup {"none"}]
  /\ on \in [Goroutines -> Objects \cup {NoConn}]
  /\ \A o \in Objects : field[o] = "none" => armed[o] = "off" /\ o \notin held

Init ==
  /\ lib = [o \in Objects |-> "none"]
  /\ field = [o \in Objects |-> "none"]
  /\ armed = [o \in Objects |-> "off"]
  /\ conn = [o \in OnConn |-> NoConn]
  /\ held = {}
  /\ op = [g \in Goroutines |-> "none"]
  /\ on = [g \in Goroutines |-> NoConn]

----------------------------------------------------------------------------
(* Who can reach what, and who is where.                                   *)

Calling(o) == {g \in Goroutines : on[g] = o}

(* The goroutines holding o's lock for reading: those in a call on it, and *)
(* those executing a Stmt of it or exporting a Rows of it.                 *)
Reading(o) ==
  {g \in Goroutines :
     \/ on[g] = o
     \/ op[g] \in {"execute", "export"} /\ conn[on[g]] = o}

(* A method keeps its receiver reachable until its last use of it, which   *)
(* is after the call into C: a deferred unlock, a field it writes, a count *)
(* it reads.  GQLStatus last uses the Rows to load its handle, and a slice *)
(* of a column does not use it at all.                                     *)
Pinned(o) == \E g \in Calling(o) : op[g] # "lent"

Rooted(o) == o \in held \/ Pinned(o)

(* Mutant of Reachable: a Stmt does not keep its connection.               *)
ReachableByItself(o) == Rooted(o)

Reachable(o) ==
  Rooted(o) \/ \E s \in OnConn : Rooted(s) /\ conn[s] = o

(* The library's free: of a handle that is not there any more, twice.      *)
Freed(o) == IF lib[o] = "live" THEN "freed" ELSE "twice"

----------------------------------------------------------------------------
(* Making handles.                                                         *)

Own(o, c, cleanup) ==
  /\ lib' = [lib EXCEPT ![o] = "live"]
  /\ field' = [field EXCEPT ![o] = "set"]
  /\ armed' = [armed EXCEPT ![o] = cleanup]
  /\ conn' = IF o \in OnConn THEN [conn EXCEPT ![o] = c] ELSE conn
  /\ held' = held \cup {o}

(* Mutant of Register: the handle is taken and no cleanup registered.      *)
RegisterNothing(o, c) == Own(o, c, "off")

(* newDB, newConn, newStmt, newRows: own the handle, register the cleanup. *)
Register(o, c) == Own(o, c, "armed")

Open(d) ==
  /\ lib[d] = "none"
  /\ Register(d, NoConn)
  /\ UNCHANGED <<op, on>>

Leave(g) ==
  /\ op' = [op EXCEPT ![g] = "none"]
  /\ on' = [on EXCEPT ![g] = NoConn]

(* The connection a new handle belongs to.                                 *)
ConnFor(g) == IF on[g] \in OnConn THEN conn[on[g]] ELSE on[g]

(* What the call p on o may make: a DB is asked by Connect, a Conn by      *)
(* Duplicate, Prepare and Query.                                           *)
Makes(o, p) ==
  {n \in Objects :
     \/ n \in Conns   /\ o \in Locked
     \/ n \in Stmts   /\ o \in Conns
     \/ n \in Results /\ (o \in Conns \/ p = "execute")}

(* The call answers a new handle.  A statement whose connection has closed *)
(* answers Closed instead (stmt.go:22-24).                                 *)
Make(g) ==
  /\ op[g] = "execute" => lib[conn[on[g]]] = "live"
  /\ \E o \in Makes(on[g], op[g]) :
       /\ lib[o] = "none"
       /\ Register(o, ConnFor(g))
  /\ Leave(g)

Discard(o) ==
  /\ lib' = [lib EXCEPT ![o] = "freed"]
  /\ UNCHANGED <<field, armed>>

(* Mutant of Unnamed: the cleanup is registered before the names are read. *)
UnnamedRegistered(o) ==
  /\ lib' = [lib EXCEPT ![o] = "freed"]
  /\ armed' = [armed EXCEPT ![o] = "armed"]
  /\ UNCHANGED field

(* newRows when a column's name cannot be read: the result is freed on the *)
(* spot and nothing was registered.                                        *)
Unnamed(o) == Discard(o)

MakeUnnamed(g) ==
  /\ on[g] \in Conns \/ op[g] = "execute"
  /\ op[g] = "execute" => lib[conn[on[g]]] = "live"
  /\ \E o \in Results : lib[o] = "none" /\ Unnamed(o)
  /\ Leave(g)
  /\ UNCHANGED <<conn, held>>

----------------------------------------------------------------------------
(* Calls.                                                                  *)

CallAny(g, o, p) ==
  /\ op[g] = "none" /\ o \in held
  /\ o \in OnConn => Calling(o) = {}
  /\ op' = [op EXCEPT ![g] = p]
  /\ on' = [on EXCEPT ![g] = o]
  /\ UNCHANGED <<lib, field, armed, conn, held>>

(* Mutant of Call: a method that does not look at its handle.              *)
CallUnchecked(g, o, p) == CallAny(g, o, p)

(* A goroutine calls a method of an object whose handle is there; on one   *)
(* that is closed every method answers misuse and changes nothing.         *)
Call(g, o, p) ==
  /\ field[o] = "set"
  /\ CallAny(g, o, p)

(* The call returns without a handle: it makes none, or it failed.         *)
Return(g) ==
  /\ op[g] \notin {"none", "export"}
  /\ Leave(g)
  /\ UNCHANGED <<lib, field, armed, conn, held>>

Spend(g, cleanup) ==
  LET r == on[g] IN
  /\ op[g] = "export"
  /\ \E to \in {"given", "freed"} : lib' = [lib EXCEPT ![r] = to]
  /\ armed' = [armed EXCEPT ![r] = cleanup]
  /\ field' = [field EXCEPT ![r] = "nil"]
  /\ Leave(g)
  /\ UNCHANGED <<conn, held>>

(* Mutant of Export: the cleanup is left registered.                       *)
ExportUnstopped(g) == Spend(g, armed[on[g]])

(* zu_result_arrow takes the result whether it answers ok or not.          *)
Export(g) == Spend(g, "off")

(* Rows.ArrowStream refused before the engine: a nil stream, a negative    *)
(* batch.                                                                  *)
ExportRefused(g) ==
  /\ op[g] = "export"
  /\ Leave(g)
  /\ UNCHANGED <<lib, field, armed, conn, held>>

(* The consumer releases the stream it was given.                          *)
Release(r) ==
  /\ lib[r] = "given"
  /\ lib' = [lib EXCEPT ![r] = "released"]
  /\ UNCHANGED <<field, armed, conn, held, op, on>>

----------------------------------------------------------------------------
(* Giving handles back.                                                    *)

CloseNow(g, o, h) ==
  /\ op[g] = "none" /\ o \in held
  /\ field[o] = "set"
  /\ armed' = [armed EXCEPT ![o] = "off"]
  /\ lib' = [lib EXCEPT ![o] = Freed(o)]
  /\ field' = [field EXCEPT ![o] = h]
  /\ UNCHANGED <<conn, held, op, on>>

Quiet(o) == IF o \in Locked THEN Reading(o) = {} ELSE Calling(o) = {}

(* Mutant of Close: the handle stays in the Go object.                     *)
CloseKeeps(g, o) == Quiet(o) /\ CloseNow(g, o, "set")

(* Close: the cleanup is stopped, the handle freed and cleared, with       *)
(* nobody else inside.  A second Close finds nil and does nothing.         *)
Close(g, o) == Quiet(o) /\ CloseNow(g, o, "nil")

(* The program forgets an object.                                          *)
Drop(o) ==
  /\ o \in held
  /\ held' = held \ {o}
  /\ UNCHANGED <<lib, field, armed, conn, op, on>>

(* The collector finds an object unreachable and queues its cleanup.       *)
Collect(o) ==
  /\ armed[o] = "armed" /\ ~Reachable(o)
  /\ armed' = [armed EXCEPT ![o] = "queued"]
  /\ UNCHANGED <<lib, field, conn, held, op, on>>

Cleanup(o) ==
  /\ armed[o] = "queued"
  /\ armed' = [armed EXCEPT ![o] = "off"]
  /\ lib' = [lib EXCEPT ![o] = Freed(o)]
  /\ UNCHANGED <<field, conn, held, op, on>>

----------------------------------------------------------------------------

Next ==
  \/ \E d \in DBs : Open(d)
  \/ \E g \in Goroutines :
       \/ Make(g) \/ MakeUnnamed(g) \/ Return(g)
       \/ Export(g) \/ ExportRefused(g)
       \/ \E o \in Objects : \E p \in CallsOf(o) : Call(g, o, p)
       \/ \E o \in Objects : Close(g, o)
  \/ \E o \in Objects : Drop(o) \/ Collect(o) \/ Cleanup(o)
  \/ \E r \in Results : Release(r)

Spec == Init /\ [][Next]_vars

----------------------------------------------------------------------------
(* What the binding promises about memory.                                 *)

(* Exactly one of Close, the cleanup and the Arrow consumer frees a        *)
(* handle, whatever the order (cleanup.go:18-21, arrow.go:74-79).          *)
FreedOnce == \A o \in Objects : lib[o] # "twice"

(* Who has the handle o in the engine: the calls on it, and on a           *)
(* connection the executions and exports that go through it.  A reader of  *)
(* what is lent is not among them, see LentUntilClosed; nor is an export,  *)
(* which is what takes the result.                                         *)
Inside(o) ==
  {g \in Goroutines :
     \/ on[g] = o /\ op[g] \notin {"lent", "export"}
     \/ op[g] \in {"execute", "export"} /\ conn[on[g]] = o /\ field[o] = "set"}

TheHandle(o) == INSTANCE Handle WITH
  Users <- Goroutines, open <- lib[o] \in {"none", "live"}, inside <- Inside(o)

(* Every handle is one that is freed once, with nobody inside, and entered *)
(* by nobody afterwards.                                                   *)
ImplementsHandles ==
  /\ \A o \in Objects : TheHandle(o)!Init
  /\ [][\A o \in Objects :
          TheHandle(o)!Next \/ UNCHANGED TheHandle(o)!handleVars]_vars

(* The collector takes nothing the program can still use: what can be      *)
(* reached and was not closed is there, a statement's connection included  *)
(* (stmt.go:22-24).                                                        *)
ReachableStaysOpen ==
  \A o \in Objects : Reachable(o) /\ field[o] = "set" => lib[o] = "live"

(* A program that forgets is not left leaking (cleanup.go:18-21): what it  *)
(* can no longer reach, and so no longer close, has its cleanup coming.    *)
NothingLeaks ==
  \A o \in Objects : lib[o] = "live" /\ ~Reachable(o) => armed[o] # "off"

(* rows.go:319-322: what a result lent is valid exactly until Rows.Close.  *)
LentUntilClosed ==
  \A g \in Goroutines : op[g] = "lent" => lib[on[g]] = "live"
=============================================================================

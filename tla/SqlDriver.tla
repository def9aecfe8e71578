----------------------------- MODULE SqlDriver -----------------------------
(***************************************************************************)
(* The database/sql driver, zusql, under the pool of database/sql.  The    *)
(* driver is a connector, which opens the one database of a sql.DB, and    *)
(* connections, each a zu.Conn and the zu.Tx it remembers.  The pool is    *)
(* the standard library's and external: it lends a connection to one       *)
(* caller at a time, asks ResetSession before it lends one again and       *)
(* IsValid when one comes back, drops one that answers ErrBadConn and      *)
(* tries the call again on another, twice on one it has and then on a new  *)
(* one; and it opens connections without holding its own lock, so that a   *)
(* Close can come between its look at the pool and Connect.                *)
(*                                                                         *)
(* What a connection does inside is Conn's subject.  Here a caller has the *)
(* connection to itself, as the pool sees to, and each call is one step.   *)
(***************************************************************************)
EXTENDS Naturals

CONSTANTS
  Callers,  (* the goroutines using the sql.DB        *)
  Conns,    (* as many connections as the pool may open *)
  NoConn

ASSUME NoConnAssumption == NoConn \notin Conns

VARIABLES
  closing,  (* the sql.DB: "open", "closed", or its connector "released" too *)
  done, db, err,  (* the connector: has it tried, its database, its failure  *)
  opened,   (* how many databases it opened                                  *)
  slot,     (* per connection, the pool's side: "none", "idle", "lent"       *)
  live,     (* the engine's connection is there                              *)
  etx,      (* and is in a transaction                                       *)
  dtx,      (* conn.tx: the driver's connection remembers a Tx               *)
  pc, job, at,    (* per caller: where it is, what for, on which connection  *)
  tries,    (* how often its call met ErrBadConn                             *)
  ran,      (* how often the engine ran the statement of its call            *)
  got       (* what the connector answered it                                *)

connectorVars == <<done, db, err, opened>>
sessionVars == <<live, etx, dtx>>
callVars == <<job, tries, ran>>
vars == <<closing, connectorVars, slot, sessionVars, pc, at, callVars, got>>

Jobs == {"exec", "tx", "conn"}   (* DB.Exec, DB.BeginTx, DB.Conn *)

TypeOK ==
  /\ closing \in {"open", "closed", "released"}
  /\ done \in BOOLEAN /\ db \in {"nil", "open"} /\ err \in BOOLEAN
  /\ opened \in Nat
  /\ slot \in [Conns -> {"none", "idle", "lent"}]
  /\ live \in [Conns -> BOOLEAN]
  /\ etx \in [Conns -> BOOLEAN] /\ dtx \in [Conns -> BOOLEAN]
  /\ pc \in [Callers -> {"idle", "grab", "dial", "connect", "reset", "use",
                         "intx", "put", "panicked"}]
  /\ job \in [Callers -> Jobs] /\ at \in [Callers -> Conns \cup {NoConn}]
  /\ tries \in [Callers -> 0..2] /\ ran \in [Callers -> Nat]
  /\ got \in [Callers -> {"none", "db", "err", "nil"}]
  /\ \A c \in Conns : etx[c] => live[c]

Init ==
  /\ closing = "open"
  /\ done = FALSE /\ db = "nil" /\ err = FALSE /\ opened = 0
  /\ slot = [c \in Conns |-> "none"]
  /\ live = [c \in Conns |-> FALSE]
  /\ etx = [c \in Conns |-> FALSE] /\ dtx = [c \in Conns |-> FALSE]
  /\ pc = [g \in Callers |-> "idle"] /\ job = [g \in Callers |-> "exec"]
  /\ at = [g \in Callers |-> NoConn]
  /\ tries = [g \in Callers |-> 0] /\ ran = [g \in Callers |-> 0]
  /\ got = [g \in Callers |-> "none"]

Goto(g, p) == pc' = [pc EXCEPT ![g] = p]

(* The session of c becomes l, e, d.                                       *)
Session(c, l, e, d) ==
  /\ live' = [live EXCEPT ![c] = l]
  /\ etx' = [etx EXCEPT ![c] = e]
  /\ dtx' = [dtx EXCEPT ![c] = d]

----------------------------------------------------------------------------
(* Borrowing a connection.                                                 *)

Ask(g, j) ==
  /\ pc[g] = "idle" /\ closing = "open"
  /\ Goto(g, "grab")
  /\ job' = [job EXCEPT ![g] = j]
  /\ tries' = [tries EXCEPT ![g] = 0] /\ ran' = [ran EXCEPT ![g] = 0]
  /\ UNCHANGED <<closing, connectorVars, slot, sessionVars, at, got>>

(* The pool is closed, or the caller's context is done while it waits.     *)
GiveUp(g) ==
  /\ pc[g] = "grab"
  /\ Goto(g, "idle")
  /\ UNCHANGED <<closing, connectorVars, slot, sessionVars, at, callVars, got>>

Lend(g, c, p) ==
  /\ pc[g] = "grab" /\ closing = "open"
  /\ slot' = [slot EXCEPT ![c] = "lent"]
  /\ at' = [at EXCEPT ![g] = c]
  /\ Goto(g, p)
  /\ UNCHANGED <<closing, connectorVars, sessionVars, callVars, got>>

Grab(g) ==
  \E c \in Conns : slot[c] = "idle" /\ tries[g] < 2 /\ Lend(g, c, "reset")

Dial(g) ==
  /\ tries[g] = 2 \/ \A c \in Conns : slot[c] # "idle"
  /\ \E c \in Conns : slot[c] = "none" /\ Lend(g, c, "dial")

(* Mutant of Lose: Close forgets the Tx and not the connection.            *)
LoseAndLeak(g) ==
  /\ slot' = [slot EXCEPT ![at[g]] = "none"]
  /\ Session(at[g], live[at[g]], FALSE, FALSE)
  /\ at' = [at EXCEPT ![g] = NoConn]

(* The call ends without its connection, which the pool closes if there    *)
(* is one: conn.Close, which ends what transaction it was in.              *)
Lose(g) ==
  /\ slot' = [slot EXCEPT ![at[g]] = "none"]
  /\ Session(at[g], FALSE, FALSE, FALSE)
  /\ at' = [at EXCEPT ![g] = NoConn]

Fail(g) == Lose(g) /\ Goto(g, "idle") /\ UNCHANGED tries

(* ErrBadConn: the connection is closed, and the call tried again.         *)
Retry(g) ==
  /\ Lose(g)
  /\ IF tries[g] < 2
     THEN Goto(g, "grab") /\ tries' = [tries EXCEPT ![g] = tries[g] + 1]
     ELSE Goto(g, "idle") /\ UNCHANGED tries

----------------------------------------------------------------------------
(* The connector.                                                          *)

OpenAndKeep(g, keep) ==
  \E ok \in BOOLEAN :
    /\ done' = keep[ok]
    /\ db' = IF ok THEN "open" ELSE "nil"
    /\ err' = ~ok
    /\ opened' = opened + 1
    /\ got' = [got EXCEPT ![g] = IF ok THEN "db" ELSE "err"]

(* Mutant of OpenOnce: a failure is not kept and the next caller tries.    *)
OpenUntilItWorks(g) == OpenAndKeep(g, [ok \in BOOLEAN |-> ok])

(* connector.database, the first time: the configuration is opened, and    *)
(* what came of it is kept.                                                *)
OpenOnce(g) == OpenAndKeep(g, [ok \in BOOLEAN |-> TRUE])

(* What was kept: a database, a failure, or since Close neither.           *)
Answered(g) ==
  /\ got' = [got EXCEPT ![g] = IF err THEN "err"
                               ELSE IF db = "open" THEN "db" ELSE "nil"]
  /\ UNCHANGED connectorVars

Database(g) ==
  /\ pc[g] = "dial"
  /\ IF done THEN Answered(g) ELSE OpenOnce(g)
  /\ Goto(g, "connect")
  /\ UNCHANGED <<closing, slot, sessionVars, at, callVars>>

(* connector.Connect with a database: a connection, or a failure, as when  *)
(* the database was closed meanwhile.                                      *)
Connected(g) ==
  /\ pc[g] = "connect" /\ got[g] = "db" /\ db = "open"
  /\ Session(at[g], TRUE, FALSE, FALSE)
  /\ Goto(g, "use")
  /\ UNCHANGED <<closing, connectorVars, slot, at, callVars, got>>

ConnectFails(g) ==
  /\ pc[g] = "connect" /\ got[g] \in {"db", "err"}
  /\ Fail(g)
  /\ UNCHANGED <<closing, connectorVars, job, ran, got>>

(* Without one: db.Connect on a nil *zu.DB takes the lock of nothing.      *)
ConnectPanics(g) ==
  /\ pc[g] = "connect" /\ got[g] = "nil"
  /\ Goto(g, "panicked")
  /\ UNCHANGED <<closing, connectorVars, slot, sessionVars, at, callVars, got>>

----------------------------------------------------------------------------
(* A connection that is lent again, and one that comes back.               *)

(* ResetSession with a Tx remembered: its rollback needs a transaction.    *)
RollbackKept(g) ==
  IF etx[at[g]]
  THEN /\ Session(at[g], TRUE, FALSE, FALSE)
       /\ Goto(g, "use")
       /\ UNCHANGED <<slot, at, tries>>
  ELSE Retry(g)

ResetSession(g) ==
  /\ pc[g] = "reset"
  /\ IF dtx[at[g]] THEN RollbackKept(g)
     ELSE Goto(g, "use") /\ UNCHANGED <<sessionVars, slot, at, tries>>
  /\ UNCHANGED <<closing, connectorVars, job, ran, got>>

(* Mutant of IsValid: any connection that is there will do.                *)
IsThere(c) == live[c]

(* IsValid: InTransaction answers, and answers no.                         *)
IsValid(c) == live[c] /\ ~etx[c]

Put(g) ==
  /\ pc[g] = "put"
  /\ IF closing = "open" /\ IsValid(at[g])
     THEN /\ slot' = [slot EXCEPT ![at[g]] = "idle"]
          /\ at' = [at EXCEPT ![g] = NoConn]
          /\ Goto(g, "idle")
          /\ UNCHANGED <<sessionVars, tries>>
     ELSE Fail(g)
  /\ UNCHANGED <<closing, connectorVars, job, ran, got>>

----------------------------------------------------------------------------
(* What a caller does with its connection.                                 *)

Statuses == {"ok", "failed", "misuse", "closed"}

(* What the engine answers a statement, and the transaction after it.  The *)
(* text may begin or end a transaction, which no Tx knows of.              *)
Answer(c, status, open) ==
  \/ ~live[c] /\ status = "misuse" /\ ~open
  \/ live[c] /\ status = "ok"
  \/ live[c] /\ status = "failed" /\ open = etx[c]

(* Mutant of Bad: every failure is.                                        *)
BadWhenever(status) == status # "ok"

(* bad: only Closed tells the pool that the connection is of no use.       *)
Bad(status) == status = "closed"

(* DB.Exec: conn.ExecContext in the pool's retries.                        *)
Exec(g) ==
  /\ pc[g] = "use" /\ job[g] = "exec"
  /\ ran' = [ran EXCEPT ![g] = IF live[at[g]] THEN ran[g] + 1 ELSE ran[g]]
  /\ \E status \in Statuses, open \in BOOLEAN :
       /\ Answer(at[g], status, open)
       /\ IF Bad(status) THEN Retry(g)
          ELSE /\ Session(at[g], live[at[g]], open, dtx[at[g]])
               /\ Goto(g, "put")
               /\ UNCHANGED <<slot, at, tries>>
  /\ UNCHANGED <<closing, connectorVars, job, got>>

(* Mutant of Begun: it does not ask whether the connection is closed.      *)
BegunBlind(g) ==
  /\ ~etx[at[g]]
  /\ Session(at[g], live[at[g]], TRUE, TRUE)

(* conn.BeginTx answers a Tx.                                              *)
Begun(g) ==
  /\ live[at[g]] /\ ~etx[at[g]]
  /\ Session(at[g], TRUE, TRUE, TRUE)

BeginTx(g) ==
  /\ pc[g] = "use" /\ job[g] = "tx"
  /\ Begun(g)
  /\ Goto(g, "intx")
  /\ UNCHANGED <<closing, connectorVars, slot, at, callVars, got>>

(* Or refuses: an isolation level, the context, the engine.                *)
BeginTxFails(g) ==
  /\ pc[g] = "use" /\ job[g] = "tx"
  /\ Goto(g, "put")
  /\ UNCHANGED <<closing, connectorVars, slot, sessionVars, at, callVars, got>>

(* A statement through a sql.Tx, or through a sql.Conn.                    *)
Statement(g) ==
  /\ pc[g] = "intx" \/ (pc[g] = "use" /\ job[g] = "conn")
  /\ \E status \in Statuses, open \in BOOLEAN :
       /\ Answer(at[g], status, open)
       /\ Session(at[g], live[at[g]], open, dtx[at[g]])
  /\ UNCHANGED <<closing, connectorVars, slot, pc, at, callVars, got>>

(* tx.Commit and tx.Rollback, the caller's or the pool's when the context  *)
(* ends: the Tx is forgotten, then ended, with a context nobody cancels;   *)
(* an engine that fails may leave its transaction open.                    *)
EndTx(g) ==
  /\ pc[g] = "intx"
  /\ \E open \in {FALSE, etx[at[g]]} : Session(at[g], TRUE, open, FALSE)
  /\ Goto(g, "put")
  /\ UNCHANGED <<closing, connectorVars, slot, at, callVars, got>>

(* sql.Conn.Raw: conn.BeginTx through the driver's own interface, and      *)
(* Close through Underlying.                                               *)
RawBegin(g) ==
  /\ pc[g] = "use" /\ job[g] = "conn"
  /\ Begun(g)
  /\ UNCHANGED <<closing, connectorVars, slot, pc, at, callVars, got>>

RawClose(g) ==
  /\ pc[g] = "use" /\ job[g] = "conn"
  /\ Session(at[g], FALSE, FALSE, dtx[at[g]])
  /\ UNCHANGED <<closing, connectorVars, slot, pc, at, callVars, got>>

(* A statement prepared before such a Close answers Closed, which bad      *)
(* makes ErrBadConn: the sql.Conn and its connection are given up.         *)
StmtClosed(g) ==
  /\ pc[g] = "use" /\ job[g] = "conn" /\ ~live[at[g]]
  /\ Bad("closed")
  /\ Fail(g)
  /\ UNCHANGED <<closing, connectorVars, job, ran, got>>

ConnClose(g) ==
  /\ pc[g] = "use" /\ job[g] = "conn"
  /\ Goto(g, "put")
  /\ UNCHANGED <<closing, connectorVars, slot, sessionVars, at, callVars, got>>

----------------------------------------------------------------------------
(* sql.DB.Close: the idle connections are closed and then the connector;   *)
(* the lent ones are closed as they come back.                             *)

ClosePool ==
  /\ closing = "open"
  /\ closing' = "closed"
  /\ LET idle == {c \in Conns : slot[c] = "idle"} IN
     /\ slot' = [c \in Conns |-> IF c \in idle THEN "none" ELSE slot[c]]
     /\ live' = [c \in Conns |-> live[c] /\ c \notin idle]
     /\ etx' = [c \in Conns |-> etx[c] /\ c \notin idle]
     /\ dtx' = [c \in Conns |-> dtx[c] /\ c \notin idle]
  /\ UNCHANGED <<connectorVars, pc, at, callVars, got>>

CloseConnector ==
  /\ closing = "closed"
  /\ closing' = "released"
  /\ db' = "nil"
  /\ UNCHANGED <<done, err, opened, slot, sessionVars, pc, at, callVars, got>>

----------------------------------------------------------------------------

Running == \A g \in Callers : pc[g] # "panicked"

Next ==
  /\ Running
  /\ \/ \E g \in Callers :
          \/ \E j \in Jobs : Ask(g, j)
          \/ GiveUp(g) \/ Grab(g) \/ Dial(g)
          \/ Database(g) \/ Connected(g) \/ ConnectFails(g) \/ ConnectPanics(g)
          \/ ResetSession(g) \/ Put(g)
          \/ Exec(g) \/ BeginTx(g) \/ BeginTxFails(g) \/ Statement(g)
          \/ EndTx(g)
          \/ RawBegin(g) \/ RawClose(g) \/ StmtClosed(g) \/ ConnClose(g)
     \/ ClosePool
     \/ CloseConnector

Spec == Init /\ [][Next]_vars

----------------------------------------------------------------------------
(* What the driver promises.                                               *)

(* The next caller inherits no transaction, whatever the last one left     *)
(* open (zusql/conn.go:158-160): not one it began and did not end, not one *)
(* a statement's text began.                                               *)
NoInheritedTransaction ==
  [][\A g \in Callers :
       pc[g] # "use" /\ pc'[g] = "use" => ~etx'[at'[g]]]_vars

(* The pool tries a call again only if the engine did not run it           *)
(* (zusql/conn.go:300-304).                                                *)
RunsOnce == \A g \in Callers : ran[g] <= 1

(* However many callers connect, the path is tried once, so that all of    *)
(* them have the same database or the same failure                         *)
(* (zusql/zusql.go:239-242).                                               *)
OneOpen == opened <= 1

(* Once the sql.DB is closed and every call on it has ended, no connection *)
(* of the engine is left open (zusql/conn.go:173-177).                     *)
NothingLeft ==
  closing # "open" /\ (\A g \in Callers : pc[g] = "idle")
    => \A c \in Conns : ~live[c]
=============================================================================

-------------------------- MODULE SqlDriverProofs --------------------------
(***************************************************************************)
(* For any number of callers and connections: the types, one opening of    *)
(* the database, one run of a call however often it is tried, and no       *)
(* transaction for the next borrower of a connection.                      *)
(***************************************************************************)
EXTENDS SqlDriver, TLAPS

Without == {"idle", "grab"}                    (* no connection            *)
Unconnected == {"dial", "connect", "panicked"} (* a slot and no connection *)
Before == {"grab", "dial", "connect", "reset", "use"} (* the call not run  *)

(* A caller at work has a connection that is lent, one of its own.         *)
BorrowInv ==
  /\ \A g \in Callers :
       IF pc[g] \in Without THEN at[g] = NoConn
       ELSE at[g] \in Conns /\ slot[at[g]] = "lent"
  /\ \A g, h \in Callers : at[g] = at[h] /\ at[g] # NoConn => g = h
  /\ \A c \in Conns : slot[c] = "lent" => \E g \in Callers : at[g] = c

(* What is not lent is in no transaction, and neither is what was just     *)
(* taken from the pool or is being connected.                              *)
CleanInv ==
  /\ \A c \in Conns : slot[c] # "lent" => ~etx[c]
  /\ \A c \in Conns : slot[c] = "none" => ~live[c]
  /\ closing # "open" => \A c \in Conns : slot[c] # "idle"
  /\ \A g \in Callers : pc[g] = "reset" => ~etx[at[g]]
  /\ \A g \in Callers : pc[g] \in Unconnected => ~live[at[g]]

(* A call that is still looking for a connection has not run.              *)
RanInv ==
  /\ \A g \in Callers : ran[g] <= 1
  /\ \A g \in Callers : pc[g] \in Before => ran[g] = 0

OpenInv == opened <= 1 /\ (~done => opened = 0)

IInv == TypeOK /\ BorrowInv /\ CleanInv /\ RanInv /\ OpenInv

USE DEF Without, Unconnected, Before

LEMMA InitIInv == Init => IInv
<1> SUFFICES ASSUME Init PROVE IInv
  OBVIOUS
<1> USE DEF Init
<1>1. TypeOK
  <2>1. \A c \in Conns : etx[c] => live[c]
    OBVIOUS
  <2>2. /\ live \in [Conns -> BOOLEAN]
        /\ etx \in [Conns -> BOOLEAN] /\ dtx \in [Conns -> BOOLEAN]
    OBVIOUS
  <2>3. done \in BOOLEAN /\ err \in BOOLEAN
    OBVIOUS
  <2>4. /\ tries \in [Callers -> 0..2] /\ ran \in [Callers -> Nat]
        /\ opened \in Nat /\ at \in [Callers -> Conns \cup {NoConn}]
    OBVIOUS
  <2> QED
    BY <2>1, <2>2, <2>3, <2>4 DEF TypeOK, Jobs
<1>2. BorrowInv /\ CleanInv
  BY DEF BorrowInv, CleanInv
<1>3. RanInv /\ OpenInv
  BY DEF RanInv, OpenInv
<1> QED
  BY <1>1, <1>2, <1>3 DEF IInv

LEMMA StepIInv == IInv /\ [Next]_vars => IInv'
<1> SUFFICES ASSUME IInv, [Next]_vars PROVE IInv'
  OBVIOUS
<1> USE NoConnAssumption DEF IInv, TypeOK, Jobs, BorrowInv, CleanInv, RanInv, OpenInv,
        connectorVars, sessionVars, callVars, Goto, Session
<1>1. ASSUME NEW g \in Callers, NEW j \in Jobs, Ask(g, j) PROVE IInv'
  BY <1>1 DEF Ask
<1>2. ASSUME NEW g \in Callers, GiveUp(g) PROVE IInv'
  BY <1>2 DEF GiveUp
<1>3. ASSUME NEW g \in Callers, Grab(g) PROVE IInv'
  BY <1>3 DEF Grab, Lend
<1>4. ASSUME NEW g \in Callers, Dial(g) PROVE IInv'
  BY <1>4 DEF Dial, Lend
<1>5. ASSUME NEW g \in Callers, Database(g) PROVE IInv'
  <2>1. CASE done
    BY <1>5, <2>1 DEF Database, Answered
  <2>2. CASE ~done
    <3>1. PICK ok \in BOOLEAN :
            /\ done' = TRUE
            /\ db' = (IF ok THEN "open" ELSE "nil")
            /\ err' = ~ok
            /\ opened' = opened + 1
            /\ got' = [got EXCEPT ![g] = IF ok THEN "db" ELSE "err"]
      BY <1>5, <2>2 DEF Database, OpenOnce, OpenAndKeep
    <3> QED
      BY <1>5, <2>2, <3>1 DEF Database
  <2> QED
    BY <2>1, <2>2
<1>6. ASSUME NEW g \in Callers, Connected(g) PROVE IInv'
  BY <1>6 DEF Connected
<1>7. ASSUME NEW g \in Callers, ConnectFails(g) PROVE IInv'
  BY <1>7 DEF ConnectFails, Fail, Lose
<1>8. ASSUME NEW g \in Callers, ConnectPanics(g) PROVE IInv'
  BY <1>8 DEF ConnectPanics
<1>9. ASSUME NEW g \in Callers, ResetSession(g) PROVE IInv'
  <2>1. CASE ~dtx[at[g]]
    BY <1>9, <2>1 DEF ResetSession
  <2>2. CASE dtx[at[g]]
    <3>1. ~etx[at[g]] /\ Retry(g)
      BY <1>9, <2>2 DEF ResetSession, RollbackKept
    <3> QED
      BY <1>9, <3>1 DEF ResetSession, Retry, Lose
  <2> QED
    BY <2>1, <2>2
<1>10. ASSUME NEW g \in Callers, Put(g) PROVE IInv'
  <2>1. CASE closing = "open" /\ IsValid(at[g])
    <3>1. /\ slot' = [slot EXCEPT ![at[g]] = "idle"]
          /\ at' = [at EXCEPT ![g] = NoConn]
          /\ pc' = [pc EXCEPT ![g] = "idle"]
          /\ live[at[g]] /\ ~etx[at[g]] /\ closing = "open"
          /\ UNCHANGED <<closing, connectorVars, sessionVars, callVars, got>>
      BY <1>10, <2>1 DEF Put, IsValid
    <3>2. pc[g] = "put" /\ at[g] \in Conns
      BY <1>10 DEF Put
    <3>3. TypeOK'
      BY <3>1, <3>2
    <3>4. BorrowInv'
      BY <3>1, <3>2
    <3>5. CleanInv' /\ RanInv' /\ OpenInv'
      BY <3>1, <3>2
    <3> QED
      BY <3>3, <3>4, <3>5
  <2>2. CASE ~(closing = "open" /\ IsValid(at[g]))
    <3>1. Fail(g) /\ UNCHANGED <<closing, connectorVars, job, ran, got>>
      BY <1>10, <2>2 DEF Put
    <3> QED
      BY <1>10, <3>1 DEF Put, Fail, Lose
  <2> QED
    BY <2>1, <2>2
<1>11. ASSUME NEW g \in Callers, Exec(g) PROVE IInv'
  <2>1. PICK open \in BOOLEAN :
          /\ open => live[at[g]]
          /\ Session(at[g], live[at[g]], open, dtx[at[g]])
          /\ Goto(g, "put")
          /\ UNCHANGED <<slot, at, tries>>
    BY <1>11 DEF Exec, Answer, Statuses, Bad
  <2> QED
    BY <1>11, <2>1 DEF Exec
<1>12. ASSUME NEW g \in Callers, BeginTx(g) PROVE IInv'
  BY <1>12 DEF BeginTx, Begun
<1>13. ASSUME NEW g \in Callers, BeginTxFails(g) PROVE IInv'
  BY <1>13 DEF BeginTxFails
<1>14. ASSUME NEW g \in Callers, Statement(g) PROVE IInv'
  <2>1. PICK open \in BOOLEAN :
          /\ open => live[at[g]]
          /\ Session(at[g], live[at[g]], open, dtx[at[g]])
    BY <1>14 DEF Statement, Answer
  <2> QED
    BY <1>14, <2>1 DEF Statement
<1>15. ASSUME NEW g \in Callers, EndTx(g) PROVE IInv'
  <2>1. PICK open \in BOOLEAN : Session(at[g], TRUE, open, FALSE)
    <3>1. etx[at[g]] \in BOOLEAN
      BY <1>15 DEF EndTx
    <3> QED
      BY <1>15, <3>1 DEF EndTx
  <2> QED
    BY <1>15, <2>1 DEF EndTx
<1>16. ASSUME NEW g \in Callers, RawBegin(g) PROVE IInv'
  BY <1>16 DEF RawBegin, Begun
<1>17. ASSUME NEW g \in Callers, RawClose(g) PROVE IInv'
  BY <1>17 DEF RawClose
<1>18. ASSUME NEW g \in Callers, StmtClosed(g) PROVE IInv'
  BY <1>18 DEF StmtClosed, Fail, Lose
<1>19. ASSUME NEW g \in Callers, ConnClose(g) PROVE IInv'
  BY <1>19 DEF ConnClose
<1>20. CASE ClosePool
  BY <1>20 DEF ClosePool
<1>21. CASE CloseConnector
  BY <1>21 DEF CloseConnector
<1>22. CASE UNCHANGED vars
  BY <1>22 DEF vars
<1> HIDE DEF IInv, TypeOK, Jobs, BorrowInv, CleanInv, RanInv, OpenInv,
        connectorVars, sessionVars, callVars, Goto, Session
<1> QED
  BY <1>1, <1>2, <1>3, <1>4, <1>5, <1>6, <1>7, <1>8, <1>9, <1>10, <1>11, <1>12,
     <1>13, <1>14, <1>15, <1>16, <1>17, <1>18, <1>19, <1>20, <1>21, <1>22 DEF Next

----------------------------------------------------------------------------
(* Only Connected and ResetSession give a caller its connection.           *)
LEMMA BorrowedBy ==
  ASSUME TypeOK, [Next]_vars, NEW g \in Callers, pc[g] # "use", pc'[g] = "use"
  PROVE  Connected(g) \/ ResetSession(g)
<1> USE DEF TypeOK, Goto
<1>1. PICK h \in Callers :
        \/ \E j \in Jobs : Ask(h, j)
        \/ GiveUp(h) \/ Grab(h) \/ Dial(h)
        \/ Database(h) \/ Connected(h) \/ ConnectFails(h) \/ ConnectPanics(h)
        \/ ResetSession(h) \/ Put(h)
        \/ Exec(h) \/ BeginTx(h) \/ BeginTxFails(h) \/ Statement(h)
        \/ EndTx(h)
        \/ RawBegin(h) \/ RawClose(h) \/ StmtClosed(h) \/ ConnClose(h)
  BY DEF Next, vars, ClosePool, CloseConnector
<1>2. CASE \E j \in Jobs : Ask(h, j)
  BY <1>2 DEF Ask
<1>3. CASE GiveUp(h) \/ Grab(h) \/ Dial(h)
  BY <1>3 DEF GiveUp, Grab, Dial, Lend
<1>4. CASE Database(h) \/ ConnectFails(h) \/ ConnectPanics(h)
  BY <1>4 DEF Database, ConnectFails, ConnectPanics, Fail
<1>5. CASE Connected(h)
  BY <1>5 DEF Connected
<1>6. CASE ResetSession(h)
  BY <1>6 DEF ResetSession, RollbackKept, Retry
<1>7. CASE Put(h)
  BY <1>7 DEF Put, Fail
<1>8. CASE Exec(h)
  BY <1>8 DEF Exec, Retry
<1>9. CASE BeginTx(h) \/ BeginTxFails(h) \/ EndTx(h)
  BY <1>9 DEF BeginTx, BeginTxFails, EndTx
<1>10. CASE Statement(h) \/ RawBegin(h) \/ RawClose(h)
  BY <1>10 DEF Statement, RawBegin, RawClose
<1>11. CASE StmtClosed(h) \/ ConnClose(h)
  BY <1>11 DEF StmtClosed, ConnClose, Fail
<1> QED
  BY <1>1, <1>2, <1>3, <1>4, <1>5, <1>6, <1>7, <1>8, <1>9, <1>10, <1>11

----------------------------------------------------------------------------

LEMMA Invariance == Spec => []IInv
BY InitIInv, StepIInv, PTL DEF Spec

(* The types of SqlDriver, and that only a connection the engine has is in *)
(* a transaction, for any number of callers and connections.               *)
THEOREM TypeCorrect == Spec => []TypeOK
<1>1. IInv => TypeOK
  BY DEF IInv
<1> QED
  BY Invariance, <1>1, PTL

(* The pool tries a call again only when the engine has not run it.        *)
THEOREM RunsAtMostOnce == Spec => []RunsOnce
<1>1. IInv => RunsOnce
  BY DEF IInv, RanInv, RunsOnce
<1> QED
  BY Invariance, <1>1, PTL

(* The connector opens its database once, however many callers connect.    *)
THEOREM OpensOnce == Spec => []OneOpen
<1>1. IInv => OneOpen
  BY DEF IInv, OpenInv, OneOpen
<1> QED
  BY Invariance, <1>1, PTL

(* When the sql.DB is closed and its calls are over, so are all the        *)
(* connections, those that were lent when it was closed included.          *)
THEOREM ClosesEverything == Spec => []NothingLeft
<1>1. IInv => NothingLeft
  BY NoConnAssumption DEF IInv, TypeOK, BorrowInv, CleanInv, NothingLeft
<1> QED
  BY Invariance, <1>1, PTL

(* Whatever the last borrower of a connection left open, the next one      *)
(* starts outside a transaction.                                           *)
THEOREM NothingInherited == Spec => NoInheritedTransaction
<1>1. ASSUME IInv, [Next]_vars, NEW g \in Callers, pc[g] # "use", pc'[g] = "use"
      PROVE  ~etx'[at'[g]]
  <2> USE DEF IInv, TypeOK, Goto, Session, BorrowInv, Without
  <2>1. CASE Connected(g)
    BY <1>1, <2>1 DEF Connected
  <2>2. CASE ResetSession(g)
    BY <1>1, <2>2 DEF ResetSession, RollbackKept, Retry, CleanInv, sessionVars
  <2> QED
    BY <1>1, <2>1, <2>2, BorrowedBy
<1>2. IInv /\ [Next]_vars
        => [\A g \in Callers :
              pc[g] # "use" /\ pc'[g] = "use" => ~etx'[at'[g]]]_vars
  BY <1>1
<1> QED
  BY Invariance, <1>2, PTL DEF Spec, NoInheritedTransaction
=============================================================================

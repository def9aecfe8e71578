----------------------------- MODULE ConnProofs -----------------------------
(***************************************************************************)
(* Proofs about Conn, for every set of goroutines, every choice of the     *)
(* operations each of them makes, and with or without the rule that one at *)
(* a time uses the connection: its types, the safety of the handle, that   *)
(* it implements Handle, and that one call ends a Tx; and with the rule,   *)
(* what becomes of transactions and interrupts.                            *)
(***************************************************************************)
EXTENDS Conn, TLAPS

----------------------------------------------------------------------------
(* The inductive invariant.                                                *)

(* Where a call stands between its RLock and its RUnlock, once the lock is *)
(* known to be held.                                                       *)
ReadSide == {"ready", "engine", "leave"}

(* Who holds the lock and where they stand.  A closer that freed the       *)
(* connection still has the lock to itself.                                *)
LockInv ==
  /\ \A g \in Goroutines : pc[g] \in ReadSide => g \in readers
  /\ \A g \in readers : pc[g] \in ReadSide \cup {"rlocked"}
  /\ \A g \in queued : pc[g] = "rlocked"
  /\ readers \cap queued = {}
  /\ \A g \in Goroutines : pc[g] \in {"drain", "nil"} => writer = g
  /\ \A g \in Goroutines : pc[g] = "nil" => readers = {}

(* Conn.h points at a connection that exists, except between the two       *)
(* halves of Close; a call that checked it, or that the engine let in, has *)
(* a connection.                                                           *)
HandleInv ==
  /\ h = "open" /\ (\A g \in Goroutines : pc[g] # "nil") => live
  /\ \A g \in Goroutines :
       \/ pc[g] = "engine"
       \/ pc[g] = "ready" /\ op[g] # "execute"
       => live

(* A watcher that has not finished belongs to a call under the lock.       *)
WatchInv ==
  \A g \in Goroutines : watch[g] \in {"watching", "hit"} => pc[g] \in ReadSide

IInv == TypeOK /\ LockInv /\ HandleInv /\ WatchInv

----------------------------------------------------------------------------
(* Types.                                                                  *)

LEMMA HandleOfType ==
  ASSUME NEW o \in Ops
  PROVE  HandleOf(o) \subseteq Txs \cup {NoTx}
BY DEF HandleOf, Born

LEMMA ContextOfType ==
  ASSUME NEW o \in Ops
  PROVE  ContextOf(o) \subseteq {"background", "live", "cancelled"}
BY DEF ContextOf

LEMMA InitInv == Init => IInv
<1>1. SUFFICES ASSUME Init PROVE IInv
  OBVIOUS
<1>2. MuTypeOK
  BY <1>1 DEF Init, MuInit, MuTypeOK
<1>3. /\ op \in [Goroutines -> Ops \cup {"none"}]
      /\ pc \in [Goroutines -> {"idle"}]
      /\ res \in [Goroutines -> Statuses]
  BY <1>1 DEF Init, Statuses
<1>4. TypeOK
  BY <1>1, <1>2, <1>3 DEF Init, TypeOK
<1>5. LockInv /\ HandleInv /\ WatchInv
  BY <1>1 DEF Init, MuInit, LockInv, HandleInv, WatchInv, ReadSide
<1>6. QED
  BY <1>4, <1>5 DEF IInv

(* A call begins, or answers before it begins.                             *)
Begins(g) ==
  \E o \in May[g] : \E c \in ContextOf(o), x \in HandleOf(o) :
    Refuse(g, o, c, x) \/ Call(g, o, c, x)

LEMMA BeginsInv ==
  ASSUME IInv, NEW g \in Goroutines, Begins(g)
  PROVE  IInv'
<1>1. PICK o \in May[g] : \E c \in ContextOf(o), x \in HandleOf(o) :
             Refuse(g, o, c, x) \/ Call(g, o, c, x)
  BY DEF Begins
<1>2. o \in Ops
  BY MayAssumption
<1>3. PICK c \in ContextOf(o), x \in HandleOf(o) :
             Refuse(g, o, c, x) \/ Call(g, o, c, x)
  BY <1>1
<1>4. c \in {"background", "live", "cancelled"} /\ x \in Txs \cup {NoTx}
  BY <1>2, <1>3, HandleOfType, ContextOfType
<1>5. CASE Refuse(g, o, c, x)
  <2>1. TypeOK'
    BY <1>5 DEF IInv, Refuse, TypeOK, MuTypeOK, Statuses, muVars, connVars
  <2>2. LockInv' /\ HandleInv' /\ WatchInv'
    BY <1>5 DEF IInv, Refuse, LockInv, HandleInv, WatchInv, muVars, connVars
  <2>3. QED
    BY <2>1, <2>2 DEF IInv
<1>6. CASE Call(g, o, c, x)
  <2>1. /\ pc[g] = "idle"
        /\ pc' = [pc EXCEPT ![g] = IF o = "close" THEN "lock"
                                   ELSE IF o \in Enders THEN "swap" ELSE "rlock"]
        /\ op' = [op EXCEPT ![g] = o]
        /\ ctx' = [ctx EXCEPT ![g] = c]
        /\ tx' = [tx EXCEPT ![g] = x]
        /\ res' = [res EXCEPT ![g] = "none"]
        /\ UNCHANGED <<muVars, connVars, watch>>
    BY <1>6 DEF Call, Start, Goto, Enders
  <2>2. TypeOK'
    BY <1>2, <1>4, <2>1 DEF IInv, TypeOK, MuTypeOK, muVars, connVars,
       Statuses, Ops, Watched, Enders, Asks, Polls
  <2>3. LockInv' /\ HandleInv' /\ WatchInv'
    BY <2>1 DEF IInv, TypeOK, MuTypeOK, LockInv, HandleInv, WatchInv, ReadSide,
       muVars, connVars
  <2>4. QED
    BY <2>2, <2>3 DEF IInv
<1>7. QED
  BY <1>3, <1>5, <1>6

(* The steps of a goroutine inside its call.                               *)
LEMMA RunInv ==
  ASSUME IInv, NEW g \in Goroutines, Run(g)
  PROVE  IInv'
<1>1. CASE Swap(g)
  <2>1. TypeOK'
    BY <1>1 DEF Swap, Spend, Goto, IInv, TypeOK, MuTypeOK, Statuses, Enders,
       Watched, muVars, connVars
  <2>2. LockInv'
    BY <1>1 DEF Swap, Spend, Goto, IInv, TypeOK, MuTypeOK, LockInv,
       ReadSide, muVars, connVars
  <2>3. HandleInv'
    BY <1>1 DEF Swap, Spend, Goto, IInv, TypeOK, LockInv, HandleInv,
       ReadSide, muVars, connVars
  <2>4. WatchInv'
    BY <1>1 DEF Swap, Spend, Goto, IInv, TypeOK, WatchInv, ReadSide, muVars,
       connVars
  <2>5. QED
    BY <2>1, <2>2, <2>3, <2>4 DEF IInv
<1>2. CASE SwapLost(g)
  <2>1. TypeOK'
    BY <1>2 DEF SwapLost, Answer, Goto, IInv, TypeOK, MuTypeOK, Statuses,
       Enders, Watched, muVars, connVars
  <2>2. LockInv'
    BY <1>2 DEF SwapLost, Answer, Goto, IInv, TypeOK, MuTypeOK, LockInv,
       ReadSide, muVars, connVars
  <2>3. HandleInv'
    BY <1>2 DEF SwapLost, Answer, Goto, IInv, TypeOK, LockInv, HandleInv,
       ReadSide, muVars, connVars
  <2>4. WatchInv'
    BY <1>2 DEF SwapLost, Answer, Goto, IInv, TypeOK, WatchInv, ReadSide,
       muVars, connVars
  <2>5. QED
    BY <2>1, <2>2, <2>3, <2>4 DEF IInv
<1>3. CASE TakeReadLock(g)
  <2>1. TypeOK'
    BY <1>3 DEF TakeReadLock, RLock, Goto, IInv, TypeOK, MuTypeOK, Statuses,
       Enders, Watched, muVars, connVars
  <2>2. LockInv'
    BY NoOneAssumption, <1>3 DEF TakeReadLock, RLock, Goto, IInv, TypeOK,
       MuTypeOK, LockInv, ReadSide, muVars, connVars
  <2>3. HandleInv'
    BY <1>3 DEF TakeReadLock, RLock, Goto, IInv, TypeOK, LockInv, HandleInv,
       ReadSide, muVars, connVars
  <2>4. WatchInv'
    BY <1>3 DEF TakeReadLock, RLock, Goto, IInv, TypeOK, WatchInv, ReadSide,
       muVars, connVars
  <2>5. QED
    BY <2>1, <2>2, <2>3, <2>4 DEF IInv
<1>4. CASE FindClosed(g)
  <2>1. TypeOK'
    BY <1>4 DEF FindClosed, RUnlock, Answer, Goto, IInv, TypeOK, MuTypeOK,
       Statuses, Enders, Watched, muVars, connVars
  <2>2. LockInv'
    BY <1>4 DEF FindClosed, RUnlock, Answer, Goto, IInv, TypeOK, MuTypeOK,
       LockInv, ReadSide, muVars, connVars
  <2>3. HandleInv'
    BY <1>4 DEF FindClosed, RUnlock, Answer, Goto, IInv, TypeOK, LockInv,
       HandleInv, ReadSide, muVars, connVars
  <2>4. WatchInv'
    BY <1>4 DEF FindClosed, RUnlock, Answer, Goto, IInv, TypeOK, WatchInv,
       ReadSide, muVars, connVars
  <2>5. QED
    BY <2>1, <2>2, <2>3, <2>4 DEF IInv
<1>5. CASE BindFails(g)
  <2>1. TypeOK'
    BY <1>5 DEF BindFails, RUnlock, Answer, Goto, IInv, TypeOK, MuTypeOK,
       Statuses, Enders, Watched, muVars, connVars
  <2>2. LockInv'
    BY <1>5 DEF BindFails, RUnlock, Answer, Goto, IInv, TypeOK, MuTypeOK,
       LockInv, ReadSide, muVars, connVars
  <2>3. HandleInv'
    BY <1>5 DEF BindFails, RUnlock, Answer, Goto, IInv, TypeOK, LockInv,
       HandleInv, ReadSide, muVars, connVars
  <2>4. WatchInv'
    BY <1>5 DEF BindFails, RUnlock, Answer, Goto, IInv, TypeOK, WatchInv,
       ReadSide, muVars, connVars
  <2>5. QED
    BY <2>1, <2>2, <2>3, <2>4 DEF IInv
<1>6. CASE Proceed(g)
  <2>1. TypeOK'
    BY <1>6 DEF Proceed, Pass, Goto, IInv, TypeOK, MuTypeOK, Statuses,
       Enders, Watched, muVars, connVars
  <2>2. LockInv'
    BY <1>6 DEF Proceed, Pass, Goto, IInv, TypeOK, MuTypeOK, LockInv,
       ReadSide, muVars, connVars
  <2>3. HandleInv'
    BY <1>6 DEF Proceed, Pass, Goto, IInv, TypeOK, LockInv, HandleInv,
       ReadSide, muVars, connVars
  <2>4. WatchInv'
    BY <1>6 DEF Proceed, Pass, Goto, IInv, TypeOK, WatchInv, ReadSide,
       muVars, connVars
  <2>5. QED
    BY <2>1, <2>2, <2>3, <2>4 DEF IInv
<1>7. CASE EnterClosed(g)
  <2>1. TypeOK'
    BY <1>7 DEF EnterClosed, Bounce, Goto, IInv, TypeOK, MuTypeOK, Statuses,
       Enders, Watched, muVars, connVars
  <2>2. LockInv'
    BY <1>7 DEF EnterClosed, Bounce, Goto, IInv, TypeOK, MuTypeOK, LockInv,
       ReadSide, muVars, connVars
  <2>3. HandleInv'
    BY <1>7 DEF EnterClosed, Bounce, Goto, IInv, TypeOK, LockInv, HandleInv,
       ReadSide, muVars, connVars
  <2>4. WatchInv'
    BY <1>7 DEF EnterClosed, Bounce, Goto, IInv, TypeOK, WatchInv, ReadSide,
       muVars, connVars
  <2>5. QED
    BY <2>1, <2>2, <2>3, <2>4 DEF IInv
<1>8. CASE EnterConcurrent(g)
  <2>1. TypeOK'
    BY <1>8 DEF EnterConcurrent, Bounce, Goto, IInv, TypeOK, MuTypeOK,
       Statuses, Enders, Watched, muVars, connVars
  <2>2. LockInv'
    BY <1>8 DEF EnterConcurrent, Bounce, Goto, IInv, TypeOK, MuTypeOK,
       LockInv, ReadSide, muVars, connVars
  <2>3. HandleInv'
    BY <1>8 DEF EnterConcurrent, Bounce, Goto, IInv, TypeOK, LockInv,
       HandleInv, ReadSide, muVars, connVars
  <2>4. WatchInv'
    BY <1>8 DEF EnterConcurrent, Bounce, Goto, IInv, TypeOK, WatchInv,
       ReadSide, muVars, connVars
  <2>5. QED
    BY <2>1, <2>2, <2>3, <2>4 DEF IInv
<1>9. CASE EnterPoll(g)
  <2>1. TypeOK'
    BY <1>9 DEF EnterPoll, Bounce, Goto, IInv, TypeOK, MuTypeOK, Statuses,
       Enders, Watched, muVars, connVars
  <2>2. LockInv'
    BY <1>9 DEF EnterPoll, Bounce, Goto, IInv, TypeOK, MuTypeOK, LockInv,
       ReadSide, muVars, connVars
  <2>3. HandleInv'
    BY <1>9 DEF EnterPoll, Bounce, Goto, IInv, TypeOK, LockInv, HandleInv,
       ReadSide, muVars, connVars
  <2>4. WatchInv'
    BY <1>9 DEF EnterPoll, Bounce, Goto, IInv, TypeOK, WatchInv, ReadSide,
       muVars, connVars
  <2>5. QED
    BY <2>1, <2>2, <2>3, <2>4 DEF IInv
<1>10. CASE Enter(g)
  <2>1. TypeOK'
    BY <1>10 DEF Enter, Goto, IInv, TypeOK, MuTypeOK, Statuses, Enders,
       Watched, muVars, connVars
  <2>2. LockInv'
    BY <1>10 DEF Enter, Goto, IInv, TypeOK, MuTypeOK, LockInv, ReadSide,
       muVars, connVars
  <2>3. HandleInv'
    BY <1>10 DEF Enter, Goto, IInv, TypeOK, LockInv, HandleInv, ReadSide,
       muVars, connVars
  <2>4. WatchInv'
    BY <1>10 DEF Enter, Goto, IInv, TypeOK, WatchInv, ReadSide, muVars,
       connVars
  <2>5. QED
    BY <2>1, <2>2, <2>3, <2>4 DEF IInv
<1>11. CASE Return(g)
  <2>1. TypeOK'
    BY <1>11 DEF Return, Joined, Caused, RUnlock, Answer, Goto, IInv,
       TypeOK, MuTypeOK, Statuses, Enders, Watched, muVars, connVars
  <2>2. LockInv'
    BY <1>11 DEF Return, Joined, Caused, RUnlock, Answer, Goto, IInv,
       TypeOK, MuTypeOK, LockInv, ReadSide, muVars, connVars
  <2>3. HandleInv'
    BY <1>11 DEF Return, Joined, Caused, RUnlock, Answer, Goto, IInv,
       TypeOK, LockInv, HandleInv, ReadSide, muVars, connVars
  <2>4. WatchInv'
    BY <1>11 DEF Return, Joined, Caused, RUnlock, Answer, Goto, IInv,
       TypeOK, WatchInv, ReadSide, muVars, connVars
  <2>5. QED
    BY <2>1, <2>2, <2>3, <2>4 DEF IInv
<1>12. CASE CloseAgain(g)
  <2>1. TypeOK'
    BY <1>12 DEF CloseAgain, Granted, Unlock, Answer, Goto, IInv, TypeOK,
       MuTypeOK, Statuses, Enders, Watched, muVars, connVars
  <2>2. LockInv'
    BY <1>12 DEF CloseAgain, Granted, Unlock, Answer, Goto, IInv, TypeOK,
       MuTypeOK, LockInv, ReadSide, muVars, connVars
  <2>3. HandleInv'
    BY <1>12 DEF CloseAgain, Granted, Unlock, Answer, Goto, IInv, TypeOK,
       LockInv, HandleInv, ReadSide, muVars, connVars
  <2>4. WatchInv'
    BY <1>12 DEF CloseAgain, Granted, Unlock, Answer, Goto, IInv, TypeOK,
       WatchInv, ReadSide, muVars, connVars
  <2>5. QED
    BY <2>1, <2>2, <2>3, <2>4 DEF IInv
<1>13. CASE CloseFree(g)
  <2>1. TypeOK'
    BY <1>13 DEF CloseFree, Free, Granted, Goto, IInv, TypeOK, MuTypeOK, Statuses,
       Enders, Watched, muVars, connVars
  <2>2. LockInv'
    BY <1>13 DEF CloseFree, Free, Granted, Goto, IInv, TypeOK, MuTypeOK, LockInv,
       ReadSide, muVars, connVars
  <2>3. HandleInv'
    BY <1>13 DEF CloseFree, Free, Granted, Goto, IInv, TypeOK, LockInv, HandleInv,
       ReadSide, muVars, connVars
  <2>4. WatchInv'
    BY <1>13 DEF CloseFree, Free, Granted, Goto, IInv, TypeOK, WatchInv, ReadSide,
       muVars, connVars
  <2>5. QED
    BY <2>1, <2>2, <2>3, <2>4 DEF IInv
<1>14. CASE CloseClear(g)
  <2>1. TypeOK'
    BY <1>14 DEF CloseClear, LeaveClose, Unlock, Answer, Goto, IInv, TypeOK,
       MuTypeOK, Statuses, Enders, Watched, muVars, connVars
  <2>2. LockInv'
    BY <1>14 DEF CloseClear, LeaveClose, Unlock, Answer, Goto, IInv, TypeOK,
       MuTypeOK, LockInv, ReadSide, muVars, connVars
  <2>3. HandleInv'
    BY <1>14 DEF CloseClear, LeaveClose, Unlock, Answer, Goto, IInv, TypeOK,
       LockInv, HandleInv, ReadSide, muVars, connVars
  <2>4. WatchInv'
    BY <1>14 DEF CloseClear, LeaveClose, Unlock, Answer, Goto, IInv, TypeOK,
       WatchInv, ReadSide, muVars, connVars
  <2>5. QED
    BY <2>1, <2>2, <2>3, <2>4 DEF IInv
<1>15. QED
  BY <1>1, <1>2, <1>3, <1>4, <1>5, <1>6, <1>7, <1>8, <1>9, <1>10, <1>11,
     <1>12, <1>13, <1>14
     DEF Run

(* The steps of whoever cancels, of the engine, of the watchers, and the   *)
(* announcement of a closer.                                               *)
LEMMA OutsideInv ==
  ASSUME IInv, NEW g \in Goroutines,
         \/ Cancel(g) \/ CloseAnnounce(g) \/ FinishStatement(g) \/ FinishShort(g)
         \/ Stop(g) \/ Watch(g)
  PROVE  IInv'
<1>1. CASE Cancel(g)
  <2>1. TypeOK'
    BY <1>1 DEF Cancel, IInv, TypeOK, MuTypeOK, Statuses, Enders, Watched,
       muVars, connVars
  <2>2. LockInv'
    BY <1>1 DEF Cancel, IInv, TypeOK, MuTypeOK, LockInv, ReadSide, muVars,
       connVars
  <2>3. HandleInv'
    BY <1>1 DEF Cancel, IInv, TypeOK, LockInv, HandleInv, ReadSide, muVars,
       connVars
  <2>4. WatchInv'
    BY <1>1 DEF Cancel, IInv, TypeOK, WatchInv, ReadSide, muVars, connVars
  <2>5. QED
    BY <2>1, <2>2, <2>3, <2>4 DEF IInv
<1>2. CASE CloseAnnounce(g)
  <2>1. TypeOK'
    BY <1>2 DEF CloseAnnounce, Announce, Goto, IInv, TypeOK, MuTypeOK,
       Statuses, Enders, Watched, muVars, connVars
  <2>2. LockInv'
    BY NoOneAssumption, <1>2 DEF CloseAnnounce, Announce, Goto, IInv,
       TypeOK, MuTypeOK, LockInv, ReadSide, muVars, connVars
  <2>3. HandleInv'
    BY <1>2 DEF CloseAnnounce, Announce, Goto, IInv, TypeOK, LockInv,
       HandleInv, ReadSide, muVars, connVars
  <2>4. WatchInv'
    BY <1>2 DEF CloseAnnounce, Announce, Goto, IInv, TypeOK, WatchInv,
       ReadSide, muVars, connVars
  <2>5. QED
    BY <2>1, <2>2, <2>3, <2>4 DEF IInv
<1>3. CASE FinishStatement(g)
  <2>1. TypeOK'
    <3>1. etx' \in Txs \cup {NoTx, ByText} /\ kept' \in BOOLEAN /\ cut' \subseteq Txs
      BY <1>3 DEF FinishStatement, TextStarts, TextEnds, IInv, TypeOK
    <3>2. \E r \in {"ok", "Failed"} :
            /\ Finish(g, r)
            /\ stmts' \in {stmts, stmts \cup {g}}
      BY <1>3 DEF FinishStatement
    <3>3. UNCHANGED <<lent, tx>>
      BY <1>3 DEF FinishStatement
    <3>4. QED
      BY <3>1, <3>2, <3>3 DEF Finish, Goto, IInv, TypeOK, MuTypeOK, Statuses,
         muVars
  <2>2. LockInv'
    BY <1>3 DEF FinishStatement, Finish, Goto, IInv, TypeOK, MuTypeOK,
       LockInv, ReadSide, muVars, connVars
  <2>3. HandleInv'
    BY <1>3 DEF FinishStatement, Finish, Goto, IInv, TypeOK, LockInv,
       HandleInv, ReadSide, muVars, connVars
  <2>4. WatchInv'
    BY <1>3 DEF FinishStatement, Finish, Goto, IInv, TypeOK, WatchInv,
       ReadSide, muVars, connVars
  <2>5. QED
    BY <2>1, <2>2, <2>3, <2>4 DEF IInv
<1>4. CASE FinishBegin(g)
  <2>1. TypeOK'
    BY <1>4 DEF FinishBegin, Finish, Goto, IInv, TypeOK, MuTypeOK, Statuses,
       Enders, Watched, muVars, connVars
  <2>2. LockInv'
    BY <1>4 DEF FinishBegin, Finish, Goto, IInv, TypeOK, MuTypeOK, LockInv,
       ReadSide, muVars, connVars
  <2>3. HandleInv'
    BY <1>4 DEF FinishBegin, Finish, Goto, IInv, TypeOK, LockInv, HandleInv,
       ReadSide, muVars, connVars
  <2>4. WatchInv'
    BY <1>4 DEF FinishBegin, Finish, Goto, IInv, TypeOK, WatchInv, ReadSide,
       muVars, connVars
  <2>5. QED
    BY <2>1, <2>2, <2>3, <2>4 DEF IInv
<1>5. CASE FinishEnd(g)
  <2>1. TypeOK'
    BY <1>5 DEF FinishEnd, Finish, Goto, IInv, TypeOK, MuTypeOK, Statuses,
       Enders, Watched, muVars, connVars
  <2>2. LockInv'
    BY <1>5 DEF FinishEnd, Finish, Goto, IInv, TypeOK, MuTypeOK, LockInv,
       ReadSide, muVars, connVars
  <2>3. HandleInv'
    BY <1>5 DEF FinishEnd, Finish, Goto, IInv, TypeOK, LockInv, HandleInv,
       ReadSide, muVars, connVars
  <2>4. WatchInv'
    BY <1>5 DEF FinishEnd, Finish, Goto, IInv, TypeOK, WatchInv, ReadSide,
       muVars, connVars
  <2>5. QED
    BY <2>1, <2>2, <2>3, <2>4 DEF IInv
<1>6. CASE FinishAsk(g)
  <2>1. TypeOK'
    BY <1>6 DEF FinishAsk, Finish, Goto, IInv, TypeOK, MuTypeOK, Statuses,
       Enders, Watched, muVars, connVars
  <2>2. LockInv'
    BY <1>6 DEF FinishAsk, Finish, Goto, IInv, TypeOK, MuTypeOK, LockInv,
       ReadSide, muVars, connVars
  <2>3. HandleInv'
    BY <1>6 DEF FinishAsk, Finish, Goto, IInv, TypeOK, LockInv, HandleInv,
       ReadSide, muVars, connVars
  <2>4. WatchInv'
    BY <1>6 DEF FinishAsk, Finish, Goto, IInv, TypeOK, WatchInv, ReadSide,
       muVars, connVars
  <2>5. QED
    BY <2>1, <2>2, <2>3, <2>4 DEF IInv
<1>7. CASE Stop(g)
  <2>1. TypeOK'
    BY <1>7 DEF Stop, TextEnds, Finish, Goto, IInv, TypeOK, MuTypeOK, Statuses,
       Enders, Watched, muVars, connVars
  <2>2. LockInv'
    BY <1>7 DEF Stop, Finish, Goto, IInv, TypeOK, MuTypeOK, LockInv,
       ReadSide, muVars, connVars
  <2>3. HandleInv'
    BY <1>7 DEF Stop, Finish, Goto, IInv, TypeOK, LockInv, HandleInv,
       ReadSide, muVars, connVars
  <2>4. WatchInv'
    BY <1>7 DEF Stop, Finish, Goto, IInv, TypeOK, WatchInv, ReadSide,
       muVars, connVars
  <2>5. QED
    BY <2>1, <2>2, <2>3, <2>4 DEF IInv
<1>8. CASE WatchFires(g)
  <2>1. TypeOK'
    BY <1>8 DEF WatchFires, IInv, TypeOK, MuTypeOK, Statuses, Enders,
       Watched, muVars, connVars
  <2>2. LockInv'
    BY <1>8 DEF WatchFires, IInv, TypeOK, MuTypeOK, LockInv, ReadSide,
       muVars, connVars
  <2>3. HandleInv'
    BY <1>8 DEF WatchFires, IInv, TypeOK, LockInv, HandleInv, ReadSide,
       muVars, connVars
  <2>4. WatchInv'
    BY <1>8 DEF WatchFires, IInv, TypeOK, WatchInv, ReadSide, muVars,
       connVars
  <2>5. QED
    BY <2>1, <2>2, <2>3, <2>4 DEF IInv
<1>9. CASE WatchInterrupts(g)
  <2>1. TypeOK'
    BY <1>9 DEF WatchInterrupts, IInv, TypeOK, MuTypeOK, Statuses, Enders,
       Watched, muVars, connVars
  <2>2. LockInv'
    BY <1>9 DEF WatchInterrupts, IInv, TypeOK, MuTypeOK, LockInv, ReadSide,
       muVars, connVars
  <2>3. HandleInv'
    BY <1>9 DEF WatchInterrupts, IInv, TypeOK, LockInv, HandleInv, ReadSide,
       muVars, connVars
  <2>4. WatchInv'
    BY <1>9 DEF WatchInterrupts, IInv, TypeOK, WatchInv, ReadSide, muVars,
       connVars
  <2>5. QED
    BY <2>1, <2>2, <2>3, <2>4 DEF IInv
<1>10. CASE WatchStops(g)
  <2>1. TypeOK'
    BY <1>10 DEF WatchStops, StopClosed, IInv, TypeOK, MuTypeOK, Statuses,
       Enders, Watched, muVars, connVars
  <2>2. LockInv'
    BY <1>10 DEF WatchStops, StopClosed, IInv, TypeOK, MuTypeOK, LockInv,
       ReadSide, muVars, connVars
  <2>3. HandleInv'
    BY <1>10 DEF WatchStops, StopClosed, IInv, TypeOK, LockInv, HandleInv,
       ReadSide, muVars, connVars
  <2>4. WatchInv'
    BY <1>10 DEF WatchStops, StopClosed, IInv, TypeOK, WatchInv, ReadSide,
       muVars, connVars
  <2>5. QED
    BY <2>1, <2>2, <2>3, <2>4 DEF IInv
<1>11. QED
  BY <1>1, <1>2, <1>3, <1>4, <1>5, <1>6, <1>7, <1>8, <1>9, <1>10
     DEF FinishShort, Watch

LEMMA StutterInv == IInv /\ UNCHANGED vars => IInv'
BY DEF IInv, TypeOK, MuTypeOK, LockInv, HandleInv, WatchInv, vars, muVars,
       connVars

LEMMA NextInv == IInv /\ [Next]_vars => IInv'
<1>1. SUFFICES ASSUME IInv, Next PROVE IInv'
  BY StutterInv
<1>2. PICK g \in Goroutines :
        \/ Begins(g) \/ Run(g)
        \/ Cancel(g) \/ CloseAnnounce(g) \/ FinishStatement(g) \/ FinishShort(g)
           \/ Stop(g) \/ Watch(g)
  BY <1>1 DEF Next, Begins
<1>3. QED
  BY <1>1, <1>2, BeginsInv, RunInv, OutsideInv

(* The invariant the theorems rest on.                                     *)
THEOREM Invariance == Spec => []IInv
BY InitInv, NextInv, PTL DEF Spec

(* Every variable keeps its type, whoever calls what and when.             *)
THEOREM TypeCorrect == Spec => []TypeOK
<1>1. IInv => TypeOK
  BY DEF IInv
<1>2. QED
  BY <1>1, Invariance, PTL

----------------------------------------------------------------------------
(* The handle.                                                             *)

(* A call or a watcher under the read lock that finds Conn.h open finds a  *)
(* connection: a closer that freed it would have the lock to itself.       *)
LEMMA OpenIsLive ==
  ASSUME IInv, h = "open", NEW g \in readers
  PROVE  live
<1>1. \A k \in Goroutines : pc[k] # "nil"
  BY DEF IInv, LockInv
<1>2. QED
  BY <1>1 DEF IInv, HandleInv

LEMMA InsideIsLive == IInv => NoUseAfterFree
<1>1. SUFFICES ASSUME IInv, NEW u \in inside PROVE live
  BY DEF NoUseAfterFree
<1>2. CASE \E g \in Goroutines :
             \/ pc[g] = "engine"
             \/ pc[g] = "ready" /\ op[g] # "execute"
  BY <1>1, <1>2 DEF IInv, HandleInv
<1>3. CASE \E g \in Goroutines : watch[g] = "hit" /\ h = "open"
  <2>1. PICK g \in Goroutines : watch[g] = "hit" /\ h = "open"
    BY <1>3
  <2>2. g \in readers
    BY <1>1, <2>1 DEF IInv, WatchInv, LockInv
  <2>3. QED
    BY <1>1, <2>1, <2>2, OpenIsLive
<1>4. QED
  BY <1>1, <1>2, <1>3 DEF inside

(* No call and no watcher uses the connection once Close has freed it.     *)
THEOREM HandleSafe == Spec => []NoUseAfterFree
BY Invariance, InsideIsLive, PTL

(* A watcher that may still interrupt is covered by the read lock of the   *)
(* call it watches.                                                        *)
THEOREM WatchersUnderTheLock == Spec => []WatcherContained
<1>1. IInv => WatcherContained
  BY DEF IInv, WatchInv, LockInv, WatcherContained
<1>2. QED
  BY <1>1, Invariance, PTL

----------------------------------------------------------------------------
(* Conn implements Handle.                                                 *)

LEMMA InsideInit == Init => TheHandle!Init
BY DEF Init, TheHandle!Init, inside

(* A call between two of these places does not come or go.                 *)
Outside == {"idle", "swap", "rlock", "rlocked", "leave", "lock", "drain", "nil"}

(* A step of g that moves it between places outside the engine, and leaves *)
(* its watcher, the handle and the connection alone.                       *)
LEMMA OutsideSteps ==
  ASSUME TypeOK, NEW g \in Goroutines,
         pc[g] \in Outside, NEW p \in Outside, pc' = [pc EXCEPT ![g] = p],
         NEW o, op' = [op EXCEPT ![g] = o],
         watch[g] # "hit", NEW w, w # "hit", watch' = [watch EXCEPT ![g] = w],
         h' = h
  PROVE  inside' = inside
BY DEF TypeOK, Outside, inside

(* What each step of Conn is to the handle.                                *)
LEMMA RunSteps ==
  ASSUME IInv, NEW g \in Goroutines, Run(g)
  PROVE  [TheHandle!Next]_TheHandle!handleVars
<1>1. CASE Swap(g)
  <2>1. inside' = inside
    BY <1>1 DEF Swap, Spend, Goto, IInv, WatchInv, inside, ReadSide, TypeOK,
       connVars, muVars
  <2>2. live' = live
    BY <1>1 DEF Swap, Spend, Goto, connVars
  <2>3. QED
    BY <2>1, <2>2 DEF TheHandle!handleVars
<1>2. CASE SwapLost(g)
  <2>1. inside' = inside
    BY <1>2, OutsideSteps DEF SwapLost, Answer, Goto, Outside, IInv,
       WatchInv, ReadSide, TypeOK, connVars, muVars
  <2>2. live' = live
    BY <1>2 DEF SwapLost, Answer, Goto, connVars
  <2>3. QED
    BY <2>1, <2>2 DEF TheHandle!handleVars
<1>3. CASE TakeReadLock(g)
  <2>1. inside' = inside
    BY <1>3 DEF TakeReadLock, RLock, Goto, IInv, WatchInv, inside, ReadSide,
       TypeOK, connVars, muVars
  <2>2. live' = live
    BY <1>3 DEF TakeReadLock, RLock, Goto, connVars
  <2>3. QED
    BY <2>1, <2>2 DEF TheHandle!handleVars
<1>4. CASE FindClosed(g)
  <2>1. inside' = inside
    BY <1>4, OutsideSteps DEF FindClosed, RUnlock, Answer, Goto, Outside,
       IInv, WatchInv, ReadSide, TypeOK, connVars, muVars
  <2>2. live' = live
    BY <1>4 DEF FindClosed, RUnlock, Answer, Goto, connVars
  <2>3. QED
    BY <2>1, <2>2 DEF TheHandle!handleVars
<1>5. CASE BindFails(g)
  <2>1. inside' = inside
    BY <1>5, OutsideSteps DEF BindFails, RUnlock, Answer, Goto, Outside,
       IInv, WatchInv, ReadSide, TypeOK, connVars, muVars
  <2>2. live' = live
    BY <1>5 DEF BindFails, RUnlock, Answer, Goto, connVars
  <2>3. QED
    BY <2>1, <2>2 DEF TheHandle!handleVars
<1>6. CASE Proceed(g)
  <2>1. h = "open" => live
    BY <1>6, OpenIsLive DEF Proceed, Pass
  <2>2. CASE op[g] = "execute"
    <3>1. inside' = inside
      BY <1>6, <2>2 DEF Proceed, Pass, Goto, inside, IInv, TypeOK, WatchInv,
         ReadSide, connVars
    <3>2. QED
      BY <1>6, <3>1 DEF Proceed, Pass, connVars, TheHandle!handleVars
  <2>3. CASE op[g] # "execute"
    <3>1. inside' = inside \cup {<<"call", g>>}
      BY <1>6, <2>3 DEF Proceed, Pass, Goto, inside, IInv, TypeOK, WatchInv,
         ReadSide, connVars
    <3>2. live /\ live' = live
      BY <1>6, <2>1, <2>3 DEF Proceed, Pass, connVars
    <3>3. QED
      BY <3>1, <3>2 DEF TheHandle!Next, TheHandle!Enter
  <2>4. QED
    BY <2>2, <2>3
<1>7. CASE EnterClosed(g)
  <2>1. inside' = inside
    BY <1>7 DEF EnterClosed, Bounce, Goto, IInv, WatchInv, inside, ReadSide,
       TypeOK, connVars, muVars
  <2>2. live' = live
    BY <1>7 DEF EnterClosed, Bounce, Goto, connVars
  <2>3. QED
    BY <2>1, <2>2 DEF TheHandle!handleVars
<1>8. CASE EnterConcurrent(g)
  <2>1. inside' = inside \ {<<"call", g>>}
    BY <1>8 DEF EnterConcurrent, Bounce, Goto, inside, IInv, TypeOK,
       connVars, muVars
  <2>2. live' = live
    BY <1>8 DEF EnterConcurrent, Bounce, Goto, connVars
  <2>3. QED
    BY <2>1, <2>2 DEF TheHandle!Next, TheHandle!Leave
<1>9. CASE EnterPoll(g)
  <2>1. inside' = inside \ {<<"call", g>>}
    BY <1>9 DEF EnterPoll, Bounce, Goto, inside, IInv, TypeOK, connVars,
       muVars
  <2>2. live' = live
    BY <1>9 DEF EnterPoll, Bounce, Goto, connVars
  <2>3. QED
    BY <2>1, <2>2 DEF TheHandle!Next, TheHandle!Leave
<1>10. CASE Enter(g)
  <2>1. inside' = inside \cup {<<"call", g>>}
    BY <1>10 DEF Enter, Goto, inside, IInv, TypeOK
  <2>2. live /\ live' = live
    BY <1>10 DEF Enter, IInv, HandleInv
  <2>3. QED
    BY <2>1, <2>2 DEF TheHandle!Next, TheHandle!Enter
<1>11. CASE Return(g)
  <2>1. inside' = inside
    BY <1>11, OutsideSteps DEF Return, RUnlock, Answer, Goto, Joined,
       Outside, IInv, WatchInv, ReadSide, TypeOK, connVars, muVars
  <2>2. live' = live
    BY <1>11 DEF Return, RUnlock, Answer, Goto, Joined, connVars
  <2>3. QED
    BY <2>1, <2>2 DEF TheHandle!handleVars
<1>12. CASE CloseAgain(g)
  <2>1. inside' = inside
    BY <1>12, OutsideSteps DEF CloseAgain, Granted, Unlock, Answer, Goto,
       Outside, IInv, WatchInv, ReadSide, TypeOK, connVars, muVars
  <2>2. live' = live
    BY <1>12 DEF CloseAgain, Granted, Unlock, Answer, Goto, connVars
  <2>3. QED
    BY <2>1, <2>2 DEF TheHandle!handleVars
<1>13. CASE CloseFree(g)
  <2>1. inside = {}
    BY <1>13 DEF CloseFree, Free, Granted, inside, IInv, LockInv, WatchInv, ReadSide
  <2>2. inside' = {}
    BY <1>13, <2>1 DEF CloseFree, Free, Goto, inside, IInv, TypeOK, connVars
  <2>3. live /\ live' = FALSE
    BY <1>13 DEF CloseFree, Free, Granted, IInv, HandleInv, LockInv
  <2>4. QED
    BY <2>1, <2>2, <2>3 DEF TheHandle!Next, TheHandle!Free
<1>14. CASE CloseClear(g)
  <2>1. \A k \in Goroutines : pc[k] \notin ReadSide /\ watch[k] # "hit"
    BY <1>14 DEF CloseClear, LeaveClose, IInv, LockInv, WatchInv, ReadSide
  <2>2. inside = {} /\ inside' = {}
    BY <1>14, <2>1 DEF CloseClear, LeaveClose, Answer, Goto, inside, IInv,
       TypeOK, ReadSide
  <2>3. live' = live
    BY <1>14 DEF CloseClear, LeaveClose
  <2>4. QED
    BY <2>2, <2>3 DEF TheHandle!handleVars
<1>15. QED
  BY <1>1, <1>2, <1>3, <1>4, <1>5, <1>6, <1>7, <1>8, <1>9, <1>10, <1>11, <1>12,
     <1>13, <1>14
     DEF Run

LEMMA OutsideRunSteps ==
  ASSUME IInv, NEW g \in Goroutines,
         \/ Cancel(g) \/ CloseAnnounce(g) \/ FinishStatement(g) \/ FinishShort(g)
         \/ Stop(g) \/ Watch(g)
  PROVE  [TheHandle!Next]_TheHandle!handleVars
<1>1. CASE Cancel(g)
  <2>1. inside' = inside
    BY <1>1 DEF Cancel, IInv, WatchInv, inside, ReadSide, TypeOK, connVars,
       muVars
  <2>2. live' = live
    BY <1>1 DEF Cancel, connVars
  <2>3. QED
    BY <2>1, <2>2 DEF TheHandle!handleVars
<1>2. CASE CloseAnnounce(g)
  <2>1. inside' = inside
    BY <1>2 DEF CloseAnnounce, Announce, Goto, IInv, WatchInv, inside,
       ReadSide, TypeOK, connVars, muVars
  <2>2. live' = live
    BY <1>2 DEF CloseAnnounce, Announce, Goto, connVars
  <2>3. QED
    BY <2>1, <2>2 DEF TheHandle!handleVars
<1>3. CASE FinishStatement(g)
  <2>1. inside' = inside \ {<<"call", g>>}
    BY <1>3 DEF FinishStatement, Finish, Goto, inside, IInv, TypeOK,
       connVars, muVars
  <2>2. live' = live
    BY <1>3 DEF FinishStatement, Finish, Goto, connVars
  <2>3. QED
    BY <2>1, <2>2 DEF TheHandle!Next, TheHandle!Leave
<1>4. CASE FinishBegin(g)
  <2>1. inside' = inside \ {<<"call", g>>}
    BY <1>4 DEF FinishBegin, Finish, Goto, inside, IInv, TypeOK, connVars,
       muVars
  <2>2. live' = live
    BY <1>4 DEF FinishBegin, Finish, Goto, connVars
  <2>3. QED
    BY <2>1, <2>2 DEF TheHandle!Next, TheHandle!Leave
<1>5. CASE FinishEnd(g)
  <2>1. inside' = inside \ {<<"call", g>>}
    BY <1>5 DEF FinishEnd, Finish, Goto, inside, IInv, TypeOK, connVars,
       muVars
  <2>2. live' = live
    BY <1>5 DEF FinishEnd, Finish, Goto, connVars
  <2>3. QED
    BY <2>1, <2>2 DEF TheHandle!Next, TheHandle!Leave
<1>6. CASE FinishAsk(g)
  <2>1. inside' = inside \ {<<"call", g>>}
    BY <1>6 DEF FinishAsk, Finish, Goto, inside, IInv, TypeOK, connVars,
       muVars
  <2>2. live' = live
    BY <1>6 DEF FinishAsk, Finish, Goto, connVars
  <2>3. QED
    BY <2>1, <2>2 DEF TheHandle!Next, TheHandle!Leave
<1>7. CASE Stop(g)
  <2>1. inside' = inside \ {<<"call", g>>}
    BY <1>7 DEF Stop, Finish, Goto, inside, IInv, TypeOK, connVars, muVars
  <2>2. live' = live
    BY <1>7 DEF Stop, Finish, Goto, connVars
  <2>3. QED
    BY <2>1, <2>2 DEF TheHandle!Next, TheHandle!Leave
<1>8. CASE WatchFires(g)
  <2>1. g \in readers
    BY <1>8 DEF WatchFires, IInv, WatchInv, LockInv
  <2>2. live' = live
    BY <1>8 DEF WatchFires, connVars
  <2>3. CASE h = "open"
    <3>1. inside' = inside \cup {<<"watch", g>>}
      BY <1>8, <2>3 DEF WatchFires, inside, IInv, TypeOK, connVars
    <3>2. live
      BY <2>1, <2>3, OpenIsLive
    <3>3. QED
      BY <2>2, <3>1, <3>2 DEF TheHandle!Next, TheHandle!Enter
  <2>4. CASE h # "open"
    <3>1. inside' = inside
      BY <1>8, <2>4 DEF WatchFires, inside, IInv, TypeOK, connVars
    <3>2. QED
      BY <2>2, <3>1 DEF TheHandle!handleVars
  <2>5. QED
    BY <2>3, <2>4
<1>9. CASE WatchInterrupts(g)
  <2>1. inside' = inside \ {<<"watch", g>>}
    BY <1>9 DEF WatchInterrupts, inside, IInv, TypeOK, connVars, muVars
  <2>2. live' = live
    BY <1>9 DEF WatchInterrupts, connVars
  <2>3. QED
    BY <2>1, <2>2 DEF TheHandle!Next, TheHandle!Leave
<1>10. CASE WatchStops(g)
  <2>1. inside' = inside
    BY <1>10 DEF WatchStops, StopClosed, IInv, WatchInv, inside, ReadSide,
       TypeOK, connVars, muVars
  <2>2. live' = live
    BY <1>10 DEF WatchStops, StopClosed, connVars
  <2>3. QED
    BY <2>1, <2>2 DEF TheHandle!handleVars
<1>11. QED
  BY <1>1, <1>2, <1>3, <1>4, <1>5, <1>6, <1>7, <1>8, <1>9, <1>10
     DEF FinishShort, Watch

LEMMA BeginSteps ==
  ASSUME IInv, NEW g \in Goroutines, Begins(g)
  PROVE  [TheHandle!Next]_TheHandle!handleVars
<1>1. PICK o \in May[g] : \E c \in ContextOf(o), x \in HandleOf(o) :
             Refuse(g, o, c, x) \/ Call(g, o, c, x)
  BY DEF Begins
<1>2. PICK c \in ContextOf(o), x \in HandleOf(o) :
             Refuse(g, o, c, x) \/ Call(g, o, c, x)
  BY <1>1
<1>3. CASE Refuse(g, o, c, x)
  BY <1>3 DEF Refuse, inside, connVars, TheHandle!handleVars
<1>4. CASE Call(g, o, c, x)
  <2>1. /\ pc[g] = "idle"
        /\ pc' = [pc EXCEPT ![g] = IF o = "close" THEN "lock"
                                   ELSE IF o \in Enders THEN "swap" ELSE "rlock"]
        /\ op' = [op EXCEPT ![g] = o]
        /\ UNCHANGED <<connVars, watch>>
    BY <1>4 DEF Call, Start, Goto, Enders
  <2>2. inside' = inside
    BY <2>1 DEF inside, connVars, IInv, TypeOK
  <2>3. QED
    BY <2>1, <2>2 DEF connVars, TheHandle!handleVars
<1>5. QED
  BY <1>2, <1>3, <1>4

LEMMA NextSteps == IInv /\ [Next]_vars => [TheHandle!Next]_TheHandle!handleVars
<1>1. CASE UNCHANGED vars
  BY <1>1 DEF vars, connVars, inside, TheHandle!handleVars
<1>2. CASE IInv /\ Next
  <2>1. PICK g \in Goroutines :
          \/ Begins(g) \/ Run(g)
          \/ Cancel(g) \/ CloseAnnounce(g) \/ FinishStatement(g)
             \/ FinishShort(g) \/ Stop(g) \/ Watch(g)
    BY <1>2 DEF Next, Begins
  <2>2. QED
    BY <1>2, <2>1, BeginSteps, RunSteps, OutsideRunSteps
<1>3. QED
  BY <1>1, <1>2

(* The connection is freed once, with nobody inside, and nobody enters it  *)
(* afterwards: Conn is an implementation of Handle.                        *)
THEOREM ConnImplementsHandle == Spec => ImplementsHandle
BY InsideInit, NextSteps, Invariance, PTL
   DEF Spec, ImplementsHandle, TheHandle!Spec

(***************************************************************************)
(* The Tx of tx.go.  First, however many goroutines race to end one, the   *)
(* swap at tx.go:172 lets a single one reach the engine.  Then what a      *)
(* connection keeps to where its callers keep the rule of conn.go:20-25    *)
(* (Exclusive): which transaction the engine is in, what Conn.tx says of   *)
(* it, and whose interrupt a statement meets.                              *)
(***************************************************************************)

(* A Tx is unborn while the Begin that will hand it out has it, and that   *)
(* Begin is the only call that does.                                       *)
BeginInv ==
  \A g \in Goroutines :
    op[g] = "begin" /\ tx[g] # NoTx =>
      /\ txs[tx[g]] = "unborn"
      /\ \A k \in Goroutines \ {g} : tx[k] # tx[g]

(* A Commit or Rollback has a Tx that was handed out, and past the swap    *)
(* that Tx is done.                                                        *)
EndInv ==
  \A g \in Goroutines :
    op[g] \in Enders =>
      /\ tx[g] \in Txs /\ txs[tx[g]] # "unborn"
      /\ pc[g] # "swap" => txs[tx[g]] = "done"

TxInv == BeginInv /\ EndInv /\ OneEnder

LEMMA TxInitInv == Init => TxInv
BY DEF Init, TxInv, BeginInv, EndInv, OneEnder, Enders

LEMMA TxBeginsInv ==
  ASSUME TypeOK, TxInv, NEW g \in Goroutines, Begins(g)
  PROVE  TxInv'
<1>1. PICK o \in May[g] : \E c \in ContextOf(o), x \in HandleOf(o) :
             Refuse(g, o, c, x) \/ Call(g, o, c, x)
  BY DEF Begins
<1>2. PICK c \in ContextOf(o), x \in HandleOf(o) :
             Refuse(g, o, c, x) \/ Call(g, o, c, x)
  BY <1>1
<1>3. CASE Refuse(g, o, c, x)
  BY <1>3 DEF Refuse, connVars, TxInv, BeginInv, EndInv, OneEnder
<1>4. CASE Call(g, o, c, x)
  <2>1. /\ pc' = [pc EXCEPT ![g] = IF o = "close" THEN "lock"
                                   ELSE IF o \in Enders THEN "swap" ELSE "rlock"]
        /\ op' = [op EXCEPT ![g] = o]
        /\ tx' = [tx EXCEPT ![g] = x]
        /\ txs' = txs
    BY <1>4 DEF Call, Start, Goto, Enders, connVars
  <2>2. /\ o \in Enders => x \in Born
        /\ x \in Born \cup {NoTx}
        /\ o = "begin" => x = NoTx
    BY DEF HandleOf, Enders, Spelled
  <2>3. BeginInv'
    BY <2>1, <2>2 DEF Born, TypeOK, TxInv, BeginInv
  <2>4. EndInv'
    BY <2>1, <2>2 DEF Born, Enders, TypeOK, TxInv, EndInv
  <2>5. OneEnder'
    BY <2>1, <2>2 DEF Enders, TypeOK, TxInv, OneEnder
  <2>6. QED
    BY <2>3, <2>4, <2>5 DEF TxInv
<1>5. QED
  BY <1>2, <1>3, <1>4

LEMMA TxStepsInv ==
  ASSUME TypeOK, TxInv, NEW g \in Goroutines,
         \/ Run(g) \/ Cancel(g) \/ CloseAnnounce(g) \/ FinishStatement(g)
         \/ FinishShort(g) \/ Stop(g) \/ Watch(g)
  PROVE  TxInv'
<1>1. CASE Swap(g)
  <2>1. BeginInv'
    BY NoTxAssumption, <1>1 DEF Swap, Spend, Goto, Born, Watched, Enders,
       TypeOK, TxInv, BeginInv, EndInv, OneEnder, connVars
  <2>2. EndInv'
    BY NoTxAssumption, <1>1 DEF Swap, Spend, Goto, Born, Watched, Enders,
       TypeOK, TxInv, BeginInv, EndInv, OneEnder, connVars
  <2>3. OneEnder'
    BY NoTxAssumption, <1>1 DEF Swap, Spend, Goto, Born, Watched, Enders,
       TypeOK, TxInv, BeginInv, EndInv, OneEnder, connVars
  <2>4. QED
    BY <2>1, <2>2, <2>3 DEF TxInv
<1>2. CASE SwapLost(g)
  BY <1>2 DEF SwapLost, Answer, Goto, Enders, Watched, Asks, TypeOK, TxInv,
     BeginInv, EndInv, OneEnder, connVars
<1>3. CASE TakeReadLock(g)
  BY <1>3 DEF TakeReadLock, RLock, Goto, Enders, Watched, Asks, TypeOK,
     TxInv, BeginInv, EndInv, OneEnder, connVars
<1>4. CASE FindClosed(g)
  BY <1>4 DEF FindClosed, RUnlock, Answer, Goto, Enders, Watched, Asks,
     TypeOK, TxInv, BeginInv, EndInv, OneEnder, connVars
<1>5. CASE BindFails(g)
  BY <1>5 DEF BindFails, RUnlock, Answer, Goto, Enders, Watched, Asks,
     TypeOK, TxInv, BeginInv, EndInv, OneEnder, connVars
<1>6. CASE Proceed(g)
  BY <1>6 DEF Proceed, Pass, Goto, Enders, Watched, Asks, TypeOK, TxInv,
     BeginInv, EndInv, OneEnder, connVars
<1>7. CASE EnterClosed(g)
  BY <1>7 DEF EnterClosed, Bounce, Goto, Enders, Watched, Asks, TypeOK,
     TxInv, BeginInv, EndInv, OneEnder, connVars
<1>8. CASE EnterConcurrent(g)
  BY <1>8 DEF EnterConcurrent, Bounce, Goto, Enders, Watched, Asks, TypeOK,
     TxInv, BeginInv, EndInv, OneEnder, connVars
<1>9. CASE EnterPoll(g)
  BY <1>9 DEF EnterPoll, Bounce, Goto, Enders, Watched, Asks, TypeOK, TxInv,
     BeginInv, EndInv, OneEnder, connVars
<1>10. CASE Enter(g)
  BY <1>10 DEF Enter, Goto, Enders, Watched, Asks, TypeOK, TxInv, BeginInv,
     EndInv, OneEnder, connVars
<1>11. CASE Return(g)
  <2>1. BeginInv'
    BY NoTxAssumption, <1>11 DEF Return, RUnlock, Answer, Goto, Joined,
       Born, Watched, Enders, TypeOK, TxInv, BeginInv, EndInv, OneEnder,
       connVars
  <2>2. EndInv'
    BY NoTxAssumption, <1>11 DEF Return, RUnlock, Answer, Goto, Joined,
       Born, Watched, Enders, TypeOK, TxInv, BeginInv, EndInv, OneEnder,
       connVars
  <2>3. OneEnder'
    BY NoTxAssumption, <1>11 DEF Return, RUnlock, Answer, Goto, Joined,
       Born, Watched, Enders, TypeOK, TxInv, BeginInv, EndInv, OneEnder,
       connVars
  <2>4. QED
    BY <2>1, <2>2, <2>3 DEF TxInv
<1>12. CASE CloseAgain(g)
  BY <1>12 DEF CloseAgain, Granted, Unlock, Answer, Goto, Enders, Watched,
     Asks, TypeOK, TxInv, BeginInv, EndInv, OneEnder, connVars
<1>13. CASE CloseFree(g)
  BY <1>13 DEF CloseFree, Free, Granted, Goto, Enders, Watched, Asks, TypeOK,
     TxInv, BeginInv, EndInv, OneEnder, connVars
<1>14. CASE CloseClear(g)
  BY <1>14 DEF CloseClear, LeaveClose, Unlock, Answer, Goto, Enders,
     Watched, Asks, TypeOK, TxInv, BeginInv, EndInv, OneEnder, connVars
<1>15. CASE Cancel(g)
  BY <1>15 DEF Cancel, Enders, Watched, Asks, TypeOK, TxInv, BeginInv,
     EndInv, OneEnder, connVars
<1>16. CASE CloseAnnounce(g)
  BY <1>16 DEF CloseAnnounce, Announce, Goto, Enders, Watched, Asks, TypeOK,
     TxInv, BeginInv, EndInv, OneEnder, connVars
<1>17. CASE FinishStatement(g)
  BY <1>17 DEF FinishStatement, Finish, Goto, Enders, Watched, Asks, TypeOK,
     TxInv, BeginInv, EndInv, OneEnder, connVars
<1>18. CASE FinishBegin(g)
  <2>1. BeginInv'
    BY NoTxAssumption, <1>18 DEF FinishBegin, Finish, Goto, Born, Watched,
       Enders, TypeOK, TxInv, BeginInv, EndInv, OneEnder, connVars
  <2>2. EndInv'
    BY NoTxAssumption, <1>18 DEF FinishBegin, Finish, Goto, Born, Watched,
       Enders, TypeOK, TxInv, BeginInv, EndInv, OneEnder, connVars
  <2>3. OneEnder'
    BY NoTxAssumption, <1>18 DEF FinishBegin, Finish, Goto, Born, Watched,
       Enders, TypeOK, TxInv, BeginInv, EndInv, OneEnder, connVars
  <2>4. QED
    BY <2>1, <2>2, <2>3 DEF TxInv
<1>19. CASE FinishEnd(g)
  BY <1>19 DEF FinishEnd, Finish, Goto, Enders, Watched, Asks, TypeOK,
     TxInv, BeginInv, EndInv, OneEnder, connVars
<1>20. CASE FinishAsk(g)
  BY <1>20 DEF FinishAsk, Finish, Goto, Enders, Watched, Asks, TypeOK,
     TxInv, BeginInv, EndInv, OneEnder, connVars
<1>21. CASE Stop(g)
  BY <1>21 DEF Stop, Finish, Goto, Enders, Watched, Asks, TypeOK, TxInv,
     BeginInv, EndInv, OneEnder, connVars
<1>22. CASE WatchFires(g)
  BY <1>22 DEF WatchFires, Enders, Watched, Asks, TypeOK, TxInv, BeginInv,
     EndInv, OneEnder, connVars
<1>23. CASE WatchInterrupts(g)
  BY <1>23 DEF WatchInterrupts, Enders, Watched, Asks, TypeOK, TxInv,
     BeginInv, EndInv, OneEnder, connVars
<1>24. CASE WatchStops(g)
  BY <1>24 DEF WatchStops, StopClosed, Enders, Watched, Asks, TypeOK, TxInv,
     BeginInv, EndInv, OneEnder, connVars
<1>25. QED
  BY <1>1, <1>2, <1>3, <1>4, <1>5, <1>6, <1>7, <1>8, <1>9, <1>10, <1>11,
     <1>12, <1>13, <1>14, <1>15, <1>16, <1>17, <1>18, <1>19, <1>20, <1>21,
     <1>22, <1>23, <1>24
     DEF Run, FinishShort, Watch

LEMMA TxNextInv == TypeOK /\ TxInv /\ [Next]_vars => TxInv'
<1>1. CASE UNCHANGED vars
  BY <1>1 DEF vars, connVars, TxInv, BeginInv, EndInv, OneEnder
<1>2. CASE TypeOK /\ TxInv /\ Next
  <2>1. PICK g \in Goroutines :
          \/ Begins(g)
          \/ Run(g) \/ Cancel(g) \/ CloseAnnounce(g) \/ FinishStatement(g)
             \/ FinishShort(g) \/ Stop(g) \/ Watch(g)
    BY <1>2 DEF Next, Begins
  <2>2. QED
    BY <1>2, <2>1, TxBeginsInv, TxStepsInv
<1>3. QED
  BY <1>1, <1>2

LEMMA TxHolds == Spec => []TxInv
BY TxInitInv, TxNextInv, TypeCorrect, PTL DEF Spec

(* At most one Commit or Rollback of a Tx gets past the swap and into the  *)
(* engine.                                                                 *)
THEOREM OneEnds == Spec => []OneEnder
<1>1. TxInv => OneEnder
  BY DEF TxInv
<1>2. QED
  BY <1>1, TxHolds, PTL

----------------------------------------------------------------------------
(* One connection, one goroutine at a time.                                *)

(* The calls that take a turn: all but the ones conn.go:20-25 lets in at   *)
(* any time.                                                               *)
InTurn(g) == op[g] \notin Anytime \cup {"none"}

(* Where each operation can stand, whoever else is there.                  *)
PlaceInv ==
  /\ \A g \in Goroutines :
       /\ op[g] # "none" => op[g] \in May[g]
       /\ op[g] = "none" => tx[g] = NoTx
       /\ op[g] = "close" <=> pc[g] \in {"lock", "drain", "nil"}
       /\ pc[g] = "swap" => op[g] \in Enders
       /\ pc[g] = "engine" => op[g] \notin Polls /\ claim = g
       /\ pc[g] \notin {"idle", "leave"} => res[g] = "none"
       /\ watch[g] # "none" => op[g] \in Watched
  /\ claim # NoOne => pc[claim] = "engine"

(* One goroutine at a time has a turn.                                     *)
Alone == \A g, k \in Goroutines : InTurn(g) /\ InTurn(k) => g = k

(* A connection that is gone is in no transaction.                         *)
GoneInv ==
  /\ ~live => etx = NoTx
  /\ h = "nil" => ~live /\ ~flag
  /\ \A g \in Goroutines : pc[g] = "nil" => ~live

(* The transaction of the engine, followed through the call that begins it *)
(* and the one that ends it.  Only text, or the Tx of a transaction text   *)
(* ended, takes an open Tx out of its block.                               *)
BlockInv ==
  /\ \A g \in Goroutines :
       /\ op[g] = "begin" =>
            /\ tx[g] # NoTx <=> res[g] = "ok"
            /\ tx[g] # NoTx => pc[g] = "leave" /\ etx = tx[g]
       /\ op[g] \in Enders =>
            /\ pc[g] \notin {"swap", "leave"}
                 => etx = tx[g] \/ ~live \/ tx[g] \in cut
            /\ pc[g] = "leave" => etx = NoTx \/ kept
       /\ op[g] \in Spelled /\ tx[g] # NoTx => txs[tx[g]] = "open"
  /\ \A x \in Txs : txs[x] = "open" => etx = x \/ ~live \/ x \in cut

(* The transaction of the engine has a Tx, or a call that knows it, or the *)
(* engine refused to end it.                                               *)
KnownInv ==
  etx \in Txs =>
    \/ txs[etx] = "open"
    \/ kept
    \/ \E g \in Goroutines :
         /\ tx[g] = etx
         /\ \/ op[g] = "begin"
            \/ op[g] \in Enders /\ pc[g] # "swap"

(* Conn.tx lags behind the Txs and the engine only inside a Begin, a       *)
(* Commit, a Rollback or a Close.                                          *)
FlagInv ==
  \/ /\ flag => \E x \in Txs : txs[x] = "open"
     /\ etx \in Txs => flag \/ kept
  \/ \E g \in Goroutines :
       \/ pc[g] = "nil"
       \/ op[g] = "begin" /\ tx[g] # NoTx
       \/ op[g] \in Enders /\ pc[g] # "swap"

(* An interrupt a statement finds is one raised while it ran.              *)
InterruptInv ==
  \A g \in Goroutines :
    /\ pc[g] = "engine" /\ op[g] \in Watched =>
         /\ intr \subseteq Interrupters \cup {g}
         /\ g \in intr => watch[g] = "sent"
    /\ pc[g] = "leave" /\ res[g] = "Interrupted" =>
         /\ op[g] \in Watched
         /\ watch[g] = "sent" \/ intr \ {g} # {}

TurnInv ==
  /\ Alone /\ GoneInv /\ BlockInv /\ KnownInv /\ FlagInv
  /\ NameStillLent /\ InterruptInv

LEMMA PlaceStepsInv ==
  ASSUME TypeOK, PlaceInv, NEW g \in Goroutines,
         \/ Run(g) \/ Cancel(g) \/ CloseAnnounce(g) \/ FinishStatement(g)
         \/ FinishShort(g) \/ Stop(g) \/ Watch(g)
  PROVE  PlaceInv'
<1>1. CASE Swap(g)
  BY NoOneAssumption, <1>1 DEF Swap, Spend, Goto, Watched, Enders, Polls,
     Asks, TypeOK, PlaceInv, connVars
<1>2. CASE SwapLost(g)
  BY NoOneAssumption, <1>2 DEF SwapLost, Answer, Goto, Watched, Enders, Polls,
     Asks, TypeOK, PlaceInv, connVars
<1>3. CASE TakeReadLock(g)
  BY NoOneAssumption, <1>3 DEF TakeReadLock, RLock, Goto, Watched, Enders,
     Polls, Asks, TypeOK, PlaceInv, connVars
<1>4. CASE FindClosed(g)
  BY NoOneAssumption, <1>4 DEF FindClosed, RUnlock, Answer, Goto, Watched,
     Enders, Polls, Asks, TypeOK, PlaceInv, connVars
<1>5. CASE BindFails(g)
  BY NoOneAssumption, <1>5 DEF BindFails, RUnlock, Answer, Goto, Watched,
     Enders, Polls, Asks, TypeOK, PlaceInv, connVars
<1>6. CASE Proceed(g)
  BY NoOneAssumption, <1>6 DEF Proceed, Pass, Goto, Watched, Enders, Polls,
     Asks, TypeOK, PlaceInv, connVars
<1>7. CASE EnterClosed(g)
  BY NoOneAssumption, <1>7 DEF EnterClosed, Bounce, Goto, Watched, Enders,
     Polls, Asks, TypeOK, PlaceInv, connVars
<1>8. CASE EnterConcurrent(g)
  BY NoOneAssumption, <1>8 DEF EnterConcurrent, Bounce, Goto, Watched, Enders,
     Polls, Asks, TypeOK, PlaceInv, connVars
<1>9. CASE EnterPoll(g)
  BY NoOneAssumption, <1>9 DEF EnterPoll, Bounce, Goto, Watched, Enders,
     Polls, Asks, TypeOK, PlaceInv, connVars
<1>10. CASE Enter(g)
  BY NoOneAssumption, <1>10 DEF Enter, Goto, Watched, Enders, Polls, Asks,
     TypeOK, PlaceInv, connVars
<1>11. CASE Return(g)
  BY NoOneAssumption, <1>11 DEF Return, RUnlock, Answer, Goto, Joined, Caused,
     Watched, Enders, Polls, Asks, TypeOK, PlaceInv, connVars
<1>12. CASE CloseAgain(g)
  BY NoOneAssumption, <1>12 DEF CloseAgain, Granted, Unlock, Answer, Goto,
     Watched, Enders, Polls, Asks, TypeOK, PlaceInv, connVars
<1>13. CASE CloseFree(g)
  BY NoOneAssumption, <1>13 DEF CloseFree, Free, Granted, Goto, Watched,
     Enders, Polls, Asks, TypeOK, PlaceInv, connVars
<1>14. CASE CloseClear(g)
  BY NoOneAssumption, <1>14 DEF CloseClear, LeaveClose, Unlock, Answer, Goto,
     Watched, Enders, Polls, Asks, TypeOK, PlaceInv, connVars
<1>15. CASE Cancel(g)
  BY NoOneAssumption, <1>15 DEF Cancel, Watched, Enders, Polls, Asks, TypeOK,
     PlaceInv, connVars
<1>16. CASE CloseAnnounce(g)
  BY NoOneAssumption, <1>16 DEF CloseAnnounce, Announce, Goto, Watched,
     Enders, Polls, Asks, TypeOK, PlaceInv, connVars
<1>17. CASE FinishStatement(g)
  BY NoOneAssumption, <1>17 DEF FinishStatement, Finish, Goto, Watched,
     Enders, Polls, Asks, TypeOK, PlaceInv, connVars
<1>18. CASE FinishBegin(g)
  BY NoOneAssumption, <1>18 DEF FinishBegin, Finish, Goto, Watched, Enders,
     Polls, Asks, TypeOK, PlaceInv, connVars
<1>19. CASE FinishEnd(g)
  BY NoOneAssumption, <1>19 DEF FinishEnd, Finish, Goto, Watched, Enders,
     Polls, Asks, TypeOK, PlaceInv, connVars
<1>20. CASE FinishAsk(g)
  BY NoOneAssumption, <1>20 DEF FinishAsk, Finish, Goto, Watched, Enders,
     Polls, Asks, TypeOK, PlaceInv, connVars
<1>21. CASE Stop(g)
  BY NoOneAssumption, <1>21 DEF Stop, Finish, Goto, Watched, Enders, Polls,
     Asks, TypeOK, PlaceInv, connVars
<1>22. CASE WatchFires(g)
  BY NoOneAssumption, <1>22 DEF WatchFires, Watched, Enders, Polls, Asks,
     TypeOK, PlaceInv, connVars
<1>23. CASE WatchInterrupts(g)
  BY NoOneAssumption, <1>23 DEF WatchInterrupts, Watched, Enders, Polls, Asks,
     TypeOK, PlaceInv, connVars
<1>24. CASE WatchStops(g)
  BY NoOneAssumption, <1>24 DEF WatchStops, StopClosed, Watched, Enders,
     Polls, Asks, TypeOK, PlaceInv, connVars
<1>25. QED
  BY <1>1, <1>2, <1>3, <1>4, <1>5, <1>6, <1>7, <1>8, <1>9, <1>10, <1>11,
     <1>12, <1>13, <1>14, <1>15, <1>16, <1>17, <1>18, <1>19, <1>20, <1>21,
     <1>22, <1>23, <1>24 DEF Run, FinishShort, Watch

LEMMA PlaceInitInv == Init => PlaceInv
BY DEF Init, PlaceInv, Enders

LEMMA PlaceBeginsInv ==
  ASSUME TypeOK, PlaceInv, NEW g \in Goroutines, Begins(g)
  PROVE  PlaceInv'
<1>1. PICK o \in May[g] : \E c \in ContextOf(o), x \in HandleOf(o) :
             Refuse(g, o, c, x) \/ Call(g, o, c, x)
  BY DEF Begins
<1>2. PICK c \in ContextOf(o), x \in HandleOf(o) :
             Refuse(g, o, c, x) \/ Call(g, o, c, x)
  BY <1>1
<1>3. CASE Refuse(g, o, c, x)
  BY <1>3 DEF Refuse, connVars, TypeOK, PlaceInv
<1>4. CASE Call(g, o, c, x)
  <2>1. /\ pc[g] = "idle"
        /\ pc' = [pc EXCEPT ![g] =
                     IF o = "close" THEN "lock"
                     ELSE IF o \in Enders THEN "swap" ELSE "rlock"]
        /\ op' = [op EXCEPT ![g] = o]
        /\ tx' = [tx EXCEPT ![g] = x]
        /\ res' = [res EXCEPT ![g] = "none"]
        /\ UNCHANGED <<claim, watch>>
    BY <1>4 DEF Call, Start, Goto, Enders, connVars
  <2>2. o \in Ops
    BY MayAssumption
  <2>3. QED
    BY <2>1, <2>2 DEF Ops, Watched, Enders, Asks, Polls, TypeOK, PlaceInv
<1>5. QED
  BY <1>2, <1>3, <1>4

LEMMA PlaceNextInv == TypeOK /\ PlaceInv /\ [Next]_vars => PlaceInv'
<1>1. CASE UNCHANGED vars
  BY <1>1 DEF vars, connVars, PlaceInv
<1>2. CASE TypeOK /\ PlaceInv /\ Next
  <2>1. PICK g \in Goroutines :
          \/ Begins(g)
          \/ Run(g) \/ Cancel(g) \/ CloseAnnounce(g) \/ FinishStatement(g)
             \/ FinishShort(g) \/ Stop(g) \/ Watch(g)
    BY <1>2 DEF Next, Begins
  <2>2. QED
    BY <1>2, <2>1, PlaceBeginsInv, PlaceStepsInv
<1>3. QED
  BY <1>1, <1>2

LEMMA Places == Spec => []PlaceInv
BY PlaceInitInv, PlaceNextInv, TypeCorrect, PTL DEF Spec

(* What a statement does to the transaction: nothing, or what its text     *)
(* says.                                                                   *)
Texting(g) ==
  \/ UNCHANGED <<etx, kept, cut>>
  \/ etx = NoTx /\ etx' = ByText /\ UNCHANGED <<kept, cut>>
  \/ etx' = NoTx /\ kept' = FALSE /\ cut' = cut \cup ({etx} \cap Txs)

(* A statement leaves every open Tx in its block or cut from it.           *)
LEMMA TextingInv ==
  ASSUME IInv, PlaceInv, TurnInv, NEW g \in Goroutines, Texting(g),
         op[g] \in Watched, pc[g] = "engine",
         pc' = [pc EXCEPT ![g] = "leave"],
         \E r \in Statuses : res' = [res EXCEPT ![g] = r],
         UNCHANGED <<op, tx, txs, flag, live, h>>
  PROVE  BlockInv' /\ KnownInv' /\ FlagInv' /\ GoneInv'
<1>1. /\ op[g] \notin Enders \cup {"begin"}
      /\ \A k \in Goroutines \ {g} :
           op[k] \notin Enders \cup Spelled \cup {"begin"}
  BY DEF TurnInv, Alone, InTurn, Anytime, Polls, Enders, Watched, Spelled
<1>2. live /\ \A k \in Goroutines : pc[k] # "nil"
  BY DEF IInv, HandleInv, TurnInv, GoneInv
<1>3. \A k \in Goroutines : pc'[k] # "nil"
  BY <1>2 DEF IInv, TypeOK
<1>4. BlockInv'
  <2>1. \A x \in Txs : txs[x] = "open" => etx' = x \/ x \in cut'
    BY <1>2, NoTxAssumption DEF TurnInv, BlockInv, Texting
  <2>2. op[g] \in Spelled /\ tx[g] # NoTx => txs[tx[g]] = "open"
    BY DEF TurnInv, BlockInv
  <2>3. QED
    BY <1>1, <2>1, <2>2 DEF BlockInv
<1>5. KnownInv'
  BY <1>1, NoTxAssumption, ByTextAssumption DEF TurnInv, KnownInv, Texting
<1>6. FlagInv'
  BY <1>1, <1>2, NoTxAssumption, ByTextAssumption DEF TurnInv, FlagInv, Texting
<1>7. GoneInv'
  BY <1>2, <1>3 DEF TurnInv, GoneInv
<1>8. QED
  BY <1>4, <1>5, <1>6, <1>7

LEMMA TurnStepsInv ==
  ASSUME IInv, TxInv, PlaceInv, TurnInv, NEW g \in Goroutines,
         \/ Run(g) \/ Cancel(g) \/ CloseAnnounce(g) \/ FinishStatement(g)
         \/ FinishShort(g) \/ Stop(g) \/ Watch(g)
  PROVE  TurnInv'
<1>1. CASE Swap(g)
  <2>1. BlockInv'
    BY <1>1
       DEF Swap, Spend, Goto, TurnInv, TxInv, EndInv, PlaceInv, InTurn, Alone,
           BlockInv, Polls, Spelled, Enders, Anytime
  <2>2. KnownInv'
    BY <1>1 DEF Swap, Spend, Goto, TurnInv, IInv, TypeOK, PlaceInv, KnownInv
  <2>3. FlagInv'
    BY <1>1 DEF Swap, Spend, Goto, IInv, TypeOK, PlaceInv, FlagInv
  <2>4. Alone' /\ GoneInv' /\ NameStillLent' /\ InterruptInv'
    BY <1>1
       DEF Swap, Spend, Goto, TurnInv, InTurn, Alone, GoneInv, NameStillLent,
           InterruptInv
  <2>5. QED
    BY <2>1, <2>2, <2>3, <2>4 DEF TurnInv
<1>2. CASE SwapLost(g)
  <2>1. KnownInv' /\ FlagInv'
    <3>1. op[g] \in Enders /\ pc[g] = "swap"
      BY <1>2 DEF SwapLost, PlaceInv
    <3>2. \A k \in Goroutines \ {g} : UNCHANGED <<pc[k], op[k], tx[k]>>
      BY <1>2 DEF SwapLost, Answer, Goto, IInv, TypeOK
    <3>3. UNCHANGED <<flag, txs, etx, kept>>
      BY <1>2 DEF SwapLost, connVars
    <3>4. QED
      BY <3>1, <3>2, <3>3 DEF TurnInv, KnownInv, FlagInv, Enders
  <2>2. Alone' /\ GoneInv' /\ BlockInv' /\ NameStillLent' /\ InterruptInv'
    BY <1>2
       DEF SwapLost, Answer, Goto, connVars, TurnInv, IInv, TypeOK, InTurn, Alone, GoneInv,
           BlockInv, NameStillLent, InterruptInv, Enders
  <2>3. QED
    BY <2>1, <2>2 DEF TurnInv
<1>3. CASE TakeReadLock(g)
  BY <1>3
     DEF TakeReadLock, Goto, TurnInv, InTurn, Alone, GoneInv, BlockInv,
         KnownInv, FlagInv, NameStillLent, InterruptInv, connVars
<1>4. CASE FindClosed(g)
  <2>1. KnownInv' /\ FlagInv'
    <3>1. etx' = NoTx /\ ~flag'
      BY <1>4 DEF FindClosed, TurnInv, GoneInv, connVars
    <3>2. QED
      BY <3>1, NoTxAssumption DEF KnownInv, FlagInv
  <2>2. Alone' /\ GoneInv' /\ BlockInv' /\ NameStillLent' /\ InterruptInv'
    BY <1>4
       DEF FindClosed, Answer, Goto, connVars, TurnInv, IInv, TypeOK, InTurn, Alone, GoneInv,
           BlockInv, NameStillLent, InterruptInv, Enders
  <2>3. QED
    BY <2>1, <2>2 DEF TurnInv
<1>5. CASE BindFails(g)
  BY <1>5
     DEF BindFails, Answer, Goto, TurnInv, IInv, TypeOK, InTurn, Alone,
         GoneInv, BlockInv, KnownInv, FlagInv, NameStillLent, InterruptInv,
         Enders, connVars
<1>6. CASE Proceed(g)
  BY <1>6
     DEF Proceed, Pass, Goto, TurnInv, InTurn, Alone, GoneInv, BlockInv,
         KnownInv, FlagInv, NameStillLent, InterruptInv, connVars
<1>7. CASE EnterClosed(g)
  BY <1>7
     DEF EnterClosed, Bounce, Goto, TurnInv, IInv, TypeOK, InTurn, Alone,
         GoneInv, BlockInv, KnownInv, FlagInv, NameStillLent, InterruptInv
<1>8. CASE EnterConcurrent(g)
  BY <1>8
     DEF EnterConcurrent, TurnInv, IInv, TypeOK, PlaceInv, InTurn, Alone,
         Anytime
<1>9. CASE EnterPoll(g)
  BY <1>9
     DEF EnterPoll, Bounce, Goto, TurnInv, PlaceInv, InTurn, Alone, GoneInv,
         BlockInv, KnownInv, FlagInv, NameStillLent, InterruptInv,
         Interrupters, Polls, Enders
<1>10. CASE Enter(g)
  <2>1. InterruptInv'
    BY <1>10
       DEF Enter, Goto, TurnInv, IInv, TypeOK, PlaceInv, InTurn, Alone,
           InterruptInv, Asks, Polls, Watched, Anytime
  <2>2. Alone' /\ GoneInv' /\ BlockInv' /\ KnownInv' /\ FlagInv' /\
       NameStillLent'
    BY <1>10
       DEF Enter, Goto, TurnInv, InTurn, Alone, GoneInv, BlockInv, KnownInv,
           FlagInv, NameStillLent
  <2>3. QED
    BY <2>1, <2>2 DEF TurnInv
<1>11. CASE Return(g)
  <2>1. GoneInv'
    BY <1>11 DEF Return, Answer, Goto, TurnInv, GoneInv, BlockInv
  <2>2. BlockInv'
    BY <1>11 DEF Return, Answer, Goto, TurnInv, IInv, TypeOK, BlockInv, Enders
  <2>3. KnownInv'
    BY <1>11, NoTxAssumption
       DEF Return, Answer, Goto, TurnInv, IInv, TypeOK, BlockInv, KnownInv
  <2>4. FlagInv'
    <3>1. CASE op[g] = "begin" /\ res[g] = "ok"
      <4>1. tx[g] \in Txs /\ txs'[tx[g]] = "open"
        BY <1>11, <3>1 DEF Return, TurnInv, IInv, TypeOK, BlockInv
      <4>2. flag'
        BY <1>11, <3>1 DEF Return, Enders
      <4>3. QED
        BY <4>1, <4>2 DEF FlagInv
    <3>2. CASE op[g] \in Enders
      <4>1. ~flag' /\ etx' = etx /\ kept' = kept /\ (etx = NoTx \/ kept)
        BY <1>11, <3>2 DEF Return, TurnInv, BlockInv, Enders
      <4>2. QED
        BY <4>1, NoTxAssumption DEF FlagInv
    <3>3. CASE ~(op[g] = "begin" /\ res[g] = "ok") /\ op[g] \notin Enders
      <4>1. UNCHANGED <<flag, txs, etx, kept>>
        BY <1>11, <3>3 DEF Return
      <4>2. /\ pc[g] # "nil"
            /\ ~(op[g] = "begin" /\ tx[g] # NoTx)
            /\ op[g] \notin Enders
        BY <1>11, <3>3 DEF Return, TurnInv, BlockInv, Enders
      <4>3. \A k \in Goroutines \ {g} : UNCHANGED <<pc[k], op[k], tx[k]>>
        BY <1>11 DEF Return, Answer, Goto, IInv, TypeOK
      <4>4. QED
        BY <4>1, <4>2, <4>3 DEF TurnInv, FlagInv
    <3>4. QED
      BY <3>1, <3>2, <3>3
  <2>5. Alone' /\ NameStillLent' /\ InterruptInv'
    BY <1>11
       DEF Return, Answer, Goto, TurnInv, IInv, TypeOK, InTurn, Alone,
           NameStillLent, InterruptInv
  <2>6. QED
    BY <2>1, <2>2, <2>3, <2>4, <2>5 DEF TurnInv
<1>12. CASE CloseAgain(g)
  <2>1. KnownInv' /\ FlagInv'
    <3>1. etx' = NoTx /\ ~flag'
      BY <1>12 DEF CloseAgain, TurnInv, GoneInv, connVars
    <3>2. QED
      BY <3>1, NoTxAssumption DEF KnownInv, FlagInv
  <2>2. Alone' /\ GoneInv' /\ BlockInv' /\ NameStillLent' /\ InterruptInv'
    BY <1>12
       DEF CloseAgain, Answer, Goto, connVars, TurnInv, IInv, TypeOK, InTurn, Alone, GoneInv,
           BlockInv, NameStillLent, InterruptInv, Enders
  <2>3. QED
    BY <2>1, <2>2 DEF TurnInv
<1>13. CASE CloseFree(g)
  <2>1. GoneInv'
    BY <1>13 DEF CloseFree, Free, GoneInv
  <2>2. BlockInv'
    BY <1>13
       DEF CloseFree, Free, Granted, TurnInv, IInv, LockInv, BlockInv,
           ReadSide
  <2>3. NameStillLent'
    BY <1>13
       DEF CloseFree, Free, Granted, Goto, IInv, LockInv, NameStillLent,
           ReadSide
  <2>4. KnownInv' /\ FlagInv'
    BY <1>13, NoTxAssumption
       DEF CloseFree, Free, Goto, IInv, TypeOK, KnownInv, FlagInv
  <2>5. Alone' /\ InterruptInv'
    BY <1>13
       DEF CloseFree, Free, Goto, TurnInv, IInv, TypeOK, InTurn, Alone,
           InterruptInv
  <2>6. QED
    BY <2>1, <2>2, <2>3, <2>4, <2>5 DEF TurnInv
<1>14. CASE CloseClear(g)
  <2>1. GoneInv'
    BY <1>14 DEF CloseClear, LeaveClose, TurnInv, GoneInv
  <2>2. KnownInv' /\ FlagInv'
    <3>1. etx' = NoTx /\ ~flag'
      BY <1>14 DEF CloseClear, LeaveClose, TurnInv, GoneInv
    <3>2. QED
      BY <3>1, NoTxAssumption DEF KnownInv, FlagInv
  <2>3. BlockInv'
    <3>1. /\ ~live' /\ etx' = etx /\ txs' = txs
          /\ op[g] \notin Enders \cup Spelled \cup {"begin"} /\ op'[g] = "none"
      BY <1>14
         DEF CloseClear, LeaveClose, Answer, IInv, TypeOK, TurnInv, GoneInv,
             PlaceInv, Enders, Spelled
    <3>2. \A k \in Goroutines \ {g} :
            UNCHANGED <<pc[k], op[k], tx[k], res[k]>>
      BY <1>14 DEF CloseClear, LeaveClose, Answer, Goto, IInv, TypeOK
    <3>3. kept' = kept /\ cut' = cut
      BY <1>14 DEF CloseClear, LeaveClose
    <3>4. QED
      BY <3>1, <3>2, <3>3 DEF TurnInv, BlockInv, Enders, Spelled
  <2>4. Alone' /\ NameStillLent' /\ InterruptInv'
    BY <1>14
       DEF CloseClear, LeaveClose, Answer, Goto, TurnInv, IInv, TypeOK,
           InTurn, Alone, NameStillLent, InterruptInv
  <2>5. QED
    BY <2>1, <2>2, <2>3, <2>4 DEF TurnInv
<1>15. CASE Cancel(g)
  BY <1>15
     DEF Cancel, TurnInv, InTurn, Alone, GoneInv, BlockInv, KnownInv, FlagInv,
         NameStillLent, InterruptInv, connVars
<1>16. CASE CloseAnnounce(g)
  BY <1>16
     DEF CloseAnnounce, Goto, TurnInv, InTurn, Alone, GoneInv, BlockInv,
         KnownInv, FlagInv, NameStillLent, InterruptInv, connVars
<1>17. CASE FinishStatement(g)
  <2>1. Texting(g)
    BY <1>17 DEF FinishStatement, TextStarts, TextEnds, Texting
  <2>2. /\ op[g] \in Watched /\ pc[g] = "engine"
        /\ pc' = [pc EXCEPT ![g] = "leave"]
        /\ \E r \in Statuses \ {"Interrupted"} : res' = [res EXCEPT ![g] = r]
        /\ UNCHANGED <<op, tx, txs, flag, live, h, watch, lent, intr>>
    BY <1>17 DEF FinishStatement, Finish, Goto, Statuses
  <2>3. BlockInv' /\ KnownInv' /\ FlagInv' /\ GoneInv'
    BY <2>1, <2>2, TextingInv
  <2>4. Alone' /\ NameStillLent' /\ InterruptInv'
    BY <2>2
       DEF TurnInv, IInv, TypeOK, InTurn, Alone, NameStillLent, InterruptInv,
           Watched
  <2>5. QED
    BY <2>3, <2>4 DEF TurnInv
<1>18. CASE FinishBegin(g)
  <2>1. BlockInv'
    BY <1>18, NoTxAssumption
       DEF FinishBegin, Finish, Goto, TurnInv, IInv, TypeOK, InTurn, Alone,
           BlockInv, Polls, Spelled, Enders, Anytime
  <2>2. KnownInv'
    BY <1>18 DEF FinishBegin, Finish, Goto, TurnInv, IInv, TypeOK, KnownInv
  <2>3. FlagInv'
    BY <1>18, NoTxAssumption
       DEF FinishBegin, Finish, Goto, TurnInv, IInv, TypeOK, FlagInv
  <2>4. Alone' /\ GoneInv' /\ NameStillLent' /\ InterruptInv'
    BY <1>18
       DEF FinishBegin, Finish, Goto, TurnInv, IInv, TypeOK, HandleInv,
           InTurn, Alone, GoneInv, NameStillLent, InterruptInv
  <2>5. QED
    BY <2>1, <2>2, <2>3, <2>4 DEF TurnInv
<1>19. CASE FinishEnd(g)
  <2>1. PICK after \in {NoTx, etx} :
          /\ etx' = after
          /\ kept' = (after # NoTx)
          /\ cut' = IF tx[g] \in cut /\ after = NoTx
                    THEN cut \cup ({etx} \cap Txs) ELSE cut
    BY <1>19 DEF FinishEnd
  <2>2. /\ op[g] \in Enders /\ pc[g] = "engine"
        /\ pc' = [pc EXCEPT ![g] = "leave"]
        /\ \E r \in {"ok", "Failed"} : res' = [res EXCEPT ![g] = r]
        /\ UNCHANGED <<op, tx, txs, flag, live, h, watch, lent, intr>>
    BY <1>19 DEF FinishEnd, Finish, Goto
  <2>3. /\ live
        /\ tx[g] \in Txs /\ txs[tx[g]] = "done"
        /\ etx = tx[g] \/ tx[g] \in cut
        /\ \A k \in Goroutines \ {g} : ~InTurn(k)
    <3>1. live /\ tx[g] \in Txs /\ txs[tx[g]] = "done"
      BY <2>2 DEF IInv, HandleInv, TxInv, EndInv
    <3>2. etx = tx[g] \/ tx[g] \in cut
      BY <2>2, <3>1 DEF TurnInv, BlockInv
    <3>3. \A k \in Goroutines \ {g} : ~InTurn(k)
      BY <2>2 DEF TurnInv, Alone, InTurn, Anytime, Polls, Enders
    <3>4. QED
      BY <3>1, <3>2, <3>3
  <2>4. BlockInv'
    <3>1. \A x \in Txs : txs[x] = "open" => etx' = x \/ x \in cut'
      BY <2>1, <2>3 DEF TurnInv, BlockInv
    <3>2. \A k \in Goroutines \ {g} :
            op[k] # "begin" /\ op[k] \notin Enders \cup Spelled
      BY <2>3 DEF InTurn, Anytime, Polls, Enders, Spelled
    <3>3. op[g] \notin Spelled \cup {"begin"} /\ pc'[g] = "leave"
      BY <2>2 DEF Enders, Spelled, IInv, TypeOK
    <3>4. etx' = NoTx \/ kept'
      BY <2>1
    <3>5. QED
      BY <2>2, <3>1, <3>2, <3>3, <3>4 DEF BlockInv
  <2>5. KnownInv'
    BY <2>1, NoTxAssumption DEF KnownInv
  <2>6. FlagInv'
    BY <2>2 DEF IInv, TypeOK, FlagInv
  <2>7. GoneInv'
    BY <2>2, <2>3 DEF IInv, TypeOK, TurnInv, GoneInv
  <2>8. Alone' /\ NameStillLent' /\ InterruptInv'
    BY <2>2
       DEF TurnInv, IInv, TypeOK, InTurn, Alone, NameStillLent, InterruptInv,
           Enders
  <2>9. QED
    BY <2>4, <2>5, <2>6, <2>7, <2>8 DEF TurnInv
<1>20. CASE FinishAsk(g)
  <2>1. NameStillLent'
    BY <1>20
       DEF FinishAsk, Finish, TurnInv, IInv, TypeOK, PlaceInv, InTurn, Alone,
           NameStillLent, Anytime
  <2>2. Alone' /\ GoneInv' /\ BlockInv' /\ KnownInv' /\ FlagInv' /\
       InterruptInv'
    BY <1>20
       DEF FinishAsk, Finish, Goto, TurnInv, IInv, TypeOK, InTurn, Alone,
           GoneInv, BlockInv, KnownInv, FlagInv, InterruptInv, Asks, Enders
  <2>3. QED
    BY <2>1, <2>2 DEF TurnInv
<1>21. CASE Stop(g)
  <2>1. Texting(g)
    BY <1>21 DEF Stop, TextEnds, Texting
  <2>2. /\ op[g] \in Watched /\ pc[g] = "engine"
        /\ pc' = [pc EXCEPT ![g] = "leave"]
        /\ UNCHANGED <<op, tx, txs, flag, live, h>>
    BY <1>21 DEF Stop, Finish, Goto
  <2>3. BlockInv' /\ KnownInv' /\ FlagInv' /\ GoneInv'
    <3>1. \E r \in Statuses : res' = [res EXCEPT ![g] = r]
      BY <1>21 DEF Stop, Finish, Statuses
    <3>2. QED
      BY <2>1, <2>2, <3>1, TextingInv
  <2>4. InterruptInv'
    BY <1>21 DEF Stop, Finish, Goto, TurnInv, InterruptInv
  <2>5. Alone' /\ NameStillLent'
    BY <1>21
       DEF Stop, Finish, Goto, TurnInv, InTurn, Alone, NameStillLent, Watched
  <2>6. QED
    BY <2>3, <2>4, <2>5 DEF TurnInv
<1>22. CASE WatchFires(g)
  BY <1>22
     DEF WatchFires, TurnInv, InTurn, Alone, GoneInv, BlockInv, KnownInv,
         FlagInv, NameStillLent, InterruptInv, connVars
<1>23. CASE WatchInterrupts(g)
  <2>1. InterruptInv'
    BY <1>23
       DEF WatchInterrupts, TurnInv, IInv, TypeOK, PlaceInv, InTurn, Alone,
           InterruptInv, Polls, Watched, Anytime
  <2>2. Alone' /\ GoneInv' /\ BlockInv' /\ KnownInv' /\ FlagInv' /\
       NameStillLent'
    BY <1>23
       DEF WatchInterrupts, TurnInv, InTurn, Alone, GoneInv, BlockInv,
           KnownInv, FlagInv, NameStillLent
  <2>3. QED
    BY <2>1, <2>2 DEF TurnInv
<1>24. CASE WatchStops(g)
  BY <1>24
     DEF WatchStops, StopClosed, TurnInv, InTurn, Alone, GoneInv, BlockInv,
         KnownInv, FlagInv, NameStillLent, InterruptInv, connVars
<1>25. QED
  BY <1>1, <1>2, <1>3, <1>4, <1>5, <1>6, <1>7, <1>8, <1>9, <1>10, <1>11,
     <1>12, <1>13, <1>14, <1>15, <1>16, <1>17, <1>18, <1>19, <1>20, <1>21,
     <1>22, <1>23, <1>24
     DEF Run, FinishShort, Watch

LEMMA TurnInitInv == Init => TurnInv
BY NoTxAssumption DEF Init, TurnInv, InTurn, Alone, GoneInv, BlockInv, KnownInv, FlagInv,
   NameStillLent, InterruptInv, Enders, Spelled

LEMMA TurnBeginsInv ==
  ASSUME Exclusive, TypeOK, PlaceInv, TurnInv, NEW g \in Goroutines, Begins(g)
  PROVE  TurnInv'
<1>1. PICK o \in May[g] : \E c \in ContextOf(o), x \in HandleOf(o) :
             Refuse(g, o, c, x) \/ Call(g, o, c, x)
  BY DEF Begins
<1>2. PICK c \in ContextOf(o), x \in HandleOf(o) :
             Refuse(g, o, c, x) \/ Call(g, o, c, x)
  BY <1>1
<1>3. CASE Refuse(g, o, c, x)
  <2>1. /\ pc[g] = "idle"
        /\ \E r \in Statuses : res' = [res EXCEPT ![g] = r]
        /\ UNCHANGED <<connVars, pc, op, tx, watch>>
    BY <1>3 DEF Refuse, Statuses
  <2>2. op[g] = "none"
    BY <2>1 DEF TypeOK
  <2>3. QED
    BY <2>1, <2>2
       DEF connVars, TypeOK, TurnInv, InTurn, Alone, GoneInv, BlockInv,
           KnownInv, FlagInv, NameStillLent, InterruptInv, Enders
<1>4. CASE Call(g, o, c, x)
  <2>1. /\ pc[g] = "idle"
        /\ pc' = [pc EXCEPT ![g] =
                     IF o = "close" THEN "lock"
                     ELSE IF o \in Enders THEN "swap" ELSE "rlock"]
        /\ op' = [op EXCEPT ![g] = o]
        /\ tx' = [tx EXCEPT ![g] = x]
        /\ res' = [res EXCEPT ![g] = "none"]
        /\ o # "rollback" => ~Spent(x)
        /\ UNCHANGED <<connVars, watch>>
    BY <1>4 DEF Call, Start, Goto, Enders
  <2>2. /\ o \in Ops
        /\ op[g] = "none"
        /\ o \notin Anytime => \A k \in Goroutines \ {g} : ~InTurn(k)
    BY <1>4, <2>1, MayAssumption DEF Call, Start, MayUse, InTurn, TypeOK
  <2>3. /\ x \in Born \cup {NoTx}
        /\ o \notin Enders \cup Spelled => x = NoTx
    BY DEF HandleOf, Enders, Spelled
  <2>4. Alone' /\ GoneInv' /\ NameStillLent' /\ InterruptInv'
    BY <2>1, <2>2
       DEF connVars, TypeOK, TurnInv, InTurn, Alone, GoneInv, NameStillLent,
           InterruptInv, Anytime
  <2>5. BlockInv'
    BY <2>1, <2>2, <2>3, NoTxAssumption
       DEF connVars, TypeOK, TurnInv, BlockInv, Born, Spent, Enders, Spelled
  <2>6. KnownInv' /\ FlagInv'
    BY <2>1, <2>2 DEF connVars, TypeOK, TurnInv, KnownInv, FlagInv, Enders
  <2>7. QED
    BY <2>4, <2>5, <2>6 DEF TurnInv
<1>5. QED
  BY <1>2, <1>3, <1>4

LEMMA TurnNextInv ==
  Exclusive /\ IInv /\ TxInv /\ PlaceInv /\ TurnInv /\ [Next]_vars => TurnInv'
<1>1. CASE UNCHANGED vars
  BY <1>1 DEF vars, connVars, TurnInv, InTurn, Alone, GoneInv, BlockInv,
     KnownInv, FlagInv, NameStillLent, InterruptInv
<1>2. CASE Exclusive /\ IInv /\ TxInv /\ PlaceInv /\ TurnInv /\ Next
  <2>1. PICK g \in Goroutines :
          \/ Begins(g)
          \/ Run(g) \/ Cancel(g) \/ CloseAnnounce(g) \/ FinishStatement(g)
             \/ FinishShort(g) \/ Stop(g) \/ Watch(g)
    BY <1>2 DEF Next, Begins
  <2>2. TypeOK
    BY <1>2 DEF IInv
  <2>3. QED
    BY <1>2, <2>1, <2>2, TurnBeginsInv, TurnStepsInv
<1>3. QED
  BY <1>1, <1>2

LEMMA Turns == ASSUME Exclusive PROVE Spec => []TurnInv
<1>1. TurnInv /\ IInv /\ TxInv /\ PlaceInv /\ [Next]_vars => TurnInv'
  BY TurnNextInv
<1>2. QED
  BY <1>1, TurnInitInv, Invariance, TxHolds, Places, PTL DEF Spec

(* Where the rule is kept, a transaction Begin started has a Tx that can   *)
(* end it, or a call that is making that Tx or ending it, whatever the     *)
(* statements' text does, until the engine refuses to end it.              *)
THEOREM NoOrphans == ASSUME Exclusive PROVE Spec => []NoOrphanTransaction
<1>1. TurnInv => NoOrphanTransaction
  BY DEF TurnInv, KnownInv, NoOrphanTransaction
<1>2. QED
  BY <1>1, Turns, PTL

(* Where the rule is kept, a statement spelled through a Tx runs inside    *)
(* the block of that Tx, unless transaction text broke the block.          *)
THEOREM StatementsInside == ASSUME Exclusive PROVE Spec => []TxStatementsInside
<1>1. IInv /\ PlaceInv /\ TurnInv => TxStatementsInside
  <2>1. IInv /\ PlaceInv => \A g \in Goroutines : pc[g] = "engine" => live
    BY DEF IInv, HandleInv, TypeOK, PlaceInv
  <2>2. QED
    BY <2>1 DEF IInv, TypeOK, TurnInv, BlockInv, TxStatementsInside
<1>2. QED
  BY <1>1, Turns, Places, Invariance, PTL

(* Where the rule is kept, an idle connection's Conn.tx agrees with its Txs *)
(* and the engine, but for what text and a refused end put between them.   *)
THEOREM FlagTells == ASSUME Exclusive PROVE Spec => []FlagAgrees
<1>1. ASSUME IInv, TurnInv, \A g \in Goroutines : pc[g] = "idle"
      PROVE  /\ flag => \E x \in Txs : txs[x] = "open" /\ (etx = x \/ x \in cut)
             /\ etx \in Txs => flag \/ kept
  <2>1. \A g \in Goroutines : op[g] = "none"
    BY <1>1 DEF IInv, TypeOK
  <2>2. /\ flag => \E x \in Txs : txs[x] = "open"
        /\ etx \in Txs => flag \/ kept
    BY <1>1, <2>1 DEF TurnInv, FlagInv, Enders
  <2>3. flag => live
    BY <1>1 DEF IInv, TypeOK, HandleInv, TurnInv, GoneInv
  <2>4. \A x \in Txs : txs[x] = "open" => etx = x \/ ~live \/ x \in cut
    BY <1>1 DEF TurnInv, BlockInv
  <2>5. QED
    BY <2>2, <2>3, <2>4
<1>2. IInv /\ TurnInv => FlagAgrees
  BY <1>1 DEF FlagAgrees
<1>3. QED
  BY <1>2, Turns, Invariance, PTL

(* Where the rule is kept, TableName reads a name the engine still lends   *)
(* to it.                                                                  *)
THEOREM NameLent == ASSUME Exclusive PROVE Spec => []NameStillLent
<1>1. TurnInv => NameStillLent
  BY DEF TurnInv
<1>2. QED
  BY <1>1, Turns, PTL

(* Only a step of g itself changes its place and its answer, and of those  *)
(* only Stop takes Interrupted from inside the engine.                     *)
LEMMA OwnInterruptsStep ==
  ASSUME IInv, PlaceInv, TurnInv, [Next]_vars,
         NEW g \in Goroutines, pc[g] = "engine", res'[g] = "Interrupted"
  PROVE  intr \subseteq Interrupters \cup {g}
<1>1. TypeOK /\ res[g] # "Interrupted"
  BY DEF IInv, PlaceInv
<1>2. PICK k \in Goroutines :
        \/ Begins(k)
        \/ Run(k) \/ Cancel(k) \/ CloseAnnounce(k) \/ FinishStatement(k)
           \/ FinishShort(k) \/ Stop(k) \/ Watch(k)
  BY <1>1 DEF Next, Begins, vars
<1>3. CASE Stop(k)
  BY <1>1, <1>3 DEF Stop, Finish, TypeOK, TurnInv, InterruptInv
<1>4. CASE Begins(k)
  BY <1>1, <1>4 DEF Begins, Refuse, Call, Start, TypeOK
<1>5. CASE Run(k)
  <2>1. CASE Swap(k) \/ SwapLost(k) \/ TakeReadLock(k) \/ FindClosed(k)
    BY <1>1, <2>1
       DEF Swap, Spend, SwapLost, TakeReadLock, FindClosed, Answer, TypeOK
  <2>2. CASE BindFails(k) \/ Proceed(k) \/ EnterClosed(k) \/ EnterConcurrent(k)
    BY <1>1, <2>2
       DEF BindFails, Proceed, Pass, EnterClosed, EnterConcurrent, Bounce,
           Answer, TypeOK
  <2>3. CASE EnterPoll(k) \/ Enter(k) \/ Return(k)
    BY <1>1, <2>3 DEF EnterPoll, Enter, Bounce, Return, Answer, TypeOK
  <2>4. CASE CloseAgain(k) \/ CloseFree(k) \/ CloseClear(k)
    BY <1>1, <2>4
       DEF CloseAgain, CloseFree, Free, CloseClear, LeaveClose, Answer, TypeOK
  <2>5. QED
    BY <1>5, <2>1, <2>2, <2>3, <2>4 DEF Run
<1>6. CASE Cancel(k) \/ CloseAnnounce(k) \/ Watch(k)
  BY <1>1, <1>6
     DEF Cancel, CloseAnnounce, Watch, WatchFires, WatchInterrupts,
         WatchStops, StopClosed
<1>7. CASE FinishStatement(k) \/ FinishShort(k)
  BY <1>1, <1>7
     DEF FinishStatement, FinishShort, FinishBegin, FinishEnd, FinishAsk,
         Finish, TypeOK
<1>8. QED
  BY <1>2, <1>3, <1>4, <1>5, <1>6, <1>7

(* Where the rule is kept, a statement stops for its own context or for a  *)
(* caller of Interrupt, never for the watcher of another statement.        *)
THEOREM OwnInterrupts == ASSUME Exclusive PROVE Spec => OwnInterruptsOnly
<1>1. IInv /\ PlaceInv /\ TurnInv /\ [Next]_vars
        => [\A g \in Goroutines :
              pc[g] = "engine" /\ res'[g] = "Interrupted"
                => intr \subseteq Interrupters \cup {g}]_vars
  BY OwnInterruptsStep
<1>2. QED
  BY <1>1, Turns, Places, Invariance, PTL DEF Spec, OwnInterruptsOnly

(* Only Return takes a call from behind the engine to its caller.          *)
LEMMA CauseStep ==
  ASSUME IInv, TurnInv, [Next]_vars, NEW g \in Goroutines,
         pc[g] = "leave", pc'[g] = "idle", res'[g] = "Interrupted"
  PROVE  intr \ {g} # {}
<1>1. TypeOK
  BY DEF IInv
<1>2. PICK k \in Goroutines :
        \/ Begins(k)
        \/ Run(k) \/ Cancel(k) \/ CloseAnnounce(k) \/ FinishStatement(k)
           \/ FinishShort(k) \/ Stop(k) \/ Watch(k)
  BY DEF Next, Begins, vars
<1>3. CASE Return(k)
  <2>1. k = g /\ Caused(g) = "Interrupted"
    BY <1>1, <1>3 DEF Return, Answer, Goto, TypeOK
  <2>2. res[g] = "Interrupted" /\ watch[g] # "sent"
    BY <2>1 DEF Caused
  <2>3. QED
    BY <2>2 DEF TurnInv, InterruptInv
<1>4. CASE Begins(k)
  BY <1>1, <1>4 DEF Begins, Refuse, Call, Start, Goto, TypeOK
<1>5. CASE Run(k) /\ ~Return(k)
  <2>1. CASE Swap(k) \/ SwapLost(k) \/ TakeReadLock(k) \/ FindClosed(k)
    BY <1>1, <2>1
       DEF Swap, Spend, SwapLost, TakeReadLock, FindClosed, Answer, Goto, TypeOK
  <2>2. CASE BindFails(k) \/ Proceed(k) \/ EnterClosed(k) \/ EnterConcurrent(k)
    BY <1>1, <2>2
       DEF BindFails, Proceed, Pass, EnterClosed, EnterConcurrent, Bounce,
           Answer, Goto, TypeOK
  <2>3. CASE EnterPoll(k) \/ Enter(k)
    BY <1>1, <2>3 DEF EnterPoll, Enter, Bounce, Answer, Goto, TypeOK
  <2>4. CASE CloseAgain(k) \/ CloseFree(k) \/ CloseClear(k)
    BY <1>1, <2>4
       DEF CloseAgain, CloseFree, Free, CloseClear, LeaveClose, Answer, Goto,
           TypeOK
  <2>5. QED
    BY <1>5, <2>1, <2>2, <2>3, <2>4 DEF Run
<1>6. CASE Cancel(k) \/ CloseAnnounce(k) \/ Watch(k)
  BY <1>1, <1>6
     DEF Cancel, CloseAnnounce, Goto, Watch, WatchFires, WatchInterrupts,
         WatchStops, StopClosed, TypeOK
<1>7. CASE FinishStatement(k) \/ FinishShort(k) \/ Stop(k)
  BY <1>1, <1>7
     DEF FinishStatement, FinishShort, FinishBegin, FinishEnd, FinishAsk,
         Stop, Finish, Goto, TypeOK
<1>8. QED
  BY <1>2, <1>3, <1>4, <1>5, <1>6, <1>7

(* Where the rule is kept, a call that answers Interrupted without its     *)
(* context's error was interrupted by somebody else.                       *)
THEOREM CauseTold == ASSUME Exclusive PROVE Spec => CauseReported
<1>1. IInv /\ TurnInv /\ [Next]_vars
        => [\A g \in Goroutines :
              pc[g] = "leave" /\ pc'[g] = "idle" /\ res'[g] = "Interrupted"
                => intr \ {g} # {}]_vars
  BY CauseStep
<1>2. QED
  BY <1>1, Turns, Invariance, PTL DEF Spec, CauseReported
=============================================================================

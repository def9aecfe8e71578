-------------------------------- MODULE Conn --------------------------------
(***************************************************************************)
(* One zu.Conn and everything that reaches the engine through it: the      *)
(* calls of conn.go, the Tx of tx.go and the execution of a Stmt, made by  *)
(* any number of goroutines, with the watcher goroutine of every statement *)
(* whose context can be cancelled.                                         *)
(*                                                                         *)
(* The connection inside libzu (lib/, behind include/zu.h) is external.    *)
(* It is modelled by its contract: a call claims the connection and a      *)
(* second one is refused with Concurrent (zu.h:10-12), an interrupt may    *)
(* arrive at any time, stops the statement that is running and is dropped  *)
(* when the next one starts (zu.h:379-393), and closing rolls back         *)
(* (zu.h:486-489).                                                         *)
(***************************************************************************)
EXTENDS RWMutex

CONSTANTS
  May,   (* May[g]: the operations goroutine g makes on the connection     *)
  Exclusive,  (* whether the goroutines keep the rule of conn.go:20-25 and *)
              (* use the connection one at a time                          *)
  Texts, (* Texts[g]: what the statements g runs may spell themselves:      *)
         (* "start" a transaction, "end" one by COMMIT or ROLLBACK          *)
  Txs,   (* the Tx handles Begin can hand out; bounds the begins           *)
  NoTx,  (* no transaction                                                 *)
  ByText (* a transaction a statement's text started, which has no Tx      *)

Watched == {"query", "prepare", "execute"}      (* statements with a watcher *)
Enders == {"commit", "rollback"}
Asks == {"tablename", "duplicate", "intransaction"}
Polls == {"interrupt", "rowsread"}              (* calls that claim nothing  *)
Ops == Watched \cup Enders \cup Asks \cup Polls \cup {"begin", "close"}

(* The operations that answer ctx.Err() before they do anything.           *)
ObeysContext == Watched \cup {"duplicate", "begin", "commit"}
(* The operations Tx.Query, Tx.Exec and Tx.Prepare spell through a Tx.      *)
Spelled == {"query", "prepare"}

Statuses == {"none", "ok", "Misuse", "Closed", "Concurrent", "Failed",
             "Interrupted", "Cancelled", "Context", "ErrDone"}

ASSUME MayAssumption == \A g \in Goroutines : May[g] \subseteq Ops
ASSUME ExclusiveAssumption == Exclusive \in BOOLEAN
ASSUME TextsAssumption == \A g \in Goroutines : Texts[g] \subseteq {"start", "end"}
ASSUME NoTxAssumption == NoTx \notin Txs
ASSUME ByTextAssumption == ByText \notin Txs \cup {NoTx}

VARIABLES
  h,      (* Conn.h: "open", or "nil" once Close has cleared it            *)
  flag,   (* Conn.tx                                                       *)
  live,   (* whether the engine's connection exists                        *)
  claim,  (* the goroutine whose call claims the connection, or NoOne      *)
  intr,   (* the interrupt raised and not dropped, as the goroutines on    *)
          (* whose behalf it was raised: the engine keeps only one bit     *)
  etx,    (* the Tx whose transaction the engine is in, ByText, or NoTx    *)
  kept,   (* history: the engine has refused to end the transaction it is  *)
          (* in, and is in it still                                        *)
  cut,    (* history: the Txs whose transaction was ended by a statement's *)
          (* text, or through another Tx whose own had been                *)
  lent,   (* whose table name the engine's loan is, or NoOne               *)
  txs,    (* per Tx handle: "unborn", "open", "done" (Tx.done)             *)
  stmts,  (* the goroutines that have prepared a statement                 *)
  pc, op, ctx, tx, watch, res   (* per goroutine, see TypeOK               *)

connVars == <<h, flag, live, claim, intr, etx, kept, cut, lent, txs, stmts>>
vars == <<muVars, connVars, pc, op, ctx, tx, watch, res>>

TypeOK ==
  /\ MuTypeOK
  /\ h \in {"open", "nil"}
  /\ flag \in BOOLEAN /\ live \in BOOLEAN
  /\ claim \in Goroutines \cup {NoOne}
  /\ intr \subseteq Goroutines
  /\ etx \in Txs \cup {NoTx, ByText} /\ kept \in BOOLEAN /\ cut \subseteq Txs
  /\ lent \in Goroutines \cup {NoOne}
  /\ txs \in [Txs -> {"unborn", "open", "done"}]
  /\ stmts \subseteq Goroutines
  /\ pc \in [Goroutines -> {"idle", "swap", "rlock", "rlocked", "ready",
                            "engine", "leave", "lock", "drain", "nil"}]
  /\ op \in [Goroutines -> Ops \cup {"none"}]
  /\ ctx \in [Goroutines -> {"background", "live", "cancelled"}]
  /\ tx \in [Goroutines -> Txs \cup {NoTx}]
  /\ watch \in [Goroutines -> {"none", "watching", "hit", "sent", "stopped"}]
  /\ res \in [Goroutines -> Statuses]
  /\ \A g \in Goroutines : pc[g] = "idle" <=> op[g] = "none"

Init ==
  /\ MuInit
  /\ h = "open" /\ flag = FALSE
  /\ live = TRUE /\ claim = NoOne /\ intr = {} /\ lent = NoOne
  /\ etx = NoTx /\ kept = FALSE /\ cut = {}
  /\ txs = [x \in Txs |-> "unborn"]
  /\ stmts = {}
  /\ pc = [g \in Goroutines |-> "idle"]
  /\ op = [g \in Goroutines |-> "none"]
  /\ ctx = [g \in Goroutines |-> "background"]
  /\ tx = [g \in Goroutines |-> NoTx]
  /\ watch = [g \in Goroutines |-> "none"]
  /\ res = [g \in Goroutines |-> "none"]

Goto(g, to) == pc' = [pc EXCEPT ![g] = to]

(* Mutant of Answer: the call has an answer and does not return.           *)
AnswerStays(g, r) ==
  /\ Goto(g, "leave")
  /\ res' = [res EXCEPT ![g] = r]
  /\ op' = [op EXCEPT ![g] = "none"]
  /\ ctx' = [ctx EXCEPT ![g] = "background"]
  /\ tx' = [tx EXCEPT ![g] = NoTx]
  /\ watch' = [watch EXCEPT ![g] = "none"]

(* The call of g is over and answers r.                                    *)
Answer(g, r) ==
  /\ Goto(g, "idle")
  /\ res' = [res EXCEPT ![g] = r]
  /\ op' = [op EXCEPT ![g] = "none"]
  /\ ctx' = [ctx EXCEPT ![g] = "background"]
  /\ tx' = [tx EXCEPT ![g] = NoTx]
  /\ watch' = [watch EXCEPT ![g] = "none"]

----------------------------------------------------------------------------
(* Before the lock.                                                        *)

Born == {x \in Txs : txs[x] # "unborn"}

ContextOf(o) ==
  IF o \in ObeysContext THEN {"background", "live", "cancelled"}
                        ELSE {"background"}

HandleOf(o) ==
  CASE o \in Enders  -> Born
    [] o \in Spelled -> Born \cup {NoTx}
    [] OTHER         -> {NoTx}

(* Tx.done.Load: true of a call through a Tx that has finished.            *)
Spent(x) == x # NoTx /\ txs[x] = "done"

(* Mutant of Refuse: a Commit its context refuses has spent the Tx.        *)
RefuseSpends(g, o, c, x) ==
  /\ pc[g] = "idle" /\ o # "rollback"
  /\ o = "execute" => g \in stmts
  /\ Spent(x) \/ c = "cancelled"
  /\ res' = [res EXCEPT ![g] = IF Spent(x) THEN "ErrDone" ELSE "Context"]
  /\ txs' = IF o = "commit" THEN [txs EXCEPT ![x] = "done"] ELSE txs
  /\ UNCHANGED <<muVars, h, flag, live, claim, intr, etx, kept, cut, lent, stmts,
                 pc, op, ctx, tx, watch>>

(* A call that answers before it touches the connection: ErrDone from the  *)
(* Tx it is spelled through, else the error of a context already over.  A  *)
(* Rollback looks at neither and meets the swap instead.                   *)
Refuse(g, o, c, x) ==
  /\ pc[g] = "idle" /\ o # "rollback"
  /\ o = "execute" => g \in stmts
  /\ Spent(x) \/ c = "cancelled"
  /\ res' = [res EXCEPT ![g] = IF Spent(x) THEN "ErrDone" ELSE "Context"]
  /\ UNCHANGED <<muVars, connVars, pc, op, ctx, tx, watch>>

(* Close and the polls are meant to be made while the connection is in use; *)
(* every other call waits its turn where the rule is kept.                 *)
Anytime == Polls \cup {"close"}

MayUse(g, o) ==
  Exclusive /\ o \notin Anytime =>
    \A k \in Goroutines \ {g} : op[k] \in Anytime \cup {"none"}

Start(g, o, c, x) ==
  /\ pc[g] = "idle"
  /\ MayUse(g, o)
  /\ o = "execute" => g \in stmts
  /\ c # "cancelled"
  /\ Goto(g, CASE o = "close"  -> "lock"
               [] o \in Enders -> "swap"
               [] OTHER        -> "rlock")
  /\ op' = [op EXCEPT ![g] = o]
  /\ ctx' = [ctx EXCEPT ![g] = c]
  /\ tx' = [tx EXCEPT ![g] = x]
  /\ res' = [res EXCEPT ![g] = "none"]
  /\ UNCHANGED <<muVars, connVars, watch>>

(* Mutant of Call: Tx.Query does not ask whether the Tx has finished.      *)
CallIgnoringDone(g, o, c, x) == Start(g, o, c, x)

Call(g, o, c, x) ==
  /\ o # "rollback" => ~Spent(x)
  /\ Start(g, o, c, x)

(* The context of a call in progress is cancelled, by anybody, any time.   *)
Cancel(g) ==
  /\ pc[g] # "idle" /\ ctx[g] = "live"
  /\ ctx' = [ctx EXCEPT ![g] = "cancelled"]
  /\ UNCHANGED <<muVars, connVars, pc, op, tx, watch, res>>

Spend(g) ==
  /\ pc[g] = "swap"
  /\ txs' = [txs EXCEPT ![tx[g]] = "done"]
  /\ Goto(g, "rlock")
  /\ UNCHANGED <<muVars, h, flag, live, claim, intr, etx, kept, cut, lent, stmts,
                 op, ctx, tx, watch, res>>

(* Mutant of Swap: a store in place of the compare-and-swap.               *)
SwapBlind(g) == Spend(g)

(* done.CompareAndSwap(false, true): one Commit or Rollback wins a Tx.     *)
Swap(g) ==
  /\ pc[g] = "swap" /\ txs[tx[g]] = "open"
  /\ Spend(g)

SwapLost(g) ==
  /\ pc[g] = "swap"
  /\ Spent(tx[g])
  /\ Answer(g, "ErrDone")
  /\ UNCHANGED <<muVars, connVars>>

----------------------------------------------------------------------------
(* Under the read lock, around the call into C.                            *)

TakeReadLock(g) ==
  /\ pc[g] = "rlock"
  /\ RLock(g)
  /\ Goto(g, "rlocked")
  /\ UNCHANGED <<connVars, op, ctx, tx, watch, res>>

(* The handle is nil: "the connection is closed".  Stmt.Query asks its own *)
(* handle instead and so never comes this way.                             *)
FindClosed(g) ==
  /\ pc[g] = "rlocked" /\ g \in readers
  /\ h = "nil" /\ op[g] # "execute"
  /\ RUnlock(g)
  /\ Answer(g, "Misuse")
  /\ UNCHANGED connVars

(* Stmt.Query: a Bind that fails answers before the watcher starts.        *)
BindFails(g) ==
  /\ pc[g] = "rlocked" /\ g \in readers
  /\ op[g] = "execute"
  /\ RUnlock(g)
  /\ Answer(g, "Failed")
  /\ UNCHANGED connVars

Pass(g) ==
  /\ pc[g] = "rlocked" /\ g \in readers
  /\ Goto(g, "ready")
  /\ watch' = [watch EXCEPT ![g] =
       IF op[g] \in Watched /\ ctx[g] # "background" THEN "watching" ELSE "none"]
  /\ UNCHANGED <<muVars, connVars, op, ctx, tx, res>>

(* Mutant of Proceed: Conn.h goes to C unchecked.                          *)
ProceedUnchecked(g) == Pass(g)

(* The handle is there: watch(ctx) starts the watcher of a statement whose *)
(* context has a Done channel, and the call to C is next.                  *)
Proceed(g) ==
  /\ h = "open" \/ op[g] = "execute"
  /\ Pass(g)

(* The C call answers r without having claimed the connection.             *)
Bounce(g, r) ==
  /\ Goto(g, "leave")
  /\ res' = [res EXCEPT ![g] = r]
  /\ UNCHANGED <<muVars, h, flag, live, claim, etx, kept, cut, lent, txs, stmts,
                 op, ctx, tx, watch>>

(* zu_execute on a statement whose connection is gone answers Closed.      *)
EnterClosed(g) ==
  /\ pc[g] = "ready" /\ op[g] = "execute" /\ ~live
  /\ Bounce(g, "Closed")
  /\ UNCHANGED intr

EnterConcurrent(g) ==
  /\ pc[g] = "ready" /\ op[g] \notin Polls
  /\ op[g] = "execute" => live
  /\ claim # NoOne
  /\ Bounce(g, "Concurrent")
  /\ UNCHANGED intr

(* zu_conn_interrupt and zu_conn_rows_read do not ask whether the          *)
(* connection is in use.                                                   *)
EnterPoll(g) ==
  /\ pc[g] = "ready" /\ op[g] \in Polls
  /\ Bounce(g, "ok")
  /\ intr' = IF op[g] = "interrupt" THEN intr \cup {g} ELSE intr

(* The call claims the connection.  One that runs a statement drops an     *)
(* interrupt raised before it; the transaction calls run statement text.   *)
Enter(g) ==
  /\ pc[g] = "ready" /\ op[g] \notin Polls
  /\ op[g] = "execute" => live
  /\ claim = NoOne
  /\ claim' = g
  /\ intr' = IF op[g] \in Asks THEN intr ELSE {}
  /\ Goto(g, "engine")
  /\ UNCHANGED <<muVars, h, flag, live, etx, kept, cut, lent, txs, stmts, op, ctx,
                 tx, watch, res>>

(* The C call of g returns r and gives the connection back.                *)
Finish(g, r) ==
  /\ pc[g] = "engine"
  /\ claim' = NoOne
  /\ Goto(g, "leave")
  /\ res' = [res EXCEPT ![g] = r]
  /\ UNCHANGED <<muVars, h, flag, live, intr, txs, op, ctx, watch>>

(* What a statement's text does to the engine's transaction.  COMMIT and   *)
(* ROLLBACK are the same to it, and end whatever it is in.                 *)
TextStarts(g) ==
  /\ "start" \in Texts[g]
  /\ etx = NoTx
  /\ etx' = ByText
  /\ UNCHANGED <<kept, cut>>

TextEnds(g) ==
  /\ "end" \in Texts[g]
  /\ etx # NoTx
  /\ etx' = NoTx
  /\ kept' = FALSE
  /\ cut' = cut \cup ({etx} \cap Txs)

(* Query, Exec and Stmt.Query run text; Prepare only compiles it.  A COMMIT *)
(* that fails may have ended the transaction or left it.                   *)
FinishStatement(g) ==
  /\ op[g] \in Watched
  /\ \E r \in {"ok", "Failed"} :
       /\ Finish(g, r)
       /\ stmts' = IF op[g] = "prepare" /\ r = "ok" THEN stmts \cup {g} ELSE stmts
       /\ \/ UNCHANGED <<etx, kept, cut>>
          \/ op[g] # "prepare" /\ r = "ok" /\ TextStarts(g)
          \/ op[g] # "prepare" /\ TextEnds(g)
  /\ UNCHANGED <<lent, tx>>

(* The running statement reaches a boundary and finds the interrupt.       *)
Stop(g) ==
  /\ op[g] \in Watched
  /\ intr # {}
  /\ Finish(g, "Interrupted")
  /\ \/ UNCHANGED <<etx, kept, cut>>
     \/ op[g] # "prepare" /\ TextEnds(g)
  /\ UNCHANGED <<lent, stmts, tx>>

(* zu_begin: refused inside a transaction, else the engine is in a new one *)
(* for which begin will make a Tx.                                         *)
FinishBegin(g) ==
  /\ op[g] = "begin"
  /\ \/ /\ Finish(g, "Failed")
        /\ UNCHANGED <<etx, tx>>
     \/ \E x \in Txs \ Born :
          /\ etx = NoTx
          /\ \A k \in Goroutines : tx[k] # x
          /\ Finish(g, "ok")
          /\ etx' = x
          /\ tx' = [tx EXCEPT ![g] = x]
  /\ UNCHANGED <<kept, cut, lent, stmts>>

(* zu_commit and zu_rollback end whatever transaction the engine is in,    *)
(* whichever Tx or text it was begun by; with none they fail.  One that    *)
(* fails may leave the engine in its transaction.                          *)
FinishEnd(g) ==
  /\ op[g] \in Enders
  /\ \E r \in {"ok", "Failed"}, after \in {NoTx, etx} :
       /\ etx = NoTx \/ after # NoTx => r = "Failed"
       /\ Finish(g, r)
       /\ etx' = after
       /\ kept' = (after # NoTx)
       /\ cut' = IF tx[g] \in cut /\ after = NoTx
                 THEN cut \cup ({etx} \cap Txs) ELSE cut
  /\ UNCHANGED <<lent, stmts, tx>>

FinishAsk(g) ==
  /\ op[g] \in Asks
  /\ Finish(g, "ok")
  /\ lent' = IF op[g] = "tablename" THEN g ELSE lent
  /\ UNCHANGED <<etx, kept, cut, stmts, tx>>

(* The end of the call in Go: w.end() has the watcher's answer, the error  *)
(* takes the context's as its cause when the watcher raised the interrupt, *)
(* Conn.tx is stored, a Tx is made, and the deferred RUnlock runs.         *)
(* Mutant of Joined: only a watcher that fired is ever done.               *)
JoinedOnlyHit(g) == watch[g] \in {"none", "sent"}

Joined(g) == watch[g] \in {"none", "sent", "stopped"}

(* Mutant of Caused: the context's error is dropped.                       *)
CausedNever(g) == res[g]

Caused(g) ==
  IF res[g] = "Interrupted" /\ watch[g] = "sent" THEN "Cancelled" ELSE res[g]

(* Mutant of Return: w.end() closes w.stop and does not wait for w.done.   *)
ReturnUnjoined(g) ==
  /\ pc[g] = "leave"
  /\ RUnlock(g)
  /\ Goto(g, "idle")
  /\ res' = [res EXCEPT ![g] = Caused(g)]
  /\ op' = [op EXCEPT ![g] = "none"]
  /\ tx' = [tx EXCEPT ![g] = NoTx]
  /\ flag' = CASE op[g] = "begin" /\ res[g] = "ok" -> TRUE
               [] op[g] \in Enders                 -> FALSE
               [] OTHER                            -> flag
  /\ txs' = IF op[g] = "begin" /\ res[g] = "ok"
            THEN [txs EXCEPT ![tx[g]] = "open"] ELSE txs
  /\ UNCHANGED <<h, live, claim, intr, etx, kept, cut, lent, stmts, ctx, watch>>

Return(g) ==
  /\ pc[g] = "leave"
  /\ Joined(g)
  /\ RUnlock(g)
  /\ Answer(g, Caused(g))
  /\ flag' = CASE op[g] = "begin" /\ res[g] = "ok" -> TRUE
               [] op[g] \in Enders                 -> FALSE
               [] OTHER                            -> flag
  /\ txs' = IF op[g] = "begin" /\ res[g] = "ok"
            THEN [txs EXCEPT ![tx[g]] = "open"] ELSE txs
  /\ UNCHANGED <<h, live, claim, intr, etx, kept, cut, lent, stmts>>

----------------------------------------------------------------------------
(* The watcher of g's statement.  Its select takes either ready case.      *)

WatchFires(g) ==
  /\ watch[g] = "watching" /\ ctx[g] = "cancelled"
  /\ watch' = [watch EXCEPT ![g] = "hit"]
  /\ UNCHANGED <<muVars, connVars, pc, op, ctx, tx, res>>

(* zu_conn_interrupt(c.h), which a nil handle makes nothing of.            *)
WatchInterrupts(g) ==
  /\ watch[g] = "hit"
  /\ watch' = [watch EXCEPT ![g] = "sent"]
  /\ intr' = IF h = "open" THEN intr \cup {g} ELSE intr
  /\ UNCHANGED <<muVars, h, flag, live, claim, etx, kept, cut, lent, txs, stmts,
                 pc, op, ctx, tx, res>>

StopClosed(g) ==
  /\ watch[g] = "watching" /\ pc[g] = "leave"
  /\ watch' = [watch EXCEPT ![g] = "stopped"]
  /\ UNCHANGED <<muVars, connVars, pc, op, ctx, tx, res>>

(* Mutant of WatchStops: w.stop is closed on the path that succeeded only. *)
WatchStopsOnSuccess(g) == res[g] = "ok" /\ StopClosed(g)

(* w.stop is closed once the call to C is back.                            *)
WatchStops(g) == StopClosed(g)

----------------------------------------------------------------------------
(* Conn.Close.                                                             *)

CloseAnnounce(g) ==
  /\ pc[g] = "lock"
  /\ Announce(g)
  /\ Goto(g, "drain")
  /\ UNCHANGED <<connVars, op, ctx, tx, watch, res>>

CloseAgain(g) ==
  /\ pc[g] = "drain" /\ Granted(g)
  /\ h = "nil"
  /\ Unlock(g)
  /\ Answer(g, "ok")
  /\ UNCHANGED connVars

(* zu_conn_close: the transaction is rolled back and the handle is gone,   *)
(* while Conn.h still points at it.                                        *)
Free(g) ==
  /\ pc[g] = "drain" /\ h = "open"
  /\ live' = FALSE
  /\ etx' = NoTx /\ kept' = FALSE
  /\ lent' = NoOne
  /\ Goto(g, "nil")
  /\ UNCHANGED <<muVars, h, flag, claim, intr, cut, txs, stmts, op, ctx, tx,
                 watch, res>>

(* Mutant of CloseFree: the handle is freed before the readers have left.  *)
CloseFreeAtOnce(g) == Free(g)

CloseFree(g) == Granted(g) /\ Free(g)

LeaveClose(g, hNext, flagNext) ==
  /\ pc[g] = "nil"
  /\ h' = hNext
  /\ flag' = flagNext
  /\ Unlock(g)
  /\ Answer(g, "ok")
  /\ UNCHANGED <<live, claim, intr, etx, kept, cut, lent, txs, stmts>>

(* Mutants of CloseClear: Conn.h keeps pointing at what was freed; Conn.tx *)
(* is not cleared.                                                         *)
CloseKeepsPointer(g) == LeaveClose(g, h, FALSE)
CloseKeepsFlag(g) == LeaveClose(g, "nil", flag)

(* Close's last steps: the fields are cleared and the lock given back.     *)
CloseClear(g) == LeaveClose(g, "nil", FALSE)

----------------------------------------------------------------------------

(* The steps of g's own goroutine once it has called.                      *)
Run(g) ==
  \/ Swap(g) \/ SwapLost(g)
  \/ TakeReadLock(g) \/ FindClosed(g) \/ BindFails(g) \/ Proceed(g)
  \/ EnterClosed(g) \/ EnterConcurrent(g) \/ EnterPoll(g) \/ Enter(g)
  \/ Return(g)
  \/ CloseAgain(g) \/ CloseFree(g) \/ CloseClear(g)

Watch(g) == WatchFires(g) \/ WatchInterrupts(g) \/ WatchStops(g)

(* The calls that do not run a query: the engine answers them by itself.   *)
FinishShort(g) == FinishBegin(g) \/ FinishEnd(g) \/ FinishAsk(g)

Next ==
  \E g \in Goroutines :
    \/ \E o \in May[g] : \E c \in ContextOf(o), x \in HandleOf(o) :
         Refuse(g, o, c, x) \/ Call(g, o, c, x)
    \/ Cancel(g)
    \/ Run(g)
    \/ CloseAnnounce(g)
    \/ FinishStatement(g)
    \/ FinishShort(g)
    \/ Stop(g)
    \/ Watch(g)

Spec == Init /\ [][Next]_vars

(* Goroutines and watchers are scheduled, a statement that was interrupted *)
(* stops, and the engine answers a call that runs no query.  A statement   *)
(* nobody interrupts may run for ever.  A closer that keeps asking for the *)
(* lock gets it: Go's mutex hands itself over to a starving waiter.        *)
Fairness ==
  \A g \in Goroutines :
    /\ WF_vars(Run(g))
    /\ SF_vars(CloseAnnounce(g))
    /\ WF_vars(Watch(g))
    /\ WF_vars(FinishShort(g))
    /\ WF_vars(Stop(g))

FairSpec == Spec /\ Fairness

----------------------------------------------------------------------------
(* What the connection promises.                                           *)

(* The calls that have the engine's connection in hand: from the check of  *)
(* Conn.h until C returns, and a watcher about to interrupt through Conn.h. *)
(* A Stmt has its own handle, and the engine's connection only while the   *)
(* execution claims it.                                                    *)
inside ==
  {<<"call", g>> : g \in {k \in Goroutines :
      \/ pc[k] = "engine"
      \/ pc[k] = "ready" /\ op[k] # "execute"}}
  \cup
  {<<"watch", g>> : g \in {k \in Goroutines : watch[k] = "hit" /\ h = "open"}}

(* The connection implements the handle: it is freed once, with no call    *)
(* and no watcher inside, and nothing enters afterwards (conn.go:27-31,    *)
(* "makes a close wait for the calls already inside the engine").          *)
TheHandle == INSTANCE Handle WITH
  Users <- {"call", "watch"} \X Goroutines, open <- live, inside <- inside
ImplementsHandle == TheHandle!Spec

(* No call and no watcher has the connection in hand once it was freed:    *)
(* Close takes the lock for writing, everything else for reading.          *)
NoUseAfterFree == inside # {} => live

(* A watcher that may still touch the connection runs under the read lock  *)
(* of the call it watches (conn.go:95-98).                                 *)
WatcherContained ==
  \A g \in Goroutines : watch[g] \in {"watching", "hit"} => g \in readers

(* At most one goroutine ever ends a given Tx, however many race Commit    *)
(* and a deferred Rollback (the swap at tx.go:172).                        *)
OneEnder ==
  \A g, k \in Goroutines :
    /\ {op[g], op[k]} \subseteq Enders /\ tx[g] = tx[k]
    /\ "swap" \notin {pc[g], pc[k]}
    => g = k

(* The engine is in a transaction Begin started only while a Tx that can   *)
(* still end it exists or is on its way to or from the caller, or after    *)
(* the engine itself refused to end it: no refusal in Go, of a context or  *)
(* of a second ender, spends the one handle that could (tx.go:160-164).    *)
NoOrphanTransaction ==
  etx \in Txs =>
    \/ txs[etx] = "open"
    \/ kept
    \/ \E g \in Goroutines : tx[g] = etx /\ op[g] \in Enders \cup {"begin"}

(* A statement spelled through a Tx runs inside that Tx's transaction and  *)
(* never outside the block (tx.go:83-86), unless text ended that           *)
(* transaction, or the stale Tx of one that text had ended.                *)
TxStatementsInside ==
  \A g \in Goroutines :
    pc[g] = "engine" /\ tx[g] # NoTx /\ op[g] \in Spelled
      => etx = tx[g] \/ tx[g] \in cut

(* With no call in progress Conn.tx is set only while some Tx has not      *)
(* finished whose transaction the engine is in, or text ended; and inside  *)
(* a transaction Begin started it is set, unless the engine refused to end *)
(* that transaction (conn.go:34-36).                                       *)
FlagAgrees ==
  (\A g \in Goroutines : pc[g] = "idle") =>
    /\ flag => \E x \in Txs : txs[x] = "open" /\ (etx = x \/ x \in cut)
    /\ etx \in Txs => flag \/ kept

(* tx.go:83-86: "It answers [ErrDone] once the transaction has been        *)
(* committed or rolled back", so that nothing spelled through a Tx runs    *)
(* outside the block, whoever or whatever text ended the transaction.      *)
ErrDoneOnceEnded ==
  \A g \in Goroutines :
    pc[g] = "engine" /\ tx[g] # NoTx /\ op[g] \in Spelled => etx = tx[g]

(* TableName copies bytes the engine still lends to this call              *)
(* (conn.go:270-272).                                                      *)
NameStillLent ==
  \A g \in Goroutines :
    pc[g] = "leave" /\ op[g] = "tablename" /\ res[g] = "ok" => lent = g

Interrupters == {g \in Goroutines : "interrupt" \in May[g]}

(* A statement stops only for its own context or for a caller of           *)
(* Interrupt: no watcher's interrupt lands on another statement            *)
(* (conn.go:107-109).                                                      *)
OwnInterruptsOnly ==
  [][\A g \in Goroutines :
       pc[g] = "engine" /\ res'[g] = "Interrupted"
         => intr \subseteq Interrupters \cup {g}]_vars

(* A call that answers Interrupted without its context's error as the      *)
(* cause was interrupted by somebody else (caused, conn.go:122-134).       *)
CauseReported ==
  [][\A g \in Goroutines :
       pc[g] = "leave" /\ pc'[g] = "idle" /\ res'[g] = "Interrupted"
         => intr \ {g} # {}]_vars

(* An interrupt that reaches a running statement stops it and its call     *)
(* returns, even of a statement that would run for ever.                   *)
DeliveredInterruptStops ==
  \A g \in Goroutines :
    (pc[g] = "engine" /\ op[g] \in Watched /\ intr # {}) ~> (pc[g] = "idle")

(* Every call returns, Close included, provided that no statement keeps    *)
(* the connection for ever: no deadlock between the lock, the watchers and *)
(* the engine.                                                             *)
EveryCallReturns ==
  []<>(claim = NoOne)
    => \A g \in Goroutines : (pc[g] # "idle") ~> (pc[g] = "idle")

(* zu.go:29-35: cancelling the context of a call stops the statement.      *)
CancelledStatementStops ==
  \A g \in Goroutines :
    (pc[g] = "engine" /\ op[g] \in Watched /\ ctx[g] = "cancelled")
      ~> (pc[g] = "idle")
=============================================================================

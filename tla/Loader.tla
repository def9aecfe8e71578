------------------------------- MODULE Loader -------------------------------
(***************************************************************************)
(* zu.Loader of loader.go, used by any number of goroutines, and the file  *)
(* a load makes, over any number of loads, crashes and retries.            *)
(*                                                                         *)
(* The loader inside libzu is external and modelled by its contract        *)
(* (zu.h:807-833): a fixed order of calls, one call at a time, nothing in  *)
(* the file before the finish, and a path that exists is refused.  The     *)
(* lock is RWMutex; l.mu belongs to one Loader and is free between two.    *)
(***************************************************************************)
EXTENDS RWMutex

CONSTANTS
  May,    (* May[g]: the methods goroutine g calls                         *)
  Names,  (* the columns the program has                                   *)
  NoName  (* the column of every other call                                *)

Methods == {"table", "column", "edges", "finish", "close"}

ASSUME MayAssumption == \A g \in Goroutines : May[g] \subseteq Methods
ASSUME NoNameAssumption == NoName \notin Names

VARIABLES
  h,        (* Loader.h: "open", "nil" once closed, "none" with no Loader  *)
  live,     (* whether the engine's loader exists                          *)
  claim,    (* the goroutine inside the engine's loader, or NoOne          *)
  stage,    (* the engine's: "new", "tabled", "finished", "failed"         *)
  taken,    (* the columns the engine has copied                           *)
  file,     (* the path: "absent", "empty" (a database with no rows), "full" *)
  stored,   (* the columns in the file                                     *)
  accepted, (* the columns whose call has answered nil                     *)
  loaded,   (* whether a Finish has answered nil                           *)
  pc, call, name, res   (* per goroutine, see TypeOK                       *)

engineVars == <<live, claim, stage, taken, file, stored>>
ghostVars == <<accepted, loaded>>
vars == <<muVars, h, engineVars, ghostVars, pc, call, name, res>>

Statuses == {"none", "ok", "Misuse", "Closed", "Concurrent", "Failed", "Context"}

TypeOK ==
  /\ MuTypeOK
  /\ h \in {"none", "open", "nil"}
  /\ live = (h = "open")
  /\ claim \in Goroutines \cup {NoOne}
  /\ stage \in {"new", "tabled", "finished", "failed"}
  /\ taken \subseteq Names /\ stored \subseteq Names /\ accepted \subseteq Names
  /\ file \in {"absent", "empty", "full"}
  /\ loaded \in BOOLEAN
  /\ pc \in [Goroutines -> {"idle", "rlock", "rlocked", "ready", "engine",
                            "leave", "lock", "drain"}]
  /\ call \in [Goroutines -> Methods \cup {"none"}]
  /\ name \in [Goroutines -> Names \cup {NoName}]
  /\ res \in [Goroutines -> Statuses]

Idle == \A g \in Goroutines : pc[g] = "idle"

Init ==
  /\ MuInit
  /\ h = "none" /\ live = FALSE
  /\ claim = NoOne /\ stage = "new" /\ taken = {}
  /\ file = "absent" /\ stored = {}
  /\ accepted = {} /\ loaded = FALSE
  /\ pc = [g \in Goroutines |-> "idle"]
  /\ call = [g \in Goroutines |-> "none"]
  /\ name = [g \in Goroutines |-> NoName]
  /\ res = [g \in Goroutines |-> "none"]

Goto(g, to) == pc' = [pc EXCEPT ![g] = to]

Answer(g, r) ==
  /\ Goto(g, "idle")
  /\ call' = [call EXCEPT ![g] = "none"]
  /\ name' = [name EXCEPT ![g] = NoName]
  /\ res' = [res EXCEPT ![g] = r]

----------------------------------------------------------------------------
(* A load begins and ends.                                                 *)

(* A new loader of the engine.                                             *)
Fresh ==
  /\ h' = "open" /\ live' = TRUE
  /\ stage' = "new" /\ taken' = {}
  /\ file' = "empty" /\ stored' = {}
  /\ accepted' = {} /\ loaded' = FALSE
  /\ UNCHANGED <<muVars, claim, pc, call, name, res>>

(* Mutant of NewLoader: a path that exists is built on.                    *)
NewLoaderAnyway ==
  /\ h # "open" /\ Idle
  /\ Fresh

(* NewLoader on a path that does not exist; the Loader is its caller's     *)
(* alone until it returns.  The database it makes holds no rows.           *)
NewLoader ==
  /\ h # "open" /\ Idle
  /\ file = "absent"
  /\ Fresh

(* NewLoader on a path that exists, from a load that finished or from one  *)
(* that did not: refused, and no Loader is made.                           *)
NewLoaderRefused ==
  /\ h = "nil" /\ Idle
  /\ file # "absent"
  /\ h' = "none"
  /\ UNCHANGED <<muVars, engineVars, ghostVars, pc, call, name, res>>

(* The collector frees a Loader nobody holds any more (freeLoader).        *)
Drop ==
  /\ h = "open" /\ Idle
  /\ h' = "none" /\ live' = FALSE
  /\ UNCHANGED <<muVars, claim, stage, taken, file, stored, ghostVars, pc, call,
                 name, res>>

(* The process dies, also in the middle of a Finish.                       *)
Crash ==
  /\ h = "open"
  /\ h' = "none" /\ live' = FALSE /\ claim' = NoOne
  /\ readers' = {} /\ queued' = {} /\ writer' = NoOne
  /\ pc' = [g \in Goroutines |-> "idle"]
  /\ call' = [g \in Goroutines |-> "none"]
  /\ name' = [g \in Goroutines |-> NoName]
  /\ res' = [g \in Goroutines |-> "none"]
  /\ UNCHANGED <<stage, taken, file, stored, ghostVars>>

(* A program that retries removes the path first (loader.go:95-97).        *)
RemovePath ==
  /\ h # "open" /\ Idle
  /\ file # "absent"
  /\ file' = "absent" /\ stored' = {}
  /\ loaded' = FALSE /\ accepted' = {}
  /\ UNCHANGED <<muVars, h, live, claim, stage, taken, pc, call, name, res>>

----------------------------------------------------------------------------
(* The methods, up to the engine.                                          *)

(* An edge list of two lengths, and a Finish whose context is over, answer *)
(* before they look at the loader.                                         *)
Refuse(g, m) ==
  /\ pc[g] = "idle" /\ h # "none"
  /\ m \in {"edges", "finish"}
  /\ res' = [res EXCEPT ![g] = IF m = "edges" THEN "Misuse" ELSE "Context"]
  /\ UNCHANGED <<muVars, h, engineVars, ghostVars, pc, call, name>>

Call(g, m, c) ==
  /\ pc[g] = "idle" /\ h # "none"
  /\ m = "column" <=> c # NoName
  /\ Goto(g, IF m = "close" THEN "lock" ELSE "rlock")
  /\ call' = [call EXCEPT ![g] = m]
  /\ name' = [name EXCEPT ![g] = c]
  /\ res' = [res EXCEPT ![g] = "none"]
  /\ UNCHANGED <<muVars, h, engineVars, ghostVars>>

TakeReadLock(g) ==
  /\ pc[g] = "rlock"
  /\ RLock(g)
  /\ Goto(g, "rlocked")
  /\ UNCHANGED <<h, engineVars, ghostVars, call, name, res>>

(* Mutant of FindClosed: the return forgets the lock.                      *)
FindClosedLocked(g) ==
  /\ pc[g] = "rlocked" /\ g \in readers
  /\ h = "nil"
  /\ Answer(g, "Misuse")
  /\ UNCHANGED <<muVars, h, engineVars, ghostVars>>

FindClosed(g) ==
  /\ pc[g] = "rlocked" /\ g \in readers
  /\ h = "nil"
  /\ RUnlock(g)
  /\ Answer(g, "Misuse")
  /\ UNCHANGED <<h, engineVars, ghostVars>>

(* The handle is there, and C is next.                                     *)
Proceed(g) ==
  /\ pc[g] = "rlocked" /\ g \in readers
  /\ h = "open"
  /\ Goto(g, "ready")
  /\ UNCHANGED <<muVars, h, engineVars, ghostVars, call, name, res>>

----------------------------------------------------------------------------
(* In the engine.                                                          *)

Enter(g) ==
  /\ pc[g] = "ready"
  /\ IF claim = NoOne
     THEN claim' = g /\ Goto(g, "engine") /\ UNCHANGED res
     ELSE /\ Goto(g, "leave")
          /\ res' = [res EXCEPT ![g] = "Concurrent"]
          /\ UNCHANGED claim
  /\ UNCHANGED <<muVars, h, live, stage, taken, file, stored, ghostVars, call,
                 name>>

(* The call of g has been carried out or refused, and answers r.           *)
Done(g, r) ==
  /\ claim' = NoOne
  /\ Goto(g, "leave")
  /\ res' = [res EXCEPT ![g] = r]
  /\ UNCHANGED <<muVars, h, live, ghostVars, call, name>>

(* The order of the calls: what the engine says of one made out of turn.   *)
OutOfTurn(m) ==
  IF stage \in {"finished", "failed"} THEN "Closed"
  ELSE IF (stage = "new") # (m = "table") THEN "Misuse" ELSE "none"

EngineRefuses(g) ==
  /\ pc[g] = "engine" /\ OutOfTurn(call[g]) # "none"
  /\ Done(g, OutOfTurn(call[g]))
  /\ UNCHANGED <<stage, taken, file, stored>>

(* A name the engine will not have, a column of another length than the    *)
(* table, bytes that are not text, an edge to no row.                      *)
EngineFails(g) ==
  /\ pc[g] = "engine" /\ OutOfTurn(call[g]) = "none"
  /\ call[g] # "finish"
  /\ Done(g, "Failed")
  /\ UNCHANGED <<stage, taken, file, stored>>

EngineTakes(g) ==
  /\ pc[g] = "engine" /\ OutOfTurn(call[g]) = "none"
  /\ call[g] # "finish"
  /\ Done(g, "ok")
  /\ stage' = "tabled"
  /\ taken' = IF call[g] = "column" THEN taken \cup {name[g]} ELSE taken
  /\ UNCHANGED <<file, stored>>

(* zu_loader_finish writes it all or fails, and is the last of it.         *)
EngineFinishes(g) ==
  /\ pc[g] = "engine" /\ OutOfTurn(call[g]) = "none"
  /\ call[g] = "finish"
  /\ \/ /\ Done(g, "ok")
        /\ stage' = "finished" /\ file' = "full" /\ stored' = taken
     \/ /\ Done(g, "Failed")
        /\ stage' = "failed" /\ UNCHANGED <<file, stored>>
  /\ UNCHANGED taken

(* Mutant of Leave: Concurrent, which carries no error record, is nil.     *)
LeaveBlind(g) ==
  /\ pc[g] = "leave"
  /\ RUnlock(g)
  /\ Answer(g, IF res[g] = "Concurrent" THEN "ok" ELSE res[g])
  /\ accepted' = IF res'[g] = "ok" /\ call[g] = "column"
                 THEN accepted \cup {name[g]} ELSE accepted
  /\ loaded' = (loaded \/ (res'[g] = "ok" /\ call[g] = "finish"))
  /\ UNCHANGED <<h, engineVars>>

(* fail, the deferred RUnlock, and the answer.                             *)
Leave(g) ==
  /\ pc[g] = "leave"
  /\ RUnlock(g)
  /\ Answer(g, res[g])
  /\ accepted' = IF res[g] = "ok" /\ call[g] = "column"
                 THEN accepted \cup {name[g]} ELSE accepted
  /\ loaded' = (loaded \/ (res[g] = "ok" /\ call[g] = "finish"))
  /\ UNCHANGED <<h, engineVars>>

----------------------------------------------------------------------------
(* Close.                                                                  *)

AnnounceClose(g) ==
  /\ pc[g] = "lock"
  /\ Announce(g)
  /\ Goto(g, "drain")
  /\ UNCHANGED <<h, engineVars, ghostVars, call, name, res>>

(* Mutant of Close: it does not wait for the calls inside.                 *)
CloseAtOnce(g) ==
  /\ pc[g] = "drain" /\ writer = g
  /\ h' = "nil" /\ live' = FALSE
  /\ Unlock(g)
  /\ Answer(g, "ok")
  /\ UNCHANGED <<claim, stage, taken, file, stored, ghostVars>>

(* Under the write lock: freed once, and what is at the path stays.        *)
Close(g) ==
  /\ pc[g] = "drain" /\ Granted(g)
  /\ h' = "nil" /\ live' = FALSE
  /\ Unlock(g)
  /\ Answer(g, "ok")
  /\ UNCHANGED <<claim, stage, taken, file, stored, ghostVars>>

Step(g) ==
  \/ TakeReadLock(g) \/ FindClosed(g) \/ Proceed(g)
  \/ Enter(g)
  \/ EngineRefuses(g) \/ EngineFails(g) \/ EngineTakes(g) \/ EngineFinishes(g)
  \/ Leave(g)
  \/ AnnounceClose(g) \/ Close(g)

Next ==
  \/ NewLoader \/ NewLoaderRefused \/ Drop \/ Crash \/ RemovePath
  \/ \E g \in Goroutines :
       \/ \E m \in May[g] : Refuse(g, m) \/ \E c \in Names \cup {NoName} : Call(g, m, c)
       \/ Step(g)

Spec == Init /\ [][Next]_vars

(* The scheduler runs every goroutine, and a lock is granted in turn; the  *)
(* engine's calls on a loader come to an end.                              *)
FairSpec ==
  /\ Spec
  /\ \A g \in Goroutines : WF_vars(Step(g)) /\ SF_vars(AnnounceClose(g))

----------------------------------------------------------------------------
(* What is checked.                                                        *)

(* A call inside the engine has a loader that exists: Close waits for the  *)
(* calls it finds, and a call that comes later finds nil (loader.go:360).  *)
NoUseAfterFree ==
  \A g \in Goroutines : pc[g] \in {"ready", "engine"} => live

(* "A load either happened or did not" (loader.go:61): a Finish that       *)
(* answered nil has left every column whose call answered nil in the file, *)
(* and a file with rows has them all, whatever other goroutines called,    *)
(* closed or were refused meanwhile, and after any crash and any retry.    *)
AllOrNothing ==
  /\ loaded => file = "full"
  /\ file = "full" => accepted \subseteq stored
  /\ file # "full" => stored = {}

(* No load starts on a file that is there: a finished one keeps its rows   *)
(* until the program removes the path (loader.go:82-85).                   *)
FinishedStays ==
  [][file = "full" => \/ file' = "full" /\ stored' = stored
                      \/ file' = "absent" /\ h # "open"]_vars

(* Every call returns, Close included.                                     *)
EveryCallReturns ==
  \A g \in Goroutines : (pc[g] # "idle") ~> (pc[g] = "idle")
=============================================================================

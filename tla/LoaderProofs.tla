---------------------------- MODULE LoaderProofs ----------------------------
(***************************************************************************)
(* Proofs about the Loader of loader.go, for any number of goroutines and  *)
(* columns and any sequence of loads, crashes and retries: the types, the  *)
(* handle, and what is in the file.                                        *)
(***************************************************************************)
EXTENDS Loader, TLAPS

(* Who holds l.mu, and where it is: past the lock a call has it for        *)
(* reading, and only those that may be waiting for it are queued.          *)
LockInv ==
  \A g \in Goroutines :
    /\ g \in readers => pc[g] \in {"rlocked", "ready", "engine", "leave"}
    /\ pc[g] \in {"ready", "engine", "leave"} => g \in readers
    /\ g \in queued => pc[g] = "rlocked" /\ g \notin readers

(* A call past the check of l.h finds the handle the check found.          *)
HandleInv == \A g \in Goroutines : pc[g] \in {"ready", "engine"} => h = "open"

(* What the engine took is there to be finished: of a column whose call is *)
(* on its way back it has the contents, and of a finish the file.          *)
TakenInv ==
  \A g \in Goroutines :
    /\ call[g] = "column" => name[g] \in Names
    /\ pc[g] = "leave" /\ res[g] = "ok" =>
         /\ call[g] = "column" => name[g] \in taken
         /\ call[g] = "finish" => file = "full"

(* A file with rows has the columns taken by a load that can take no more. *)
FileInv ==
  /\ accepted \subseteq taken
  /\ file = "full" => stage = "finished" /\ stored = taken
  /\ file # "full" => stored = {}
  /\ loaded => file = "full"

IInv == TypeOK /\ LockInv /\ HandleInv /\ TakenInv /\ FileInv

LEMMA InitIInv == Init => IInv
BY DEF Init, MuInit, IInv, TypeOK, MuTypeOK, LockInv, HandleInv, TakenInv,
   FileInv, Statuses

(* A load begins or ends, or the process does.                             *)
LEMMA LoadsIInv ==
  ASSUME IInv, NewLoader \/ NewLoaderRefused \/ Drop \/ Crash \/ RemovePath
  PROVE  IInv'
<1>1. CASE NewLoader
  BY <1>1 DEF NewLoader, Fresh, Idle, IInv, TypeOK, MuTypeOK, LockInv,
     HandleInv, TakenInv, FileInv, muVars
<1>2. CASE NewLoaderRefused
  BY <1>2 DEF NewLoaderRefused, Idle, IInv, TypeOK, MuTypeOK, LockInv,
     HandleInv, TakenInv, FileInv, muVars, engineVars, ghostVars
<1>3. CASE Drop
  BY <1>3 DEF Drop, Idle, IInv, TypeOK, MuTypeOK, LockInv, HandleInv,
     TakenInv, FileInv, muVars, ghostVars
<1>4. CASE Crash
  BY <1>4 DEF Crash, IInv, TypeOK, MuTypeOK, LockInv, HandleInv, TakenInv,
     FileInv, ghostVars, Statuses
<1>5. CASE RemovePath
  BY <1>5 DEF RemovePath, Idle, IInv, TypeOK, MuTypeOK, LockInv, HandleInv,
     TakenInv, FileInv, muVars
<1>6. QED
  BY <1>1, <1>2, <1>3, <1>4, <1>5

LEMMA CallsIInv ==
  ASSUME IInv, NEW g \in Goroutines, NEW m \in May[g],
         Refuse(g, m) \/ \E c \in Names \cup {NoName} : Call(g, m, c)
  PROVE  IInv'
<1>1. m \in Methods
  BY MayAssumption
<1>2. CASE Refuse(g, m)
  BY <1>2 DEF Refuse, IInv, TypeOK, MuTypeOK, LockInv, HandleInv, TakenInv,
     FileInv, muVars, engineVars, ghostVars, Statuses
<1>3. ASSUME NEW c \in Names \cup {NoName}, Call(g, m, c)
      PROVE  IInv'
  BY <1>1, <1>3, NoNameAssumption DEF Call, Goto, Methods, IInv, TypeOK,
     MuTypeOK, LockInv, HandleInv, TakenInv, FileInv, muVars, engineVars,
     ghostVars, Statuses
<1>4. QED
  BY <1>2, <1>3

(* On the way to the engine.                                               *)
LEMMA EntersIInv ==
  ASSUME IInv, NEW g \in Goroutines,
         TakeReadLock(g) \/ FindClosed(g) \/ Proceed(g) \/ Enter(g)
  PROVE  IInv'
<1>1. CASE TakeReadLock(g)
  BY <1>1 DEF TakeReadLock, RLock, Goto, IInv, TypeOK, MuTypeOK, LockInv,
     HandleInv, TakenInv, FileInv, engineVars, ghostVars
<1>2. CASE FindClosed(g)
  BY <1>2 DEF FindClosed, RUnlock, Answer, Goto, IInv, TypeOK, MuTypeOK,
     LockInv, HandleInv, TakenInv, FileInv, engineVars, ghostVars, Statuses
<1>3. CASE Proceed(g)
  BY <1>3 DEF Proceed, Goto, IInv, TypeOK, MuTypeOK, LockInv, HandleInv,
     TakenInv, FileInv, muVars, engineVars, ghostVars
<1>4. CASE Enter(g)
  BY <1>4 DEF Enter, Goto, IInv, TypeOK, MuTypeOK, LockInv, HandleInv,
     TakenInv, FileInv, muVars, ghostVars, Statuses
<1>5. QED
  BY <1>1, <1>2, <1>3, <1>4

(* In the engine, which takes nothing after the finish.                    *)
LEMMA InTurn ==
  ASSUME IInv, NEW m, OutOfTurn(m) = "none"
  PROVE  stage \in {"new", "tabled"} /\ file # "full"
BY DEF OutOfTurn, IInv, TypeOK, FileInv

LEMMA EngineIInv ==
  ASSUME IInv, NEW g \in Goroutines,
         EngineRefuses(g) \/ EngineFails(g) \/ EngineTakes(g) \/ EngineFinishes(g)
  PROVE  IInv'
<1>1. CASE EngineRefuses(g)
  <2>1. OutOfTurn(call[g]) \in {"Misuse", "Closed"}
    BY <1>1 DEF EngineRefuses, OutOfTurn
  <2>2. QED
    BY <1>1, <2>1 DEF EngineRefuses, Done, Goto, IInv, TypeOK, MuTypeOK,
       LockInv, HandleInv, TakenInv, FileInv, muVars, ghostVars, Statuses
<1>2. CASE EngineFails(g)
  BY <1>2 DEF EngineFails, Done, Goto, IInv, TypeOK, MuTypeOK, LockInv,
     HandleInv, TakenInv, FileInv, muVars, ghostVars, Statuses
<1>3. CASE EngineTakes(g)
  <2>1. file # "full"
    BY <1>3, InTurn DEF EngineTakes
  <2>2. QED
    BY <1>3, <2>1 DEF EngineTakes, Done, Goto, IInv, TypeOK, MuTypeOK,
       LockInv, HandleInv, TakenInv, FileInv, muVars, ghostVars, Statuses
<1>4. CASE EngineFinishes(g)
  <2>1. file # "full"
    BY <1>4, InTurn DEF EngineFinishes
  <2>2. QED
    BY <1>4, <2>1 DEF EngineFinishes, Done, Goto, IInv, TypeOK, MuTypeOK,
       LockInv, HandleInv, TakenInv, FileInv, muVars, ghostVars, Statuses
<1>5. QED
  BY <1>1, <1>2, <1>3, <1>4

(* The answers, and Close, which nobody is inside of.                      *)
LEMMA LeavesIInv ==
  ASSUME IInv, NEW g \in Goroutines,
         Leave(g) \/ AnnounceClose(g) \/ Close(g)
  PROVE  IInv'
<1>1. CASE Leave(g)
  BY <1>1 DEF Leave, RUnlock, Answer, Goto, IInv, TypeOK, MuTypeOK, LockInv,
     HandleInv, TakenInv, FileInv, engineVars
<1>2. CASE AnnounceClose(g)
  BY <1>2 DEF AnnounceClose, Announce, Goto, IInv, TypeOK, MuTypeOK, LockInv,
     HandleInv, TakenInv, FileInv, engineVars, ghostVars
<1>3. CASE Close(g)
  BY <1>3 DEF Close, Granted, Unlock, Answer, Goto, IInv, TypeOK, MuTypeOK,
     LockInv, HandleInv, TakenInv, FileInv, ghostVars, Statuses
<1>4. QED
  BY <1>1, <1>2, <1>3

LEMMA StutterIInv == ASSUME IInv, UNCHANGED vars PROVE IInv'
BY DEF vars, muVars, engineVars, ghostVars, IInv, TypeOK, MuTypeOK, LockInv,
   HandleInv, TakenInv, FileInv

LEMMA NextIInv == ASSUME IInv, [Next]_vars PROVE IInv'
<1>1. CASE NewLoader \/ NewLoaderRefused \/ Drop \/ Crash \/ RemovePath
  BY <1>1, LoadsIInv
<1>2. ASSUME NEW g \in Goroutines, NEW m \in May[g],
             Refuse(g, m) \/ \E c \in Names \cup {NoName} : Call(g, m, c)
      PROVE  IInv'
  BY <1>2, CallsIInv
<1>3. ASSUME NEW g \in Goroutines, Step(g)
      PROVE  IInv'
  BY <1>3, EntersIInv, EngineIInv, LeavesIInv DEF Step
<1>4. CASE UNCHANGED vars
  BY <1>4, StutterIInv
<1>5. QED
  BY <1>1, <1>2, <1>3, <1>4 DEF Next

LEMMA Invariant == Spec => []IInv
<1>1. Init => IInv
  BY InitIInv
<1>2. IInv /\ [Next]_vars => IInv'
  BY NextIInv
<1>3. QED
  BY <1>1, <1>2, PTL DEF Spec

(* The types of the Loader; and it has an engine's loader exactly while    *)
(* its handle is there.                                                    *)
THEOREM TypeCorrect == Spec => []TypeOK
<1>1. IInv => TypeOK
  BY DEF IInv
<1>2. QED
  BY <1>1, Invariant, PTL

(* Close and the collector never free a loader a call is using             *)
(* (loader.go:360).                                                        *)
THEOREM FreedUnused == Spec => []NoUseAfterFree
<1>1. IInv => NoUseAfterFree
  BY DEF IInv, TypeOK, HandleInv, NoUseAfterFree
<1>2. QED
  BY <1>1, Invariant, PTL

(* A load either happened or did not (loader.go:61).                       *)
THEOREM HappenedOrNot == Spec => []AllOrNothing
<1>1. IInv => AllOrNothing
  BY DEF IInv, FileInv, AllOrNothing
<1>2. QED
  BY <1>1, Invariant, PTL

(* No step of any load touches a file that is finished (loader.go:82).     *)
LEMMA StepKeeps ==
  ASSUME IInv, [Next]_vars, file = "full"
  PROVE  \/ file' = "full" /\ stored' = stored
         \/ file' = "absent" /\ h # "open"
<1>1. CASE NewLoader \/ NewLoaderRefused \/ Drop \/ Crash \/ RemovePath
  BY <1>1 DEF NewLoader, Fresh, NewLoaderRefused, Drop, Crash, RemovePath, engineVars
<1>2. ASSUME NEW g \in Goroutines, NEW m \in May[g],
             Refuse(g, m) \/ \E c \in Names \cup {NoName} : Call(g, m, c)
      PROVE  file' = "full" /\ stored' = stored
  BY <1>2 DEF Refuse, Call, engineVars
<1>3. ASSUME NEW g \in Goroutines, Step(g)
      PROVE  file' = "full" /\ stored' = stored
  <2>1. ~EngineFinishes(g)
    BY InTurn DEF EngineFinishes
  <2>2. QED
    BY <1>3, <2>1 DEF Step, TakeReadLock, FindClosed, Proceed, Enter,
       EngineRefuses, EngineFails, EngineTakes, Leave, AnnounceClose, Close,
       engineVars
<1>4. CASE UNCHANGED vars
  BY <1>4 DEF vars, engineVars
<1>5. QED
  BY <1>1, <1>2, <1>3, <1>4 DEF Next

(* A finished load keeps its rows until the program removes the path.      *)
THEOREM FinishedKept == Spec => FinishedStays
<1>1. IInv /\ [Next]_vars => [file = "full" => \/ file' = "full" /\ stored' = stored
                                               \/ file' = "absent" /\ h # "open"]_vars
  BY StepKeeps
<1>2. QED
  BY <1>1, Invariant, PTL DEF Spec, FinishedStays
=============================================================================

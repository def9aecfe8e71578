-------------------------- MODULE LifecycleProofs --------------------------
(***************************************************************************)
(* Proofs about Lifecycle, for any number of goroutines and handles.       *)
(***************************************************************************)
EXTENDS Lifecycle, TLAPS

----------------------------------------------------------------------------
(* The inductive invariant.                                                *)

(* A goroutine in a call is in one its receiver has, and the receiver's    *)
(* handle was there when it came in and is still.                          *)
CallInv ==
  \A g \in Goroutines :
    \/ op[g] = "none" /\ on[g] = NoConn
    \/ on[g] \in Objects /\ op[g] \in CallsOf(on[g]) /\ field[on[g]] = "set"

(* Nothing refers to a handle that has not been made.                      *)
FreshInv ==
  \A o \in Objects :
    lib[o] = "none" => /\ field[o] = "none" /\ armed[o] = "off"
                       /\ ~Reachable(o)

(* The handles there are to free are those with a cleanup to come.         *)
ArmedInv == \A o \in Objects : armed[o] # "off" <=> lib[o] = "live"

(* The collector has not come for what can be reached.                     *)
KeptInv ==
  \A o \in Objects : Reachable(o) /\ field[o] = "set" => armed[o] = "armed"

(* A Stmt and a Rows are used by one goroutine at a time.                  *)
AloneInv ==
  \A g1, g2 \in Goroutines : on[g1] \in OnConn /\ on[g1] = on[g2] => g1 = g2

IInv ==
  /\ TypeOK /\ CallInv /\ FreshInv /\ ArmedInv /\ KeptInv /\ AloneInv
  /\ FreedOnce

----------------------------------------------------------------------------
(* Calls come and go.                                                      *)

(* Every goroutine stays where it is or leaves its call.                   *)
Quieter ==
  /\ op' \in [Goroutines -> Calls \cup {"none"}]
  /\ on' \in [Goroutines -> Objects \cup {NoConn}]
  /\ \A g \in Goroutines :
       \/ op'[g] = op[g] /\ on'[g] = on[g]
       \/ op'[g] = "none" /\ on'[g] = NoConn

LEMMA StayQuieter == TypeOK /\ UNCHANGED <<op, on>> => Quieter
BY DEF TypeOK, Quieter

LEMMA LeaveQuieter ==
  ASSUME TypeOK, NEW g \in Goroutines, Leave(g)
  PROVE  Quieter
BY DEF TypeOK, Quieter, Leave

(* What kind of object each call is on, and what it makes.                 *)
LEMMA CallKinds ==
  ASSUME NEW o \in Objects, NEW p \in CallsOf(o)
  PROVE  /\ p \in Calls
         /\ p # "none"
         /\ p = "execute" => o \in Stmts
         /\ p \in {"export", "lent"} => o \in Results
BY KindsAssumption DEF CallsOf, Calls, Objects, OnConn, Locked

----------------------------------------------------------------------------
(* Reachability.  No step but making a handle makes anything reachable.    *)

LEMMA ReachableShrinks ==
  ASSUME UNCHANGED conn, held' \subseteq held,
         \A g \in Goroutines :
           \/ op'[g] = op[g] /\ on'[g] = on[g]
           \/ on'[g] \in held \cup {NoConn}
  PROVE  \A o \in Objects : Reachable(o)' => Reachable(o)
<1>1. \A o \in Objects : Rooted(o)' => Rooted(o)
  BY KindsAssumption DEF Rooted, Pinned, Calling
<1>2. OnConn \subseteq Objects
  BY DEF Objects, OnConn
<1>3. QED
  BY <1>1, <1>2 DEF Reachable

(* Making o makes o reachable, and its connection was.                     *)
LEMMA ReachableOwn ==
  ASSUME TypeOK, Quieter, NEW o \in Objects, NEW c, NEW a, Own(o, c, a),
         o \in OnConn => c \in Conns \cup {NoConn},
         o \in OnConn /\ c \in Conns => Reachable(c)
  PROVE  \A x \in Objects : Reachable(x)' => x = o \/ Reachable(x)
<1>1. \A x \in Objects : Rooted(x)' => x = o \/ Rooted(x)
  BY KindsAssumption DEF Rooted, Pinned, Calling, Quieter, Own
<1>2. OnConn \subseteq Objects
  BY DEF Objects, OnConn
<1>3. \A s \in OnConn : conn'[s] = IF s = o THEN c ELSE conn[s]
  BY DEF Own, TypeOK
<1>4. QED
  BY <1>1, <1>2, <1>3, KindsAssumption DEF Reachable

----------------------------------------------------------------------------
(* Each step preserves the invariant.                                      *)

LEMMA InitInv == Init => IInv
<1>1. SUFFICES ASSUME Init PROVE IInv
  OBVIOUS
<1>2. TypeOK
  BY <1>1 DEF Init, TypeOK
<1>3. CallInv
  BY <1>1 DEF Init, CallInv
<1>4. FreshInv
  BY <1>1, KindsAssumption
     DEF Init, FreshInv, Reachable, Rooted, Pinned, Calling, Objects, OnConn
<1>5. ArmedInv /\ KeptInv /\ FreedOnce
  BY <1>1 DEF Init, ArmedInv, KeptInv, FreedOnce
<1>6. AloneInv
  BY <1>1, KindsAssumption DEF Init, AloneInv, Objects, OnConn
<1>7. QED
  BY <1>2, <1>3, <1>4, <1>5, <1>6 DEF IInv

(* A step that makes nothing and calls nothing, by what it does to the     *)
(* handle o.                                                               *)
LEMMA QuietInv ==
  ASSUME IInv, Quieter, UNCHANGED conn, held' \subseteq held,
         \A x \in Objects : Reachable(x)' => Reachable(x),
         NEW o \in Objects,
         NEW l \in {"none", "live", "freed", "given", "released"},
         NEW f \in {"none", "set", "nil"},
         NEW a \in {"off", "armed", "queued"},
         lib' = [lib EXCEPT ![o] = l],
         field' = [field EXCEPT ![o] = f],
         armed' = [armed EXCEPT ![o] = a],
         l = "none" => lib[o] = "none",
         l = "none" => f = "none" /\ a = "off",
         f = "none" => a = "off" /\ o \notin held,
         a # "off" <=> l = "live",
         f = "set" /\ Reachable(o)' => a = "armed",
         f # "set" => \A g \in Goroutines : on'[g] # o
  PROVE  IInv'
<1>1. TypeOK'
  BY DEF IInv, TypeOK, Quieter
<1>2. CallInv'
  BY DEF IInv, TypeOK, CallInv, Quieter
<1>3. FreshInv'
  BY DEF IInv, TypeOK, FreshInv
<1>4. ArmedInv' /\ FreedOnce'
  BY DEF IInv, TypeOK, ArmedInv, FreedOnce
<1>5. KeptInv'
  BY DEF IInv, TypeOK, KeptInv
<1>6. AloneInv'
  BY KindsAssumption DEF IInv, AloneInv, Quieter, Objects, OnConn
<1>7. QED
  BY <1>1, <1>2, <1>3, <1>4, <1>5, <1>6 DEF IInv

(* The same for a step that leaves every handle alone.                     *)
LEMMA SameHandles ==
  ASSUME IInv, Quieter, UNCHANGED <<lib, field, armed, conn>>,
         held' \subseteq held,
         \A x \in Objects : Reachable(x)' => Reachable(x)
  PROVE  IInv'
<1>1. TypeOK'
  BY DEF IInv, TypeOK, Quieter
<1>2. CallInv'
  BY DEF IInv, CallInv, Quieter
<1>3. FreshInv' /\ ArmedInv' /\ FreedOnce' /\ KeptInv'
  BY DEF IInv, FreshInv, ArmedInv, FreedOnce, KeptInv
<1>4. AloneInv'
  BY KindsAssumption DEF IInv, AloneInv, Quieter, Objects, OnConn
<1>5. QED
  BY <1>1, <1>2, <1>3, <1>4 DEF IInv

LEMMA RegisterSteps ==
  ASSUME IInv, Quieter, NEW o \in Objects, NEW c,
         lib[o] = "none", Register(o, c),
         o \in OnConn => c \in Conns \cup {NoConn},
         o \in OnConn /\ c \in Conns => Reachable(c)
  PROVE  IInv'
<1>1. Own(o, c, "armed")
  BY DEF Register
<1>2. \A x \in Objects : Reachable(x)' => x = o \/ Reachable(x)
  BY <1>1, ReachableOwn DEF IInv
<1>3. TypeOK'
  BY <1>1 DEF Own, IInv, TypeOK, Quieter
<1>4. CallInv'
  BY <1>1 DEF Own, IInv, TypeOK, CallInv, Quieter
<1>5. FreshInv'
  BY <1>1, <1>2 DEF Own, IInv, TypeOK, FreshInv
<1>6. ArmedInv' /\ FreedOnce'
  BY <1>1 DEF Own, IInv, TypeOK, ArmedInv, FreedOnce
<1>7. KeptInv'
  BY <1>1, <1>2 DEF Own, IInv, TypeOK, KeptInv
<1>8. AloneInv'
  BY KindsAssumption DEF IInv, AloneInv, Quieter, Objects, OnConn
<1>9. QED
  BY <1>3, <1>4, <1>5, <1>6, <1>7, <1>8 DEF IInv

LEMMA MakeSteps ==
  ASSUME IInv, NEW g \in Goroutines, Make(g)
  PROVE  IInv'
<1>1. PICK o \in Makes(on[g], op[g]) :
             lib[o] = "none" /\ Register(o, ConnFor(g))
  BY DEF Make
<1>2. Quieter
  BY LeaveQuieter DEF Make, IInv
<1>3. on[g] \in Objects /\ op[g] \in CallsOf(on[g])
  BY <1>1, KindsAssumption, CallKinds
     DEF IInv, CallInv, Makes, Objects, Locked
<1>4. o \in Objects
      /\ (o \in OnConn => on[g] \in Conns \/ op[g] = "execute")
  BY <1>1, KindsAssumption DEF Makes, OnConn
<1>5. o \in OnConn => ConnFor(g) \in Conns \cup {NoConn}
  BY <1>3, <1>4, CallKinds, KindsAssumption
     DEF ConnFor, IInv, TypeOK, OnConn, Objects
<1>6. o \in OnConn /\ ConnFor(g) \in Conns => Reachable(ConnFor(g))
  BY <1>3, <1>4, CallKinds, KindsAssumption
     DEF ConnFor, Reachable, Rooted, Pinned, Calling, OnConn
<1>7. QED
  BY <1>1, <1>2, <1>4, <1>5, <1>6, RegisterSteps DEF Make

LEMMA OpenSteps ==
  ASSUME IInv, NEW d \in DBs, Open(d)
  PROVE  IInv'
<1>1. d \in Objects /\ d \notin OnConn
  BY KindsAssumption DEF Objects
<1>2. Quieter
  BY StayQuieter DEF Open, IInv
<1>3. QED
  BY <1>1, <1>2, RegisterSteps DEF Open

LEMMA MakeUnnamedSteps ==
  ASSUME IInv, NEW g \in Goroutines, MakeUnnamed(g)
  PROVE  IInv'
<1>1. PICK o \in Results : lib[o] = "none" /\ Discard(o)
  BY DEF MakeUnnamed, Unnamed
<1>2. Quieter
  BY LeaveQuieter DEF MakeUnnamed, IInv
<1>3. o \in Objects /\ UNCHANGED <<field, armed, conn, held>>
  BY <1>1 DEF Objects, MakeUnnamed, Discard
<1>4. \A x \in Objects : Reachable(x)' => Reachable(x)
  BY <1>2, <1>3, ReachableShrinks DEF Quieter
<1>5. field[o] = "none" /\ armed[o] = "off" /\ o \notin held
  BY <1>1, <1>3 DEF IInv, FreshInv, Reachable, Rooted
<1>6. /\ field' = [field EXCEPT ![o] = "none"]
      /\ armed' = [armed EXCEPT ![o] = "off"]
      /\ lib' = [lib EXCEPT ![o] = "freed"]
      /\ o \notin held
  BY <1>1, <1>3, <1>5 DEF Discard, IInv, TypeOK
<1>7. \A x \in Goroutines : on'[x] # o
  BY <1>1, <1>2, <1>3, KindsAssumption DEF IInv, FreshInv, CallInv, Quieter
<1>8. QED
  BY <1>1, <1>2, <1>3, <1>4, <1>6, <1>7, QuietInv

LEMMA ReturnSteps ==
  ASSUME IInv, NEW g \in Goroutines, Return(g) \/ ExportRefused(g)
  PROVE  IInv'
<1>1. Quieter
  BY LeaveQuieter DEF Return, ExportRefused, IInv
<1>2. /\ UNCHANGED <<lib, field, armed, conn, held>>
     
  BY CallKinds DEF Return, ExportRefused, IInv, TypeOK, CallInv
<1>3. \A x \in Objects : Reachable(x)' => Reachable(x)
  BY <1>1, <1>2, ReachableShrinks DEF Quieter
<1>4. QED
  BY <1>1, <1>2, <1>3, SameHandles

LEMMA ExportSteps ==
  ASSUME IInv, NEW g \in Goroutines, Export(g)
  PROVE  IInv'
<1> DEFINE r == on[g]
<1>1. PICK to \in {"given", "freed"} :
        /\ lib' = [lib EXCEPT ![r] = to]
        /\ field' = [field EXCEPT ![r] = "nil"]
        /\ armed' = [armed EXCEPT ![r] = "off"]
        /\ op[g] = "export" /\ Leave(g)
        /\ UNCHANGED <<conn, held>>
  BY DEF Export, Spend
<1>2. Quieter
  BY <1>1, LeaveQuieter DEF IInv
<1>3. r \in Results /\ r \in Objects /\ Reachable(r)
  BY <1>1, CallKinds, KindsAssumption
     DEF IInv, CallInv, Reachable, Rooted, Pinned, Calling
<1>4. \A x \in Objects : Reachable(x)' => Reachable(x)
  BY <1>1, <1>2, ReachableShrinks DEF Quieter
<1>5. \A x \in Goroutines : on'[x] # r
  BY <1>1, <1>3, KindsAssumption DEF Leave, IInv, AloneInv, OnConn, TypeOK
<1>6. lib[r] # "none"
  BY <1>3 DEF IInv, FreshInv
<1>7. QED
  BY <1>1, <1>2, <1>3, <1>4, <1>5, <1>6, QuietInv

LEMMA CallSteps ==
  ASSUME IInv, NEW g \in Goroutines, NEW o \in Objects,
         NEW p \in CallsOf(o), Call(g, o, p)
  PROVE  IInv'
<1>1. /\ op[g] = "none" /\ o \in held /\ field[o] = "set"
      /\ o \in OnConn => Calling(o) = {}
      /\ op' = [op EXCEPT ![g] = p]
      /\ on' = [on EXCEPT ![g] = o]
      /\ UNCHANGED <<lib, field, armed, conn, held>>
  BY DEF Call, CallAny
<1>2. \A x \in Objects : Reachable(x)' => Reachable(x)
  BY <1>1, ReachableShrinks DEF IInv, TypeOK
<1>3. TypeOK'
  BY <1>1, CallKinds DEF IInv, TypeOK
<1>4. CallInv'
  BY <1>1 DEF IInv, TypeOK, CallInv
<1>5. FreshInv'
  BY <1>1, <1>2 DEF IInv, FreshInv
<1>6. ArmedInv' /\ FreedOnce'
  BY <1>1 DEF IInv, ArmedInv, FreedOnce
<1>7. KeptInv'
  BY <1>1, <1>2 DEF IInv, KeptInv
<1>8. AloneInv'
  BY <1>1 DEF IInv, TypeOK, AloneInv, Calling
<1>9. QED
  BY <1>3, <1>4, <1>5, <1>6, <1>7, <1>8 DEF IInv

LEMMA CloseSteps ==
  ASSUME IInv, NEW g \in Goroutines, NEW o \in Objects, Close(g, o)
  PROVE  IInv'
<1>1. /\ o \in held /\ field[o] = "set" /\ Quiet(o)
      /\ lib' = [lib EXCEPT ![o] = Freed(o)]
      /\ field' = [field EXCEPT ![o] = "nil"]
      /\ armed' = [armed EXCEPT ![o] = "off"]
      /\ UNCHANGED <<conn, held, op, on>>
  BY DEF Close, CloseNow
<1>2. Quieter
  BY <1>1, StayQuieter DEF IInv
<1>3. lib[o] = "live"
  BY <1>1 DEF IInv, KeptInv, ArmedInv, Reachable, Rooted
<1>4. \A x \in Objects : Reachable(x)' => Reachable(x)
  BY <1>1, ReachableShrinks
<1>5. \A x \in Goroutines : on'[x] # o
  BY <1>1 DEF Quiet, Reading, Calling
<1>6. lib' = [lib EXCEPT ![o] = "freed"]
  BY <1>1, <1>3 DEF Freed
<1>7. QED
  BY <1>1, <1>2, <1>3, <1>4, <1>5, <1>6, QuietInv

LEMMA DropSteps ==
  ASSUME IInv, NEW o \in Objects, Drop(o)
  PROVE  IInv'
<1>1. Quieter
  BY StayQuieter DEF Drop, IInv
<1>2. /\ UNCHANGED <<lib, field, armed, conn>>
      /\ held' \subseteq held
  BY DEF Drop, IInv, TypeOK
<1>3. \A x \in Objects : Reachable(x)' => Reachable(x)
  BY <1>1, <1>2, ReachableShrinks DEF Quieter
<1>4. QED
  BY <1>1, <1>2, <1>3, SameHandles

LEMMA CollectSteps ==
  ASSUME IInv, NEW o \in Objects, Collect(o) \/ Cleanup(o)
  PROVE  IInv'
<1>1. Quieter
  BY StayQuieter DEF Collect, Cleanup, IInv
<1>2. /\ UNCHANGED <<field, conn, held>>
     
      /\ field' = [field EXCEPT ![o] = field[o]]
  BY DEF Collect, Cleanup, IInv, TypeOK
<1>3. \A x \in Objects : Reachable(x)' => Reachable(x)
  BY <1>1, <1>2, ReachableShrinks DEF Quieter
<1>4. lib[o] = "live" /\ field[o] # "none"
  BY DEF Collect, Cleanup, IInv, ArmedInv, TypeOK
<1>5. field[o] # "set" => \A g \in Goroutines : on'[g] # o
  BY KindsAssumption DEF Collect, Cleanup, IInv, CallInv
<1>6. field[o] \in {"none", "set", "nil"}
  BY DEF IInv, TypeOK
<1>7. CASE Collect(o)
  <2>1. /\ armed' = [armed EXCEPT ![o] = "queued"]
        /\ lib' = [lib EXCEPT ![o] = "live"]
        /\ ~Reachable(o)
    BY <1>4, <1>7 DEF Collect, IInv, TypeOK
  <2>2. QED
    BY <1>1, <1>2, <1>3, <1>4, <1>5, <1>6, <2>1, QuietInv
<1>8. CASE Cleanup(o)
  <2>1. /\ armed' = [armed EXCEPT ![o] = "off"]
        /\ lib' = [lib EXCEPT ![o] = "freed"]
        /\ field[o] = "set" => ~Reachable(o)
    BY <1>4, <1>8 DEF Cleanup, Freed, IInv, KeptInv
  <2>2. QED
    BY <1>1, <1>2, <1>3, <1>4, <1>5, <1>6, <2>1, QuietInv
<1>9. QED
  BY <1>7, <1>8

LEMMA ReleaseSteps ==
  ASSUME IInv, NEW r \in Results, Release(r)
  PROVE  IInv'
<1>1. Quieter
  BY StayQuieter DEF Release, IInv
<1>2. r \in Objects /\ UNCHANGED <<field, armed, conn, held, on>>
  BY DEF Release, Objects
<1>3. \A x \in Objects : Reachable(x)' => Reachable(x)
  BY <1>1, <1>2, ReachableShrinks DEF Quieter
<1>4. /\ TypeOK' /\ CallInv' /\ AloneInv' /\ ArmedInv' /\ FreedOnce'
  BY <1>2 DEF Release, IInv, TypeOK, CallInv, AloneInv, ArmedInv, FreedOnce
<1>5. FreshInv' /\ KeptInv'
  BY <1>2, <1>3 DEF Release, IInv, TypeOK, FreshInv, KeptInv
<1>6. QED
  BY <1>4, <1>5 DEF IInv

LEMMA StutterSteps == IInv /\ UNCHANGED vars => IInv'
<1>1. SUFFICES ASSUME IInv, UNCHANGED vars PROVE IInv'
  OBVIOUS
<1>2. Quieter
  BY <1>1, StayQuieter DEF vars, IInv, TypeOK
<1>3. \A x \in Objects : Reachable(x)' => Reachable(x)
  BY <1>1, ReachableShrinks DEF vars
<1>4. QED
  BY <1>1, <1>2, <1>3, SameHandles DEF vars

LEMMA NextInv == IInv /\ [Next]_vars => IInv'
<1>1. CASE IInv /\ Next
  BY <1>1, OpenSteps, MakeSteps, MakeUnnamedSteps, ReturnSteps, ExportSteps,
     CallSteps, CloseSteps, DropSteps, CollectSteps, ReleaseSteps
     DEF Next, Objects
<1>2. QED
  BY <1>1, StutterSteps

LEMMA Invariance == Spec => []IInv
BY InitInv, NextInv, PTL DEF Spec

(* The type invariant.                                                     *)
THEOREM TypeCorrect == Spec => []TypeOK
<1>1. IInv => TypeOK
  BY DEF IInv
<1>2. QED
  BY <1>1, Invariance, PTL

(* Close, the cleanup and the Arrow consumer: one of them frees a handle.  *)
THEOREM FreesOnce == Spec => []FreedOnce
<1>1. IInv => FreedOnce
  BY DEF IInv
<1>2. QED
  BY <1>1, Invariance, PTL

(* What can be reached and is not closed has its handle.                   *)
THEOREM ReachableIsOpen == Spec => []ReachableStaysOpen
<1>1. IInv => ReachableStaysOpen
  BY DEF IInv, KeptInv, ArmedInv, ReachableStaysOpen
<1>2. QED
  BY <1>1, Invariance, PTL

(* What the program can no longer reach has its cleanup to come.           *)
THEOREM LeakFree == Spec => []NothingLeaks
<1>1. IInv => NothingLeaks
  BY DEF IInv, ArmedInv, NothingLeaks
<1>2. QED
  BY <1>1, Invariance, PTL

----------------------------------------------------------------------------
(* Each handle of Lifecycle is a Handle: the proof of the refinement that  *)
(* the runs check on a few handles, for any number of them.                *)

(* What a step may be to the handle o.                                     *)
HandleStep(o) == TheHandle(o)!Next \/ UNCHANGED TheHandle(o)!handleVars

Exists(o) == lib[o] \in {"none", "live"}

LEMMA Stays ==
  ASSUME NEW o \in Objects, Exists(o)' = Exists(o), Inside(o)' = Inside(o)
  PROVE  HandleStep(o)
BY DEF HandleStep, Exists, TheHandle!handleVars

LEMMA Leaves ==
  ASSUME NEW o \in Objects, NEW g \in Goroutines,
         Exists(o)' = Exists(o), Inside(o)' = Inside(o) \ {g}
  PROVE  HandleStep(o)
BY DEF HandleStep, Exists, TheHandle!Next, TheHandle!Leave

LEMMA Enters ==
  ASSUME NEW o \in Objects, NEW g \in Goroutines,
         Exists(o), Exists(o)', Inside(o)' = Inside(o) \cup {g}
  PROVE  HandleStep(o)
BY DEF HandleStep, Exists, TheHandle!Next, TheHandle!Enter

LEMMA Frees ==
  ASSUME NEW o \in Objects,
         Exists(o), ~Exists(o)', Inside(o) = {}, Inside(o)' = {}
  PROVE  HandleStep(o)
BY DEF HandleStep, Exists, TheHandle!Next, TheHandle!Free

LEMMA HandlesInit == Init => \A o \in Objects : TheHandle(o)!Init
BY KindsAssumption DEF Init, TheHandle!Init, Inside

----------------------------------------------------------------------------
(* Who is inside.                                                          *)

(* Whoever is inside keeps the handle reachable, and it is there.          *)
LEMMA InsideIsOpen ==
  ASSUME IInv, NEW o \in Objects, NEW g \in Inside(o)
  PROVE  Reachable(o) /\ field[o] = "set" /\ lib[o] = "live"
<1>1. g \in Goroutines
  BY DEF Inside
<1>2. CASE on[g] = o /\ op[g] \notin {"lent", "export"}
  <2>1. Reachable(o) /\ field[o] = "set"
    BY <1>1, <1>2, KindsAssumption
       DEF Reachable, Rooted, Pinned, Calling, IInv, CallInv
  <2>2. QED
    BY <2>1 DEF IInv, KeptInv, ArmedInv
<1>3. CASE op[g] \in {"execute", "export"} /\ conn[on[g]] = o /\ field[o] = "set"
  <2>1. on[g] \in OnConn /\ Rooted(on[g])
    BY <1>1, <1>3, CallKinds
       DEF Rooted, Pinned, Calling, IInv, CallInv, OnConn
  <2>2. QED
    BY <1>3, <2>1 DEF Reachable, IInv, KeptInv, ArmedInv
<1>4. QED
  BY <1>2, <1>3 DEF Inside

(* A goroutine that leaves its call is inside nothing.                     *)
LEMMA InsideLeave ==
  ASSUME IInv, NEW g \in Goroutines, Leave(g), NEW o \in Objects,
         conn' = conn, field'[o] = field[o]
  PROVE  Inside(o)' = Inside(o) \ {g}
BY KindsAssumption DEF Inside, Leave, IInv, TypeOK

----------------------------------------------------------------------------
(* What each step of Lifecycle is to a handle x.                           *)

LEMMA MakeHandle ==
  ASSUME IInv, NEW g \in Goroutines, Make(g), NEW x \in Objects
  PROVE  HandleStep(x)
<1>1. PICK o \in Makes(on[g], op[g]) :
        lib[o] = "none" /\ Own(o, ConnFor(g), "armed")
  BY DEF Make, Register
<1>2. o \in Objects
  BY <1>1 DEF Makes
<1>3. \A u \in Goroutines :
        op[u] \in {"execute", "export"} =>
          /\ on[u] \in OnConn /\ on[u] # o
          /\ conn[on[u]] # o
  <2>1. SUFFICES ASSUME NEW u \in Goroutines, op[u] \in {"execute", "export"}
                 PROVE  on[u] \in OnConn /\ on[u] # o /\ conn[on[u]] # o
    OBVIOUS
  <2>2. on[u] \in OnConn /\ Rooted(on[u])
    BY <2>1, CallKinds DEF Rooted, Pinned, Calling, IInv, CallInv, OnConn
  <2>3. QED
    BY <1>1, <1>2, <2>2 DEF Reachable, IInv, FreshInv
<1>4. Exists(x)' = Exists(x)
  BY <1>1, <1>2 DEF Own, Exists, IInv, TypeOK
<1>5. \A u \in Goroutines : on[u] # o
  BY <1>1, <1>2, KindsAssumption DEF IInv, CallInv, FreshInv
<1>6. \A u \in Goroutines : u # g => (u \in Inside(x)' <=> u \in Inside(x))
  BY <1>1, <1>2, <1>3 DEF Make, Own, Leave, Inside, IInv, TypeOK
<1>7. g \notin Inside(x)'
  BY KindsAssumption DEF Make, Leave, Inside, IInv, TypeOK
<1>8. Inside(x)' = Inside(x) \ {g}
  BY <1>6, <1>7 DEF Inside
<1>9. QED
  BY <1>4, <1>8, Leaves

LEMMA MakeUnnamedHandle ==
  ASSUME IInv, NEW g \in Goroutines, MakeUnnamed(g), NEW x \in Objects
  PROVE  HandleStep(x)
<1>1. PICK o \in Results : lib[o] = "none" /\ Discard(o)
  BY DEF MakeUnnamed, Unnamed
<1>2. o \in Objects /\ Leave(g) /\ conn' = conn /\ field' = field
  BY <1>1 DEF MakeUnnamed, Discard, Objects
<1>3. Inside(x)' = Inside(x) \ {g}
  BY <1>2, InsideLeave
<1>4. CASE x = o
  <2>1. Inside(x) = {}
    BY <1>1, <1>2, <1>4, InsideIsOpen DEF IInv, FreshInv
  <2>2. Exists(x) /\ ~Exists(x)'
    BY <1>1, <1>2, <1>4 DEF Discard, Exists, IInv, TypeOK
  <2>3. QED
    BY <1>3, <2>1, <2>2, Frees
<1>5. CASE x # o
  <2>1. Exists(x)' = Exists(x)
    BY <1>1, <1>2, <1>5 DEF Discard, Exists, IInv, TypeOK
  <2>2. QED
    BY <1>3, <2>1, Leaves
<1>6. QED
  BY <1>4, <1>5

LEMMA ReturnHandle ==
  ASSUME IInv, NEW g \in Goroutines, Return(g) \/ ExportRefused(g),
         NEW x \in Objects
  PROVE  HandleStep(x)
<1>1. Leave(g) /\ conn' = conn /\ field' = field /\ lib' = lib
  BY DEF Return, ExportRefused
<1>2. Inside(x)' = Inside(x) \ {g}
  BY <1>1, InsideLeave
<1>3. QED
  BY <1>1, <1>2, Leaves DEF Exists

LEMMA ExportHandle ==
  ASSUME IInv, NEW g \in Goroutines, Export(g), NEW x \in Objects
  PROVE  HandleStep(x)
<1>1. PICK r \in Results : r = on[g]
  BY CallKinds DEF Export, Spend, IInv, CallInv
<1>2. PICK to \in {"given", "freed"} :
        /\ lib' = [lib EXCEPT ![r] = to]
        /\ field' = [field EXCEPT ![r] = "nil"]
        /\ op[g] = "export" /\ Leave(g)
        /\ conn' = conn
  BY <1>1 DEF Export, Spend
<1>3. r \in Objects /\ r \in OnConn /\ field[r] = "set"
  BY <1>1, <1>2, CallKinds, KindsAssumption DEF IInv, CallInv, OnConn, Objects
<1>4. lib[r] = "live"
  <2>1. Reachable(r)
    BY <1>1, <1>2 DEF Reachable, Rooted, Pinned, Calling
  <2>2. QED
    BY <1>3, <2>1 DEF IInv, KeptInv, ArmedInv
<1>5. \A u \in Goroutines :
        /\ u \notin Inside(r)
        /\ u \notin Inside(r)'
  <2>1. SUFFICES ASSUME NEW u \in Goroutines
                 PROVE  u \notin Inside(r) /\ u \notin Inside(r)'
    OBVIOUS
  <2>2. on[u] = r => op[u] = "export"
    BY <1>1, <1>2, <1>3 DEF IInv, AloneInv
  <2>3. op[u] \in {"execute", "export"} => conn[on[u]] # r
    BY <1>3, CallKinds, KindsAssumption DEF IInv, CallInv, TypeOK, OnConn, Objects
  <2>4. \/ op'[u] = op[u] /\ on'[u] = on[u]
        \/ op'[u] = "none" /\ on'[u] = NoConn
    BY <1>2 DEF Leave, IInv, TypeOK
  <2>5. QED
    BY <1>2, <1>3, <2>2, <2>3, <2>4, KindsAssumption DEF Inside
<1>6. CASE x = r
  <2>1. Exists(x) /\ ~Exists(x)'
    BY <1>2, <1>3, <1>4, <1>6 DEF Exists, IInv, TypeOK
  <2>2. Inside(x) = {} /\ Inside(x)' = {}
    BY <1>5, <1>6 DEF Inside
  <2>3. QED
    BY <2>1, <2>2, Frees
<1>7. CASE x # r
  <2>1. Exists(x)' = Exists(x) /\ field'[x] = field[x]
    BY <1>2, <1>3, <1>7 DEF Exists, IInv, TypeOK
  <2>2. Inside(x)' = Inside(x) \ {g}
    BY <1>2, <2>1, InsideLeave
  <2>3. QED
    BY <2>1, <2>2, Leaves
<1>8. QED
  BY <1>6, <1>7

LEMMA CallHandle ==
  ASSUME IInv, NEW g \in Goroutines, NEW o \in Objects,
         NEW p \in CallsOf(o), Call(g, o, p), NEW x \in Objects
  PROVE  HandleStep(x)
<1>1. /\ op[g] = "none"
      /\ op' = [op EXCEPT ![g] = p]
      /\ on' = [on EXCEPT ![g] = o]
      /\ UNCHANGED <<lib, field, armed, conn, held>>
  BY DEF Call, CallAny
<1>2. \A u \in Goroutines : u # g => (u \in Inside(x)' <=> u \in Inside(x))
  BY <1>1 DEF Inside, IInv, TypeOK
<1>3. g \notin Inside(x)
  BY <1>1, KindsAssumption, CallKinds DEF Inside, IInv, CallInv
<1>4. CASE g \notin Inside(x)'
  <2>1. Inside(x)' = Inside(x)
    BY <1>2, <1>3, <1>4 DEF Inside
  <2>2. QED
    BY <1>1, <2>1, Stays DEF Exists
<1>5. CASE g \in Inside(x)'
  <2>1. Inside(x)' = Inside(x) \cup {g}
    BY <1>2, <1>3, <1>5 DEF Inside
  <2>2. lib[x] = "live"
    <3>1. CASE x = o
      BY <3>1 DEF Call, CallAny, Reachable, Rooted, IInv, KeptInv, ArmedInv
    <3>2. CASE x # o
      <4>1. p \in {"execute", "export"} /\ conn[o] = x /\ field[x] = "set"
        BY <1>1, <1>5, <3>2 DEF Inside, IInv, TypeOK
      <4>2. o \in OnConn
        BY <4>1, CallKinds DEF OnConn
      <4>3. Reachable(x)
        BY <4>1, <4>2 DEF Call, CallAny, Reachable, Rooted
      <4>4. QED
        BY <4>1, <4>3 DEF IInv, KeptInv, ArmedInv
    <3>3. QED
      BY <3>1, <3>2
  <2>3. Exists(x) /\ Exists(x)'
    BY <1>1, <2>2 DEF Exists
  <2>4. QED
    BY <2>1, <2>3, Enters
<1>6. QED
  BY <1>4, <1>5

LEMMA CloseHandle ==
  ASSUME IInv, NEW g \in Goroutines, NEW o \in Objects, Close(g, o),
         NEW x \in Objects
  PROVE  HandleStep(x)
<1>1. /\ o \in held /\ field[o] = "set" /\ Quiet(o)
      /\ lib' = [lib EXCEPT ![o] = Freed(o)]
      /\ field' = [field EXCEPT ![o] = "nil"]
      /\ UNCHANGED <<conn, op, on>>
  BY DEF Close, CloseNow
<1>2. CASE x = o
  <2>1. Inside(o) = {}
    <3>1. CASE o \in Locked
      BY <1>1, <3>1 DEF Quiet, Reading, Inside
    <3>2. CASE o \notin Locked
      <4>1. \A u \in Goroutines :
              op[u] \in {"execute", "export"} => conn[on[u]] # o
        BY <3>2, CallKinds, KindsAssumption
           DEF IInv, CallInv, TypeOK, OnConn, Locked
      <4>2. QED
        BY <1>1, <3>2, <4>1 DEF Quiet, Calling, Inside
    <3>3. QED
      BY <3>1, <3>2
  <2>2. Inside(o)' = {}
    BY <1>1, <2>1 DEF Inside, IInv, TypeOK
  <2>3. lib[o] = "live"
    BY <1>1 DEF IInv, KeptInv, ArmedInv, Reachable, Rooted
  <2>4. Exists(o) /\ ~Exists(o)'
    BY <1>1, <2>3 DEF Exists, Freed, IInv, TypeOK
  <2>5. QED
    BY <1>2, <2>1, <2>2, <2>4, Frees
<1>3. CASE x # o
  <2>1. Exists(x)' = Exists(x) /\ Inside(x)' = Inside(x)
    BY <1>1, <1>3 DEF Exists, Inside, IInv, TypeOK
  <2>2. QED
    BY <2>1, Stays
<1>4. QED
  BY <1>2, <1>3

LEMMA CleanupHandle ==
  ASSUME IInv, NEW o \in Objects, Cleanup(o), NEW x \in Objects
  PROVE  HandleStep(x)
<1>1. Inside(x)' = Inside(x)
  BY DEF Cleanup, Inside
<1>2. CASE x = o
  <2>1. lib[o] = "live" /\ (field[o] = "set" => ~Reachable(o))
    BY DEF Cleanup, IInv, ArmedInv, KeptInv
  <2>2. Inside(o) = {}
    BY <2>1, InsideIsOpen
  <2>3. Exists(o) /\ ~Exists(o)'
    BY <2>1 DEF Cleanup, Freed, Exists, IInv, TypeOK
  <2>4. QED
    BY <1>1, <1>2, <2>2, <2>3, Frees
<1>3. CASE x # o
  <2>1. Exists(x)' = Exists(x)
    BY <1>3 DEF Cleanup, Exists, IInv, TypeOK
  <2>2. QED
    BY <1>1, <2>1, Stays
<1>4. QED
  BY <1>2, <1>3

(* The steps that touch no handle and no call.                             *)
LEMMA OtherHandle ==
  ASSUME IInv, NEW x \in Objects,
         \/ \E d \in DBs : Open(d)
         \/ \E o \in Objects : Drop(o) \/ Collect(o)
         \/ \E r \in Results : Release(r)
  PROVE  HandleStep(x)
<1>1. CASE \E d \in DBs : Open(d)
  <2>1. PICK d \in DBs : lib[d] = "none" /\ Own(d, NoConn, "armed")
                         /\ UNCHANGED <<op, on>>
    BY <1>1 DEF Open, Register
  <2>2. d \in Objects /\ d \notin OnConn
    BY KindsAssumption DEF Objects
  <2>3. Exists(x)' = Exists(x)
    BY <2>1, <2>2 DEF Own, Exists, IInv, TypeOK
  <2>4. \A u \in Goroutines :
          op[u] \in {"execute", "export"} => conn[on[u]] # d
    BY <2>2, CallKinds, KindsAssumption DEF IInv, CallInv, TypeOK, OnConn
  <2>5. Inside(x)' = Inside(x)
    BY <2>1, <2>2, <2>4 DEF Own, Inside, IInv, TypeOK
  <2>6. QED
    BY <2>3, <2>5, Stays
<1>2. CASE \E o \in Objects : Drop(o) \/ Collect(o)
  BY <1>2, Stays DEF Drop, Collect, Exists, Inside
<1>3. CASE \E r \in Results : Release(r)
  <2>1. PICK r \in Results : Release(r)
    BY <1>3
  <2>2. Exists(x)' = Exists(x)
    BY <2>1 DEF Release, Exists, IInv, TypeOK
  <2>3. Inside(x)' = Inside(x)
    BY <2>1 DEF Release, Inside
  <2>4. QED
    BY <2>2, <2>3, Stays
<1>4. QED
  BY <1>1, <1>2, <1>3

LEMMA HandlesNext ==
  IInv /\ [Next]_vars => [\A o \in Objects : HandleStep(o)]_vars
<1>1. SUFFICES ASSUME IInv, Next, NEW x \in Objects PROVE HandleStep(x)
  OBVIOUS
<1>2. QED
  BY <1>1, MakeHandle, MakeUnnamedHandle, ReturnHandle, ExportHandle,
     CallHandle, CloseHandle, CleanupHandle, OtherHandle DEF Next

(* Every handle is freed once, with nobody inside, and entered by nobody   *)
(* after that, whoever frees it.                                           *)
THEOREM LifecycleImplementsHandles == Spec => ImplementsHandles
BY HandlesInit, HandlesNext, Invariance, PTL
   DEF Spec, ImplementsHandles, HandleStep
=============================================================================

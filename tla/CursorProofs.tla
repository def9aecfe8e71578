---------------------------- MODULE CursorProofs ----------------------------
(***************************************************************************)
(* Proofs about the cursor of rows.go and Collect, for a result of any     *)
(* size with any number of faulty cells: the types, what a program that    *)
(* looks at Err alone may trust, and what Collect answers.                 *)
(***************************************************************************)
EXTENDS Cursor, TLAPS, WellFoundedInduction

(* A set of natural numbers that is not empty has a least element.         *)
LEMMA MinNat ==
  ASSUME NEW S, S \subseteq Nat, S # {}
  PROVE  Min(S) \in S /\ \A y \in S : Min(S) <= y
<1>1. PICK x \in S : \A y \in S : ~ (<<y, x>> \in OpToRel(<, Nat))
  BY NatLessThanWellFounded, WFMin
<1>2. \A y \in S : x <= y
  <2>1. ASSUME NEW y \in S, y < x
        PROVE  FALSE
    <3>1. <<y, x>> \in Nat \X Nat
      OBVIOUS
    <3>2. <<y, x>> \in OpToRel(<, Nat)
      BY <2>1, <3>1 DEF OpToRel
    <3>3. QED
      BY <1>1, <3>2
  <2>2. QED
    BY <2>1
<1>3. QED
  BY <1>2, Zenon DEF Min

(* A cell is read, or there is a failure to note.                          *)
LEMMA ScanAnswers ==
  ASSUME NEW r, NEW c
  PROVE  /\ CellOf(r, c) \in Failures \cup {"ok"}
         /\ ScanOf(r, c) \in Failures \cup {"ok"}
BY DEF CellOf, ScanOf, Failures

(* A scan of some columns answers ok exactly when none of them stops it.   *)
LEMMA StopOrOk ==
  ASSUME NEW r, NEW cs, cs \subseteq Nat
  PROVE  /\ Stop(r, cs) \in Nat
         /\ ScanAll(r, cs) \in Failures \cup {"ok"}
         /\ ScanAll(r, cs) = "ok" <=> Stop(r, cs) = Width
         /\ Stop(r, cs) = Width => \A c \in cs : c < Width => ScanOf(r, c) = "ok"
<1> DEFINE bad == {c \in cs : ScanOf(r, c) # "ok"}
<1>1. bad \cup {Width} \subseteq Nat /\ bad \cup {Width} # {}
  BY WidthAssumption
<1>2. Min(bad \cup {Width}) \in bad \cup {Width}
      /\ \A y \in bad \cup {Width} : Min(bad \cup {Width}) <= y
  BY <1>1, MinNat
<1>3. Stop(r, cs) = Min(bad \cup {Width})
  BY DEF Stop
<1>4. Stop(r, cs) \in bad \cup {Width} /\ \A y \in bad \cup {Width} : Stop(r, cs) <= y
  BY <1>2, <1>3
<1>5. Stop(r, cs) # Width => ScanOf(r, Stop(r, cs)) # "ok"
  BY <1>4
<1>6. ScanAll(r, cs) \in Failures \cup {"ok"} /\ (ScanAll(r, cs) = "ok" <=> Stop(r, cs) = Width)
  BY <1>5, ScanAnswers DEF ScanAll
<1>7. ASSUME Stop(r, cs) = Width, NEW c \in cs, c < Width
      PROVE  ScanOf(r, c) = "ok"
  <2>1. c \notin bad
    BY <1>1, <1>4, <1>7, WidthAssumption
  <2>2. QED
    BY <2>1
<1>8. QED
  BY <1>1, <1>4, <1>6, <1>7

(* The cursor stays between the row before the first and the end, and a    *)
(* row it is on is one the statement answered.                             *)
LEMMA MovedType ==
  ASSUME TypeOK
  PROVE  /\ Moved \in -1 .. n
         /\ HasRow(Moved) => Moved \in AllRows
         /\ Moved = n \/ Moved = i + 1
BY TotalAssumption DEF TypeOK, Moved, HasRow, AllRows

(* The first failure is kept, and none is lost.                            *)
LEMMA NoteKeeps ==
  ASSUME TypeOK, NEW a \in Failures \cup {"ok"}, Note(a)
  PROVE  /\ err' \in Failures \cup {"none"}
         /\ err' = "none" => err = "none" /\ a = "ok"
BY DEF Note, TypeOK, Failures

LEMMA InitTypeOK == Init => TypeOK
<1> SUFFICES ASSUME Init PROVE TypeOK
  OBVIOUS
<1>1. /\ cell \in [AllRows \X Columns -> {"fits", "unfit", "broken"}]
      /\ h = "open" /\ n = Total /\ i = -1 /\ err = "none"
      /\ dest = [c \in Columns |-> NoRow] /\ last = [row |-> -1, dests |-> 0]
      /\ loop = NoLoop /\ out = <<>> /\ panicked = FALSE
  BY DEF Init
<1>2. n \in 0 .. Total /\ i \in -1 .. n
  BY <1>1, TotalAssumption
<1>3. last \in [row : AnyRow, dests : 0 .. (Width + 1)]
  BY <1>1, TotalAssumption, WidthAssumption DEF AnyRow
<1>4. loop \in [kind : {"none", "all", "iter", "collect"},
                claims : SUBSET Columns, from : AnyRow]
  BY <1>1, TotalAssumption DEF NoLoop, AnyRow
<1>5. dest \in [Columns -> Content] /\ out \in Seq([Columns -> Content])
  BY <1>1 DEF Content
<1>6. QED
  BY <1>1, <1>2, <1>3, <1>4, <1>5 DEF TypeOK

LEMMA YieldedType ==
  ASSUME TypeOK, NEW r \in AllRows
  PROVE  Yielded(r) \in [Columns -> Content]
BY DEF TypeOK, Yielded, Content

(* A destination is written with a row that is there.                      *)
LEMMA ScanKeepsTypeOK ==
  ASSUME TypeOK, NEW r \in AnyRow, NEW k \in 0 .. (Width + 1), Scan(r, k)
  PROVE  TypeOK'
<1> DEFINE cs == 0 .. (k - 1)
           a == IF CanScan(r, k) THEN ScanAll(r, cs) ELSE "misuse"
<1>1. a \in Failures \cup {"ok"}
  BY StopOrOk, WidthAssumption DEF Failures
<1>2. Note(a)
  BY DEF Scan
<1>3. err' \in Failures \cup {"none"}
  BY <1>1, <1>2, NoteKeeps
<1>4. CanScan(r, k) => r \in Content
  BY TotalAssumption DEF CanScan, HasRow, TypeOK, Content, AllRows, AnyRow
<1>5. dest' \in [Columns -> Content]
  BY <1>4 DEF Scan, TypeOK
<1>6. QED
  BY <1>3, <1>5 DEF Scan, TypeOK, loopVars, AnyRow

LEMMA TurnKeepsTypeOK == ASSUME TypeOK, Turn PROVE TypeOK'
<1>1. i' = Moved /\ i' \in -1 .. n
  BY MovedType DEF Turn
<1>2. UNCHANGED <<cell, h, n, readVars, panicked>>
  BY DEF Turn
<1>3. h = "exported" => i' = 0
  BY <1>1 DEF TypeOK, Moved
<1>4. loop' = NoLoop \/ loop' = loop
  BY DEF Turn, Leave
<1>5. loop' \in [kind : {"none", "all", "iter", "collect"},
                claims : SUBSET Columns, from : AnyRow]
  BY <1>4, TotalAssumption DEF TypeOK, NoLoop, AnyRow
<1>6. ScanAll(Moved, loop.claims) \in Failures \cup {"ok"}
  BY StopOrOk, WidthAssumption DEF TypeOK, Columns
<1>7. err' \in Failures \cup {"none"}
  BY <1>6, NoteKeeps DEF Turn, TypeOK
<1>8. out' \in Seq([Columns -> Content])
  <2>1. CASE out' = <<>>
    BY <2>1
  <2>2. CASE HasRow(Moved) /\ out' = Append(out, Yielded(Moved))
    BY <2>2, MovedType, YieldedType DEF TypeOK
  <2>3. CASE out' = out
    BY <2>3 DEF TypeOK
  <2>4. QED
    BY <2>1, <2>2, <2>3 DEF Turn, Leave
<1>9. QED
  BY <1>1, <1>2, <1>3, <1>5, <1>7, <1>8 DEF TypeOK, readVars

LEMMA NextTypeOK == ASSUME TypeOK, [Next]_vars PROVE TypeOK'
<1>1. CASE NextRow
  BY <1>1, MovedType DEF NextRow, TypeOK, Moved, readVars, loopVars
<1>2. ASSUME NEW r \in AnyRow, NEW k \in 0 .. (Width + 1), Scan(r, k)
      PROVE  TypeOK'
  BY <1>2, ScanKeepsTypeOK
<1>3. ASSUME NEW r \in AnyRow, NEW c \in AnyColumn, Read(r, c)
      PROVE  TypeOK'
  <2>1. err' \in Failures \cup {"none"}
    BY <1>3, NoteKeeps, ScanAnswers DEF Read
  <2>2. QED
    BY <1>3, <2>1 DEF Read, TypeOK, readVars, loopVars
<1>4. CASE DriverNext
  <2>1. err' \in Failures \cup {"none"}
    BY <1>4, NoteKeeps, ScanAnswers DEF DriverNext, TypeOK
  <2>2. i' = Moved /\ UNCHANGED <<cell, h, n, readVars, loopVars, panicked>>
    BY <1>4 DEF DriverNext
  <2>3. QED
    BY <2>1, <2>2, MovedType DEF TypeOK, Moved, readVars, loopVars
<1>5. CASE Close
  BY <1>5 DEF Close, TypeOK, readVars, loopVars
<1>6. CASE Export
  BY <1>6, TotalAssumption DEF Export, TypeOK, readVars, loopVars
<1>7. CASE StartAll
  BY <1>7, TotalAssumption DEF StartAll, NoLoop, AnyRow, TypeOK, readVars
<1>8. ASSUME NEW claims \in SUBSET Columns, StartIter(claims) \/ StartCollect(claims)
      PROVE  TypeOK'
  <2>1. CASE StartIter(claims)
    <3>1. loop' = [kind |-> "iter", claims |-> claims, from |-> -1]
      BY <2>1 DEF StartIter, NoLoop
    <3>2. loop' \in [kind : {"none", "all", "iter", "collect"},
                     claims : SUBSET Columns, from : AnyRow]
      BY <3>1, TotalAssumption DEF AnyRow
    <3>3. QED
      BY <2>1, <3>2 DEF StartIter, TypeOK, readVars
  <2>2. CASE StartCollect(claims)
    BY <1>8, <2>2, TotalAssumption DEF StartCollect, AnyRow, TypeOK, readVars
  <2>3. QED
    BY <1>8, <2>1, <2>2
<1>9. CASE Turn
  BY <1>9, TurnKeepsTypeOK
<1>10. CASE Break
  BY <1>10, TotalAssumption DEF Break, Leave, NoLoop, AnyRow, TypeOK, readVars
<1>11. CASE UNCHANGED vars
  BY <1>11 DEF vars, TypeOK, readVars, loopVars
<1>12. QED
  BY <1>1, <1>2, <1>3, <1>4, <1>5, <1>6, <1>7, <1>8, <1>9, <1>10, <1>11 DEF Next

(* The types of Cursor; and the rows given away have no row to be on.      *)
THEOREM TypeCorrect == Spec => []TypeOK
<1>1. Init => TypeOK
  BY InitTypeOK
<1>2. TypeOK /\ [Next]_vars => TypeOK'
  BY NextTypeOK
<1>3. QED
  BY <1>1, <1>2, PTL DEF Spec

----------------------------------------------------------------------------
(* Err as the backstop of a loop that checks nothing.                      *)

LEMMA ScanKeepsNoTornRow ==
  ASSUME TypeOK, NEW r \in AnyRow, NEW k \in 0 .. (Width + 1), Scan(r, k)
  PROVE  NoTornRow'
<1> DEFINE cs == 0 .. (k - 1)
           a == IF CanScan(r, k) THEN ScanAll(r, cs) ELSE "misuse"
<1>1. a \in Failures \cup {"ok"}
  BY StopOrOk, WidthAssumption DEF Failures
<1>2. Note(a)
  BY DEF Scan
<1>3. ASSUME err' = "none", NEW c \in Columns, c < k
      PROVE  dest'[c] = r
  <2>1. a = "ok"
    BY <1>1, <1>2, <1>3, NoteKeeps
  <2>2. CanScan(r, k) /\ ScanAll(r, cs) = "ok"
    BY <2>1
  <2>3. cs \subseteq Nat
    BY WidthAssumption
  <2>4. Stop(r, cs) = Width
    BY <2>2, <2>3, StopOrOk
  <2>5. c \in cs /\ c < Stop(r, cs)
    BY <1>3, <2>4, WidthAssumption DEF Columns
  <2>6. dest' = [d \in Columns |-> IF CanScan(r, k) /\ d \in cs /\ d < Stop(r, cs)
                                   THEN r ELSE dest[d]]
    BY DEF Scan
  <2>7. QED
    BY <1>3, <2>2, <2>5, <2>6
<1>4. last' = [row |-> r, dests |-> k]
  BY DEF Scan
<1>5. QED
  BY <1>3, <1>4 DEF NoTornRow

(* Nothing but a Scan writes a destination, and no failure is forgotten.   *)
LEMMA OthersKeepNoTornRow ==
  ASSUME NoTornRow, UNCHANGED readVars, err' = "none" => err = "none"
  PROVE  NoTornRow'
BY DEF NoTornRow, readVars

LEMMA NextNoTornRow == ASSUME TypeOK, NoTornRow, [Next]_vars PROVE NoTornRow'
<1>1. ASSUME NEW r \in AnyRow, NEW k \in 0 .. (Width + 1), Scan(r, k)
      PROVE  NoTornRow'
  BY <1>1, ScanKeepsNoTornRow
<1>2. ASSUME NEW r \in AnyRow, NEW c \in AnyColumn, Read(r, c)
      PROVE  NoTornRow'
  BY <1>2, NoteKeeps, ScanAnswers, OthersKeepNoTornRow DEF Read
<1>3. CASE DriverNext
  <2>1. err' = "none" => err = "none"
    BY <1>3, NoteKeeps, ScanAnswers DEF DriverNext
  <2>2. QED
    BY <1>3, <2>1, OthersKeepNoTornRow DEF DriverNext
<1>4. CASE Turn
  <2>1. ScanAll(Moved, loop.claims) \in Failures \cup {"ok"}
    BY StopOrOk, WidthAssumption DEF TypeOK, Columns
  <2>2. err' = "none" => err = "none"
    BY <1>4, <2>1, NoteKeeps DEF Turn
  <2>3. QED
    BY <1>4, <2>2, OthersKeepNoTornRow DEF Turn
<1>5. CASE \/ NextRow \/ Close \/ Export \/ StartAll \/ Break
           \/ \E claims \in SUBSET Columns : StartIter(claims) \/ StartCollect(claims)
           \/ UNCHANGED vars
  BY <1>5, OthersKeepNoTornRow DEF NextRow, Close, Export, StartAll, Break,
     StartIter, StartCollect, vars
<1>6. QED
  BY <1>1, <1>2, <1>3, <1>4, <1>5 DEF Next

(* Err nil is enough to trust the destinations of the last Scan            *)
(* (rows.go:131), whatever the size of the result.                         *)
THEOREM ErrIsABackstop == Spec => []NoTornRow
<1>1. Init => NoTornRow
  BY WidthAssumption DEF Init, NoTornRow, Columns
<1>2. TypeOK /\ NoTornRow /\ [Next]_vars => NoTornRow'
  BY NextNoTornRow
<1>3. QED
  BY <1>1, <1>2, TypeCorrect, PTL DEF Spec

----------------------------------------------------------------------------
(* What Collect answers.                                                   *)

(* While it runs it has the rows from where it started to where it is.     *)
CollectInv ==
  /\ loop.kind # "collect" => out = <<>>
  /\ loop.kind = "collect" =>
       /\ n = Total /\ i < n /\ loop.from <= i
       /\ out = [k \in 1 .. (i - loop.from) |-> Yielded(loop.from + k)]

LEMMA StartKeepsCollectInv ==
  ASSUME TypeOK, CollectInv, NEW claims, StartCollect(claims)
  PROVE  CollectInv'
<1>1. CASE loop' = loop
  <2>1. UNCHANGED <<out, i, n, loop>>
    BY <1>1 DEF StartCollect
  <2>2. QED
    BY <2>1 DEF StartCollect, CollectInv, Yielded
<1>2. CASE loop' # loop
  <2>1. /\ loop' = [kind |-> "collect", claims |-> claims, from |-> i]
        /\ ~(n - i - 1 < 0) /\ UNCHANGED <<h, n, i, out>> /\ loop.kind = "none"
    BY <1>2 DEF StartCollect
  <2>2. n \in 0 .. Total /\ i \in -1 .. n /\ i < n
    BY <2>1, TotalAssumption DEF TypeOK
  <2>3. n = Total
    BY <2>2 DEF TypeOK
  <2>4. out' = <<>>
    BY <2>1 DEF CollectInv
  <2>5. 1 .. (i' - loop'.from) = {}
    BY <2>1, <2>2, TotalAssumption
  <2>6. [k \in 1 .. (i' - loop'.from) |-> Yielded(loop.from + k)'] = <<>>
    BY <2>5
  <2>7. QED
    BY <2>1, <2>2, <2>3, <2>4, <2>6, <2>5 DEF CollectInv
<1>3. QED
  BY <1>1, <1>2

LEMMA TurnKeepsCollectInv ==
  ASSUME TypeOK, CollectInv, Turn
  PROVE  CollectInv'
<1>1. CASE Leave
  BY <1>1 DEF Leave, NoLoop, CollectInv
<1>2. CASE loop' = loop /\ loop.kind # "collect" /\ out' = out
  BY <1>2 DEF CollectInv
<1>3. CASE /\ loop' = loop /\ loop.kind = "collect" /\ HasRow(Moved)
           /\ out' = Append(out, Yielded(Moved))
  <2>1. n = Total /\ n' = n /\ i < n /\ i \in Int /\ n \in Int
    BY <1>3, TotalAssumption DEF Turn, CollectInv, TypeOK
  <2>2. Moved = i + 1 /\ i' = i + 1 /\ i' < n
    BY <1>3, <2>1 DEF Turn, Moved, HasRow
  <2>3. loop.from \in Int /\ loop.from <= i
    BY <1>3, TotalAssumption DEF TypeOK, AnyRow, CollectInv
  <2>4. PICK m \in Nat : m = i - loop.from
    BY <2>1, <2>3
  <2>5. out = [k \in 1 .. m |-> Yielded(loop.from + k)]
    BY <1>3, <2>4 DEF CollectInv
  <2>6. i + 1 = loop.from + (m + 1)
    BY <2>1, <2>3, <2>4
  <2>7. out' = Append(out, Yielded(loop.from + (m + 1)))
    BY <1>3, <2>2, <2>6
  <2>8. out' = [k \in 1 .. (m + 1) |-> Yielded(loop.from + k)]
    <3>1. out \in Seq([Columns -> Content]) /\ Len(out) = m
      BY <2>4, <2>5 DEF TypeOK
    <3>2. out' = [k \in 1 .. (m + 1) |-> IF k <= m THEN out[k] ELSE Yielded(loop.from + (m + 1))]
      BY <2>4, <2>7, <3>1
    <3>3. \A k \in 1 .. (m + 1) : (IF k <= m THEN out[k] ELSE Yielded(loop.from + (m + 1)))
                                       = Yielded(loop.from + k)
      <4>1. ASSUME NEW k \in 1 .. (m + 1), k <= m
            PROVE  out[k] = Yielded(loop.from + k)
        BY <2>4, <2>5, <4>1
      <4>2. ASSUME NEW k \in 1 .. (m + 1), ~(k <= m)
            PROVE  k = m + 1
        BY <2>4, <4>2
      <4>3. QED
        BY <4>1, <4>2
    <3>4. QED
      BY <3>2, <3>3
  <2>9. i' - loop'.from = m + 1 /\ loop'.from <= i'
    BY <1>3, <2>1, <2>2, <2>3, <2>4
  <2>10. \A r : Yielded(r)' = Yielded(r)
    BY <1>3 DEF Yielded
  <2>11. QED
    BY <1>3, <2>1, <2>2, <2>8, <2>9, <2>10 DEF CollectInv, Yielded
<1>4. QED
  BY <1>1, <1>2, <1>3 DEF Turn, CollectInv

LEMMA NextCollectInv == ASSUME TypeOK, CollectInv, [Next]_vars PROVE CollectInv'
<1>1. CASE Turn
  BY <1>1, TurnKeepsCollectInv
<1>2. ASSUME NEW claims \in SUBSET Columns, StartIter(claims) \/ StartCollect(claims)
      PROVE  CollectInv'
  <2>1. CASE StartIter(claims)
    <3>1. loop' = [kind |-> "iter", claims |-> claims, from |-> -1]
      BY <2>1 DEF StartIter, NoLoop
    <3>2. QED
      BY <2>1, <3>1 DEF StartIter, CollectInv
  <2>2. QED
    BY <1>2, <2>1, StartKeepsCollectInv
<1>3. CASE Break \/ StartAll
  <2>1. loop'.kind # "collect" /\ out' = <<>>
    BY <1>3 DEF Break, StartAll, Leave, NoLoop, CollectInv
  <2>2. QED
    BY <2>1 DEF CollectInv
<1>4. CASE \/ NextRow \/ DriverNext \/ Close \/ Export
           \/ \E r \in AnyRow, k \in 0 .. (Width + 1) : Scan(r, k)
           \/ \E r \in AnyRow, c \in AnyColumn : Read(r, c)
  <2>1. Free /\ UNCHANGED loopVars
    BY <1>4 DEF NextRow, DriverNext, Close, Export, Scan, Read
  <2>2. QED
    BY <2>1 DEF Free, loopVars, CollectInv
<1>5. CASE UNCHANGED vars
  BY <1>5 DEF vars, loopVars, CollectInv, Yielded
<1>6. QED
  BY <1>1, <1>2, <1>3, <1>4, <1>5 DEF Next

(* A Collect under way is ended by a Turn, and by one that found no row    *)
(* when there is none.                                                     *)
LEMMA EndOfCollect ==
  ASSUME TypeOK, CollectInv, [Next]_vars,
         loop.kind = "collect", loop'.kind = "none", ~HasRow(i')
  PROVE  out = [k \in 1 .. (Total - 1 - loop.from) |-> Yielded(loop.from + k)]
<1>1. Turn
  BY DEF Next, NextRow, Scan, Read, DriverNext, Close, Export, StartAll,
     StartIter, StartCollect, Break, Free, vars, loopVars
<1>2. i' = Moved
  BY <1>1 DEF Turn
<1>3. i = Total - 1
  BY <1>2, MovedType, TotalAssumption DEF CollectInv, TypeOK, HasRow, Moved
<1>4. QED
  BY <1>3 DEF CollectInv

(* Collect answers every row after the one the cursor was on, whole, in    *)
(* order and none twice, or a failure (collect.go:10-41).                  *)
THEOREM CollectIsComplete == Spec => CollectsTheRest
<1>1. Init => CollectInv
  BY DEF Init, CollectInv, NoLoop
<1>2. TypeOK /\ CollectInv /\ [Next]_vars => CollectInv'
  BY NextCollectInv
<1>3. TypeOK /\ CollectInv /\ [Next]_vars =>
        [loop.kind = "collect" /\ loop'.kind = "none" /\ ~HasRow(i')
           => out = [k \in 1 .. (Total - 1 - loop.from) |-> Yielded(loop.from + k)]]_vars
  BY EndOfCollect
<1>4. QED
  BY <1>1, <1>2, <1>3, TypeCorrect, PTL DEF Spec, CollectsTheRest
=============================================================================

------------------------------- MODULE Cursor -------------------------------
(***************************************************************************)
(* One zu.Rows as its caller reads it: the cursor of rows.go, the loops    *)
(* over it (Rows.All, Iter, Collect and the Next of the database/sql       *)
(* driver), the first failure it keeps for Err, Close, and the export that *)
(* takes the rows away.                                                    *)
(*                                                                         *)
(* A Rows belongs to one goroutine (rows.go:20-21), so calls are steps.    *)
(* What is interleaved is the caller: the body of a loop over All or Iter  *)
(* is the caller's code and may move, read, close or export the rows it    *)
(* loops over.  The cell of row r and column c is abstracted to <<r, c>>   *)
(* and to whether it can be read at all and fits its destination.          *)
(***************************************************************************)
EXTENDS Integers, Sequences, FiniteSets, FiniteSetsExt

CONSTANTS
  Total,  (* how many rows the statement answered                          *)
  Width,  (* how many columns                                              *)
  Faulty, (* how many cells may be faulty: a bound                         *)
  NoRow   (* the content of a destination never set                        *)

ASSUME TotalAssumption == Total \in Nat
ASSUME WidthAssumption == Width \in Nat
ASSUME FaultyAssumption == Faulty \in Nat
ASSUME NoRowAssumption == NoRow \notin Int

AllRows == 0 .. (Total - 1)
Columns == 0 .. (Width - 1)
(* The indexes a caller may ask for, one past either end included.         *)
AnyRow == -1 .. Total
AnyColumn == -1 .. Width

(* By status: what the client refuses, and what the engine does.           *)
Failures == {"misuse", "engine"}

VARIABLES
  cell,   (* per cell: "fits" its destination, is "unfit" for it, or is    *)
          (* one the engine will not read ("broken"); the statement's      *)
  h,      (* Rows.h: "open", and nil once "closed" or "exported"           *)
  n, i,   (* Rows.n and Rows.i                                             *)
  err,    (* Rows.err, "none" or the first failure noted                   *)
  dest,   (* the caller's destinations: the row each one holds             *)
  last,   (* the last Scan: its row, and how many destinations it had      *)
  loop,   (* the loop under way: its kind, the columns its type claims,    *)
          (* and for Collect where it started                              *)
  out,    (* what Collect has appended: rows, by the columns they fill     *)
  panicked

readVars == <<dest, last>>
loopVars == <<loop, out>>
vars == <<cell, h, n, i, err, readVars, loopVars, panicked>>

Content == AllRows \cup {NoRow}

TypeOK ==
  /\ cell \in [AllRows \X Columns -> {"fits", "unfit", "broken"}]
  /\ h \in {"open", "closed", "exported"}
  /\ n \in 0 .. Total /\ i \in -1 .. n
  /\ h = "exported" => n = 0 /\ i = 0
  /\ h # "exported" => n = Total
  /\ err \in Failures \cup {"none"}
  /\ dest \in [Columns -> Content]
  /\ last \in [row : AnyRow, dests : 0 .. (Width + 1)]
  /\ loop \in [kind : {"none", "all", "iter", "collect"},
               claims : SUBSET Columns, from : AnyRow]
  /\ out \in Seq([Columns -> Content])
  /\ panicked \in BOOLEAN

NoLoop == [kind |-> "none", claims |-> {}, from |-> -1]

(* newRows: before the first row.                                          *)
Init ==
  /\ cell \in [AllRows \X Columns -> {"fits", "unfit", "broken"}]
  /\ Cardinality({x \in AllRows \X Columns : cell[x] # "fits"}) <= Faulty
  /\ h = "open" /\ n = Total /\ i = -1 /\ err = "none"
  /\ dest = [c \in Columns |-> NoRow]
  /\ last = [row |-> -1, dests |-> 0]
  /\ loop = NoLoop /\ out = <<>>
  /\ panicked = FALSE

(* Collect runs none of the caller's code between its rows, and a panic    *)
(* ends the program.                                                       *)
Free == loop.kind # "collect" /\ ~panicked

(* Mutant of Note: only what the engine answered is kept.                  *)
NoteEngine(a) == err' = IF err = "none" /\ a = "engine" THEN a ELSE err

(* Rows.note: the first failure stays.                                     *)
Note(a) == err' = IF err = "none" /\ a \in Failures THEN a ELSE err

HasRow(r) == 0 <= r /\ r < n

(* Row.cell: the result, the column and the row, then the engine.          *)
CellOf(r, c) ==
  IF h # "open" \/ c \notin Columns \/ ~HasRow(r) THEN "misuse"
  ELSE IF cell[r, c] = "broken" THEN "engine" ELSE "ok"

(* Row.cell and the scan of what it found into a destination.              *)
ScanOf(r, c) ==
  IF CellOf(r, c) = "ok" /\ cell[r, c] = "unfit" THEN "misuse" ELSE CellOf(r, c)

(* The first of some columns that will not scan; Width when they all do.   *)
Stop(r, cs) == Min({c \in cs : ScanOf(r, c) # "ok"} \cup {Width})

ScanAll(r, cs) == IF Stop(r, cs) = Width THEN "ok" ELSE ScanOf(r, Stop(r, cs))

----------------------------------------------------------------------------
(* The cursor and the reads at a position.                                 *)

(* Mutant of Moved: the cursor of a closed result stays where it was, on a *)
(* row Next says is there.                                                 *)
MovedIfOpen == IF i >= n \/ h = "closed" THEN i ELSE i + 1

(* Where Next leaves the cursor.  It looks at the count alone: it answers  *)
(* true for the rows of a result that was closed.                          *)
Moved == IF i >= n THEN i ELSE i + 1

NextRow ==
  /\ Free
  /\ i' = Moved
  /\ UNCHANGED <<cell, h, n, err, readVars, loopVars, panicked>>

(* Row.Scan into k destinations: a row has to be there, there may be no    *)
(* more destinations than columns, and the first cell that fails ends it.  *)
CanScan(r, k) == HasRow(r) /\ k <= Width

(* Row.Scan, by RowAt or at the cursor.  The destinations before the cell  *)
(* that failed have been written.                                          *)
Scan(r, k) ==
  LET cs == 0 .. (k - 1) IN
  /\ Free
  /\ dest' = [c \in Columns |-> IF CanScan(r, k) /\ c \in cs /\ c < Stop(r, cs)
                               THEN r ELSE dest[c]]
  /\ last' = [row |-> r, dests |-> k]
  /\ Note(IF CanScan(r, k) THEN ScanAll(r, cs) ELSE "misuse")
  /\ UNCHANGED <<cell, h, n, i, loopVars, panicked>>

(* Row.Value, Row.Values and Row.Type, and the column types of the driver, *)
(* which look at the first row: one cell read at a position, and noted.    *)
Read(r, c) ==
  /\ Free
  /\ Note(CellOf(r, c))
  /\ UNCHANGED <<cell, h, n, i, readVars, loopVars, panicked>>

(* rows.Next of the driver: one step of the cursor and the cells of the    *)
(* row as values, up to the first that cannot be read.                     *)
DriverNext ==
  LET failing == {c \in Columns : CellOf(Moved, c) # "ok"} IN
  /\ Free
  /\ i' = Moved
  /\ IF HasRow(Moved) /\ failing # {}
     THEN Note(CellOf(Moved, Min(failing))) ELSE UNCHANGED err
  /\ UNCHANGED <<cell, h, n, readVars, loopVars, panicked>>

----------------------------------------------------------------------------
(* The end of the rows: freed, or given away.                              *)

Close ==
  /\ Free
  /\ h' = IF h = "open" THEN "closed" ELSE h
  /\ UNCHANGED <<cell, n, i, err, readVars, loopVars, panicked>>

(* ArrowStream once the engine has been asked: whatever it answered, it    *)
(* took the result.  A nil stream, a negative batch and rows that are gone *)
(* are refused before, and change nothing.                                 *)
Export ==
  /\ Free /\ h = "open"
  /\ h' = "exported" /\ n' = 0 /\ i' = 0
  /\ UNCHANGED <<cell, err, readVars, loopVars, panicked>>

----------------------------------------------------------------------------
(* The loops.                                                              *)

(* range rows.All(): no plan, nothing read.                                *)
StartAll ==
  /\ Free /\ loop.kind = "none"
  /\ loop' = [NoLoop EXCEPT !.kind = "all"]
  /\ UNCHANGED <<cell, h, n, i, err, readVars, out, panicked>>

(* A type none of whose fields is a column has no plan (planFor), and the  *)
(* loop over it answers that and reads nothing.                            *)
StartIter(claims) ==
  /\ Free /\ loop.kind = "none" /\ claims # {}
  /\ loop' = [NoLoop EXCEPT !.kind = "iter", !.claims = claims]
  /\ UNCHANGED <<cell, h, n, i, err, readVars, out, panicked>>

(* Collect: the same loop, into a slice whose capacity is the rows left.   *)
(* That is -1 once the cursor has run off the end, and make panics.        *)
StartCollect(claims) ==
  /\ Free /\ loop.kind = "none"
  /\ panicked' = (n - i - 1 < 0)
  /\ loop' = IF n - i - 1 < 0 \/ claims = {} THEN loop
             ELSE [kind |-> "collect", claims |-> claims, from |-> i]
  /\ UNCHANGED <<cell, h, n, i, err, readVars, out>>

(* The row as Iter yields it: zeroed, then every claimed column filled.    *)
Yielded(r) == [c \in Columns |-> IF c \in loop.claims THEN r ELSE NoRow]

(* The loop is over and Collect has given its slice to the caller.         *)
Leave == loop' = NoLoop /\ out' = <<>>

(* Mutant of Turn: a row that will not scan is noted and left out, and the *)
(* loop goes on to the next.                                               *)
TurnSkips ==
  LET a == ScanAll(Moved, loop.claims) IN
  /\ loop.kind # "none"
  /\ i' = Moved
  /\ IF ~HasRow(Moved) THEN Leave /\ UNCHANGED err
     ELSE /\ Note(a)
          /\ out' = IF loop.kind = "collect" /\ a = "ok"
                    THEN Append(out, Yielded(Moved)) ELSE out
          /\ UNCHANGED loop
  /\ UNCHANGED <<cell, h, n, readVars, panicked>>

(* One turn of a loop: the cursor moves, Iter and Collect read the row it  *)
(* moved to, and the first row that will not scan is the last.             *)
Turn ==
  LET a == ScanAll(Moved, loop.claims) IN
  /\ loop.kind # "none"
  /\ i' = Moved
  /\ IF ~HasRow(Moved) THEN Leave /\ UNCHANGED err
     ELSE /\ Note(a)
          /\ IF a # "ok" THEN Leave
             ELSE /\ out' = IF loop.kind = "collect"
                            THEN Append(out, Yielded(Moved)) ELSE out
                  /\ UNCHANGED loop
  /\ UNCHANGED <<cell, h, n, readVars, panicked>>

(* The body of a loop over All or Iter breaks out of it.                   *)
Break ==
  /\ loop.kind \in {"all", "iter"}
  /\ Leave
  /\ UNCHANGED <<cell, h, n, i, err, readVars, panicked>>

Next ==
  \/ NextRow
  \/ \E r \in AnyRow, k \in 0 .. (Width + 1) : Scan(r, k)
  \/ \E r \in AnyRow, c \in AnyColumn : Read(r, c)
  \/ DriverNext
  \/ Close
  \/ Export
  \/ StartAll
  \/ \E claims \in SUBSET Columns : StartIter(claims) \/ StartCollect(claims)
  \/ Turn
  \/ Break

Spec == Init /\ [][Next]_vars

(* The body of a loop is finite code, so the loop takes its turns.         *)
FairSpec == Spec /\ WF_vars(Turn)

----------------------------------------------------------------------------
(* What is checked.                                                        *)

(* A program that never looked at the error of a Scan and finds Err nil    *)
(* has destinations that all hold the row of its last Scan: rows.go:131    *)
(* calls Err the backstop of the loop that did not check, and a Scan that  *)
(* fails halfway has overwritten the destinations before the failure.      *)
NoTornRow ==
  err = "none" => \A c \in Columns : c < last.dests => dest[c] = last.row

(* A Collect that reaches the end without a failure answers every row      *)
(* after the one the cursor was on, whole, in order and none twice,        *)
(* whatever was read, closed or broken out of before (collect.go:10-41).   *)
CollectsTheRest ==
  [][loop.kind = "collect" /\ loop'.kind = "none" /\ ~HasRow(i')
       => out = [k \in 1 .. (Total - 1 - loop.from) |-> Yielded(loop.from + k)]]_vars

(* Every loop over the rows comes to its end, also when its body moves,    *)
(* closes or exports the rows it loops over (rows.go:86-92, 133-141).      *)
IterationEnds == loop.kind # "none" ~> loop.kind = "none"

(* Collect answers the rows or a failure, as its results say               *)
(* (collect.go:32): a Collect on rows already read to their end panics.    *)
CollectAnswers == ~panicked
=============================================================================

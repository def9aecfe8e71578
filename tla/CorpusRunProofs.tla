--------------------------- MODULE CorpusRunProofs ---------------------------
(***************************************************************************)
(* Proofs about CorpusRun, for every list of cases, every set of codes and *)
(* however often the runner is killed.                                     *)
(***************************************************************************)
EXTENDS CorpusRun, TLAPS

----------------------------------------------------------------------------
(* The inductive invariant.                                                *)

Verdicts == {"Passed", "Failed", "Unsupported"}
Fresh == {"make", "load", "open", "connect"}       (* nothing was said yet   *)
Deciding == Fresh \union {"setup", "query", "rows", "export"}
Decided == {"close", "remove", "removeLog", "report"}

(* Main is a string already, which the provers would have to be told.      *)
Names == STRING \union {Main}
Connections == [name : Names, tx : (SUBSET Marks) \union {Outside}]

TypeOK ==
  /\ files \in [Paths -> Files]
  /\ at \in 1 .. Len(Cases) + 1
  /\ pc \in Deciding \union Decided \union {"over"}
  /\ pc = "over" <=> at = Len(Cases) + 1
  /\ step \in Nat
  /\ handles \subseteq {"loader", "db", "rows"}
  /\ open \in Seq(Connections)
  /\ verdict \in Verdicts \union {"none"}
  /\ report \in Seq(Verdicts) /\ Len(report) = at - 1
  /\ said \in Seq(Answers)
  /\ mine \subseteq Marks
  /\ kills \in 0 .. MaxKills
  /\ torn \subseteq Paths

(* What the runner holds at each place.                                    *)
HeldInv ==
  /\ pc = "load" => handles = {"loader"} /\ open = <<>>
  /\ pc = "open" => handles = {} /\ open = <<>>
  /\ pc = "connect" => handles = {"db"} /\ open = <<>>
  /\ pc \in {"setup", "query"} => handles = {"db"} /\ open # <<>>
  /\ pc \in {"rows", "export"} => handles = {"db", "rows"} /\ open # <<>>
  /\ pc = "close" => "loader" \notin handles

(* A path without a database has nothing, but for the log of one that is   *)
(* being removed, or whose removal stopped half way; the file of a case    *)
(* holds what the case put in it from before it is opened.                 *)
FilesInv ==
  /\ \A p \in Paths :
       ~files[p].made =>
         /\ files[p].rows = {}
         /\ files[p].log = {} \/ p \in torn \/ (pc = "removeLog" /\ p = path)
  /\ pc = "removeLog" => ~files[path].made \/ path \in torn
  /\ pc \in {"make", "load"} => mine = {}
  /\ pc \in {"load", "open"} /\ path \notin torn => Held(path) = mine

(* The answers of the case so far, and what is known of them.              *)
SaidInv ==
  /\ verdict = "none" <=> pc \notin Decided
  /\ pc \in Fresh => said = <<>> /\ step = 1
  /\ pc = "setup" => Len(said) = step - 1 /\ step \in 1 .. Len(case.setup) + 1
  /\ pc = "query" => Len(said) = Len(case.setup)
  /\ pc \in {"rows", "export"} =>
       Len(said) = Len(case.setup) + 1 /\ case.raises = NoCode
  /\ pc \in {"setup", "query", "rows", "export"} =>
       \A i \in 1 .. Len(said) : said[i].ok
  /\ pc = "export" => said[Len(case.setup) + 1].rows = case.wants

Blamed(p) ==
  \E j \in 1 .. at - 1 : casePath(Cases[j]) = p /\ report[j] = "Failed"

(* What is at the path of a case that is done has a failure to answer for  *)
(* it or could not be removed, unless the case being run has the same path. *)
LeftInv ==
  /\ \A k \in 1 .. at - 1 :
       LET p == casePath(Cases[k]) IN
         \/ files[p] = Empty
         \/ Blamed(p)
         \/ p \in torn
         \/ pc \notin {"make", "over"} /\ p = path
  /\ pc = "report" => verdict = "Failed" \/ files[path] = Empty \/ path \in torn

IInv ==
  /\ TypeOK /\ HeldInv /\ ClosedInOrder /\ FilesInv /\ OwnDatabase
  /\ SaidInv /\ VerdictIsEarned /\ LeftInv

----------------------------------------------------------------------------
(* Types.                                                                  *)

LEMMA CasesType ==
  /\ Cases \in Seq(CaseRecords) /\ Len(Cases) \in Nat \ {0}
  /\ DOMAIN Cases = 1 .. Len(Cases)
<1>1. Cases \in Seq(CaseRecords) /\ Cases # <<>>
  BY CasesAssumption
<1>2. QED
  BY <1>1

(* A runner that is not done is on a case, which has a path.               *)
LEMMA OnCase ==
  ASSUME TypeOK, pc # "over"
  PROVE  /\ at \in 1 .. Len(Cases) /\ at \in Marks /\ path \in Paths
         /\ Len(case.setup) \in Nat /\ case.on \in STRING
         /\ \A i \in 1 .. Len(case.setup) : case.setup[i].on \in STRING
<1>1. at \in 1 .. Len(Cases)
  BY CasesType DEF TypeOK
<1>2. case \in CaseRecords /\ at \in Marks /\ path \in Paths
  BY <1>1, CasesType DEF Paths, path, case, Marks
<1>3. case.setup \in Seq(Steps) /\ case.on \in STRING
  BY <1>2 DEF CaseRecords
<1>4. \A i \in 1 .. Len(case.setup) : case.setup[i].on \in STRING
  <2>1. \A i \in 1 .. Len(case.setup) : case.setup[i] \in Steps
    BY <1>3
  <2>2. QED
    BY <2>1 DEF Steps
<1>5. QED
  BY <1>1, <1>2, <1>3, <1>4

LEMMA SameCase == UNCHANGED at => path' = path /\ case' = case
BY DEF path, case

LEMMA FileType ==
  ASSUME TypeOK, NEW p \in Paths
  PROVE  /\ files[p].made \in BOOLEAN
         /\ files[p].rows \in SUBSET Marks /\ files[p].log \in SUBSET Marks
         /\ files[p] = File(files[p].made, files[p].rows, files[p].log)
BY DEF TypeOK, Files, File

----------------------------------------------------------------------------
(* What most steps leave alone.                                            *)

LEMMA LeftKept ==
  ASSUME IInv, UNCHANGED <<at, report>>, torn \subseteq torn',
         pc # "over", pc' \notin {"make", "over", "report"},
         \A p \in Paths \ {path} : files'[p] = files[p]
  PROVE  LeftInv'
<1>1. path \in Paths /\ path' = path
  BY OnCase, SameCase DEF IInv
<1>2. \A k \in 1 .. at - 1 : casePath(Cases[k]) \in Paths
  BY CasesType DEF IInv, TypeOK, Paths
<1>3. QED
  BY <1>1, <1>2 DEF IInv, LeftInv, Blamed

LEMMA FilesKept ==
  ASSUME IInv, UNCHANGED <<files, at, torn, mine>>,
         pc # "removeLog", pc' \notin {"make", "load", "open", "removeLog"}
  PROVE  FilesInv'
BY SameCase DEF IInv, FilesInv

LEMMA OwnKept ==
  ASSUME OwnDatabase, UNCHANGED <<files, at, torn, mine>>,
         "db" \in handles' => "db" \in handles
  PROVE  OwnDatabase'
BY SameCase DEF OwnDatabase, Held

(* A case that was refused before anything was said of it.                 *)
LEMMA FailsEarly ==
  ASSUME IInv, pc \in Deciding, ran("Failed"), UNCHANGED <<at, step>>
  PROVE  SaidInv' /\ VerdictIsEarned'
BY DEF ran, SaidInv, VerdictIsEarned, Fresh, Deciding, Decided

----------------------------------------------------------------------------
(* The steps of the runner.                                                *)

LEMMA MakeDBInv ==
  ASSUME IInv, MakeDB
  PROVE  IInv'
<1>1. /\ pc = "make" /\ path \in Paths /\ at \in 1 .. Len(Cases)
      /\ path' = path /\ case' = case
      /\ UNCHANGED <<at, step, open, report, said, mine, kills, torn>>
  BY OnCase, SameCase DEF MakeDB, IInv, endVars
<1>2. CASE /\ ~files[path].made
           /\ files' = [files EXCEPT ![path] = File(TRUE, {}, @.log)]
           /\ IF case.load
              THEN pc' = "load" /\ handles' = {"loader"}
              ELSE pc' = "open" /\ UNCHANGED handles
           /\ UNCHANGED verdict
  <2>1. /\ files' \in [Paths -> Files]
        /\ files'[path].made /\ files'[path].rows = {}
        /\ files'[path].log = files[path].log
        /\ \A p \in Paths \ {path} : files'[p] = files[p]
    BY <1>1, <1>2 DEF IInv, TypeOK, Files, File
  <2>2. TypeOK'
    BY <1>1, <1>2, <2>1, CasesType DEF IInv, TypeOK, Deciding, Fresh
  <2>3. HeldInv' /\ ClosedInOrder'
    BY <1>1, <1>2 DEF IInv, HeldInv, ClosedInOrder
  <2>4. FilesInv' /\ OwnDatabase'
    BY <1>1, <1>2, <2>1 DEF IInv, FilesInv, OwnDatabase, ClosedInOrder, Held
  <2>5. SaidInv' /\ VerdictIsEarned'
    BY <1>1, <1>2 DEF IInv, SaidInv, VerdictIsEarned, Fresh, Decided
  <2>6. LeftInv'
    BY <1>1, <1>2, <2>1, LeftKept
  <2>7. QED
    BY <2>2, <2>3, <2>4, <2>5, <2>6 DEF IInv
<1>3. CASE ran("Failed") /\ UNCHANGED <<files, handles>>
  <2>1. TypeOK'
    BY <1>1, <1>3 DEF ran, IInv, TypeOK, Verdicts, Decided
  <2>2. HeldInv' /\ ClosedInOrder'
    BY <1>1, <1>3 DEF ran, IInv, HeldInv, ClosedInOrder
  <2>3. FilesInv' /\ OwnDatabase' /\ LeftInv'
    BY <1>1, <1>3, FilesKept, OwnKept, LeftKept DEF ran, IInv
  <2>4. SaidInv' /\ VerdictIsEarned'
    BY <1>1, <1>3, FailsEarly DEF Deciding, Fresh
  <2>5. QED
    BY <2>1, <2>2, <2>3, <2>4 DEF IInv
<1>4. QED
  BY <1>2, <1>3 DEF MakeDB

LEMMA LoadInv ==
  ASSUME IInv, applyLoad
  PROVE  IInv'
<1>1. /\ pc = "load" /\ path \in Paths /\ at \in 1 .. Len(Cases)
      /\ path' = path /\ case' = case
      /\ handles' = {} /\ open = <<>>
      /\ UNCHANGED <<at, step, open, report, said, kills, torn>>
  BY OnCase, SameCase DEF applyLoad, IInv, HeldInv, endVars
<1>2. CASE /\ files' = [files EXCEPT ![path] = File(TRUE, {0}, @.log)]
           /\ mine' = {0}
           /\ pc' = "open" /\ UNCHANGED verdict
  <2>1. 0 \in Marks
    BY CasesType DEF Marks
  <2>2. /\ files' \in [Paths -> Files]
        /\ files'[path].made /\ files'[path].rows = {0}
        /\ files'[path].log = files[path].log
        /\ \A p \in Paths \ {path} : files'[p] = files[p]
    BY <1>1, <1>2, <2>1 DEF IInv, TypeOK, Files, File
  <2>3. TypeOK'
    BY <1>1, <1>2, <2>1, <2>2, CasesType DEF IInv, TypeOK, Deciding, Fresh
  <2>4. HeldInv' /\ ClosedInOrder'
    BY <1>1, <1>2 DEF HeldInv, ClosedInOrder
  <2>5. FilesInv' /\ OwnDatabase'
    BY <1>1, <1>2, <2>2, FileType DEF IInv, FilesInv, OwnDatabase, Held
  <2>6. SaidInv' /\ VerdictIsEarned'
    BY <1>1, <1>2 DEF IInv, SaidInv, VerdictIsEarned, Fresh, Decided
  <2>7. LeftInv'
    BY <1>1, <1>2, <2>2, LeftKept
  <2>8. QED
    BY <2>3, <2>4, <2>5, <2>6, <2>7 DEF IInv
<1>3. CASE ran("Failed") /\ UNCHANGED <<files, mine>>
  <2>1. TypeOK'
    BY <1>1, <1>3 DEF ran, IInv, TypeOK, Verdicts, Decided
  <2>2. HeldInv' /\ ClosedInOrder'
    BY <1>1, <1>3 DEF ran, HeldInv, ClosedInOrder
  <2>3. FilesInv' /\ OwnDatabase' /\ LeftInv'
    BY <1>1, <1>3, FilesKept, OwnKept, LeftKept DEF ran, IInv
  <2>4. SaidInv' /\ VerdictIsEarned'
    BY <1>1, <1>3, FailsEarly DEF Deciding, Fresh
  <2>5. QED
    BY <2>1, <2>2, <2>3, <2>4 DEF IInv
<1>4. QED
  BY <1>2, <1>3 DEF applyLoad

LEMMA OpenInv ==
  ASSUME IInv, Open
  PROVE  IInv'
<1>1. /\ pc = "open" /\ path \in Paths /\ at \in 1 .. Len(Cases)
      /\ path' = path /\ case' = case
      /\ handles = {} /\ open = <<>>
      /\ UNCHANGED <<files, at, step, open, report, said, mine, kills, torn>>
  BY OnCase, SameCase DEF Open, IInv, HeldInv, endVars
<1>2. \/ handles' = {"db"} /\ pc' = "connect" /\ UNCHANGED verdict
      \/ ran("Failed") /\ UNCHANGED handles
  BY <1>1 DEF Open
<1>3. TypeOK'
  BY <1>1, <1>2 DEF ran, IInv, TypeOK, Verdicts, Deciding, Fresh, Decided
<1>4. HeldInv' /\ ClosedInOrder'
  BY <1>1, <1>2 DEF ran, HeldInv, ClosedInOrder
<1>5. FilesInv' /\ LeftInv'
  BY <1>1, <1>2, FilesKept, LeftKept DEF ran
<1>6. OwnDatabase'
  BY <1>1 DEF IInv, FilesInv, OwnDatabase, Held
<1>7. SaidInv' /\ VerdictIsEarned'
  BY <1>1, <1>2 DEF ran, IInv, SaidInv, VerdictIsEarned, Fresh, Decided
<1>8. QED
  BY <1>3, <1>4, <1>5, <1>6, <1>7 DEF IInv

LEMMA ConnectInv ==
  ASSUME IInv, Connect
  PROVE  IInv'
<1>1. /\ pc = "connect" /\ path \in Paths /\ at \in 1 .. Len(Cases)
      /\ Len(case.setup) \in Nat
      /\ path' = path /\ case' = case
      /\ handles = {"db"} /\ open = <<>>
      /\ UNCHANGED <<files, at, step, handles, report, said, mine, kills, torn>>
  BY OnCase, SameCase DEF Connect, IInv, HeldInv, endVars
<1>2. \/ /\ open' = <<[name |-> Main, tx |-> Outside]>>
         /\ pc' = "setup" /\ UNCHANGED verdict
      \/ ran("Failed") /\ UNCHANGED open
  BY DEF Connect
<1>3. open' \in Seq(Connections)
  <2>1. [name |-> Main, tx |-> Outside] \in Connections
    BY DEF Connections, Names
  <2>2. <<[name |-> Main, tx |-> Outside]>> \in Seq(Connections)
    BY <2>1
  <2>3. QED
    BY <1>2, <2>2 DEF IInv, TypeOK
<1>4. TypeOK'
  BY <1>1, <1>2, <1>3 DEF ran, IInv, TypeOK, Verdicts, Deciding, Fresh, Decided
<1>5. open' # <<>> => open'[1].name = Main
  BY <1>1, <1>2
<1>6. HeldInv' /\ ClosedInOrder'
  <2>1. CASE open' = <<[name |-> Main, tx |-> Outside]>> /\ pc' = "setup"
    <3>1. open' # <<>>
      BY <2>1
    <3>2. QED
      BY <1>1, <1>5, <2>1, <3>1 DEF HeldInv, ClosedInOrder
  <2>2. CASE ran("Failed") /\ UNCHANGED open
    BY <1>1, <2>2 DEF ran, HeldInv, ClosedInOrder
  <2>3. QED
    BY <1>2, <2>1, <2>2
<1>7. FilesInv' /\ OwnDatabase' /\ LeftInv'
  BY <1>1, <1>2, FilesKept, OwnKept, LeftKept DEF ran, IInv
<1>8. SaidInv' /\ VerdictIsEarned'
  BY <1>1, <1>2 DEF ran, IInv, TypeOK, SaidInv, VerdictIsEarned, Fresh, Decided
<1>9. QED
  BY <1>4, <1>6, <1>7, <1>8 DEF IInv

LEMMA SetupDoneInv ==
  ASSUME IInv, SetupDone
  PROVE  IInv'
<1>1. /\ pc = "setup" /\ pc' = "query" /\ step > Len(case.setup)
      /\ path \in Paths /\ at \in 1 .. Len(Cases) /\ Len(case.setup) \in Nat
      /\ path' = path /\ case' = case
      /\ UNCHANGED <<files, handles, at, step, open, verdict, report, said,
                     mine, kills, torn>>
  BY OnCase, SameCase DEF SetupDone, IInv, caseVars, endVars
<1>2. TypeOK'
  BY <1>1 DEF IInv, TypeOK, Deciding
<1>3. HeldInv' /\ ClosedInOrder'
  BY <1>1 DEF IInv, HeldInv, ClosedInOrder
<1>4. FilesInv' /\ OwnDatabase' /\ LeftInv'
  BY <1>1, FilesKept, OwnKept, LeftKept DEF IInv
<1>5. SaidInv' /\ VerdictIsEarned'
  BY <1>1 DEF IInv, TypeOK, SaidInv, VerdictIsEarned, Fresh, Decided
<1>6. QED
  BY <1>2, <1>3, <1>4, <1>5 DEF IInv

LEMMA ReadRowsInv ==
  ASSUME IInv, ReadRows
  PROVE  IInv'
<1>1. /\ pc = "rows"
      /\ path \in Paths /\ at \in 1 .. Len(Cases) /\ Len(case.setup) \in Nat
      /\ path' = path /\ case' = case
      /\ UNCHANGED <<files, at, step, handles, open, report, said, mine, kills,
                     torn>>
  BY OnCase, SameCase DEF ReadRows, IInv, endVars
<1>2. \/ ran("Failed")
      \/ Last(said).rows = case.wants /\ pc' = "export" /\ UNCHANGED verdict
  BY DEF ReadRows
<1>3. TypeOK'
  BY <1>1, <1>2 DEF ran, IInv, TypeOK, Verdicts, Deciding, Decided
<1>4. HeldInv' /\ ClosedInOrder'
  BY <1>1, <1>2 DEF ran, IInv, HeldInv, ClosedInOrder
<1>5. FilesInv' /\ OwnDatabase' /\ LeftInv'
  BY <1>1, <1>2, FilesKept, OwnKept, LeftKept DEF ran, IInv
<1>6. SaidInv' /\ VerdictIsEarned'
  <2>1. CASE ran("Failed")
    BY <1>1, <2>1, FailsEarly DEF Deciding
  <2>2. CASE Last(said).rows = case.wants /\ pc' = "export" /\ UNCHANGED verdict
    <3>1. Len(said) = Len(case.setup) + 1
      BY <1>1 DEF IInv, SaidInv
    <3>2. said[Len(case.setup) + 1].rows = case.wants
      BY <2>2, <3>1 DEF Last
    <3>3. QED
      BY <1>1, <2>2, <3>2
         DEF IInv, SaidInv, VerdictIsEarned, Fresh, Decided
  <2>3. QED
    BY <1>2, <2>1, <2>2
<1>7. QED
  BY <1>3, <1>4, <1>5, <1>6 DEF IInv

(* A statement keeps main first among the connections, which stay what     *)
(* they are, and what it commits is in the case's file and in no other.    *)
LEMMA SaysKeeps ==
  ASSUME IInv, pc \in {"setup", "query"}, path \in Paths, at \in Marks,
         NEW name \in STRING, NEW verb, NEW answer, Says(name, verb, answer)
  PROVE  /\ open' \in Seq(Connections)
         /\ open' # <<>> /\ open'[1].name = Main
         /\ \/ UNCHANGED <<files, mine>>
            \/ \E written \in SUBSET Marks : Put(written)
<1> DEFINE conns == connection(name)
           conn == Where(conns, name)
<1>1. open \in Seq(Connections) /\ open # <<>> /\ open[1].name = Main
  BY DEF IInv, TypeOK, HeldInv, ClosedInOrder
<1>2. /\ conns \in Seq(Connections) /\ conns # <<>> /\ conns[1].name = Main
      /\ \E i \in DOMAIN conns : conns[i].name = name
  <2>1. CASE Named(name) # {}
    BY <1>1, <2>1 DEF connection, Named
  <2>2. CASE Named(name) = {}
    <3>1. conns = Append(open, [name |-> name, tx |-> Outside])
      BY <2>2 DEF connection
    <3>2. [name |-> name, tx |-> Outside] \in Connections
      BY DEF Connections, Names
    <3>3. conns \in Seq(Connections) /\ conns # <<>> /\ conns[1].name = Main
      BY <1>1, <3>1, <3>2
    <3>4. /\ Len(open) + 1 \in DOMAIN conns
          /\ conns[Len(open) + 1] = [name |-> name, tx |-> Outside]
      BY <1>1, <3>1, <3>2
    <3>5. conns[Len(open) + 1].name = name
      BY <3>4
    <3>6. QED
      BY <3>3, <3>4, <3>5
  <2>3. QED
    BY <2>1, <2>2
<1>3. conn \in DOMAIN conns /\ conns[conn].name = name
  BY <1>2 DEF Where
<1> DEFINE tx == conns[conn].tx
           Leaves(after) ==
             open' = [conns EXCEPT ![conn] = [name |-> name, tx |-> after]]
<1>4. \/ Leaves(tx) /\ UNCHANGED <<files, mine>>
      \/ Leaves({}) /\ UNCHANGED <<files, mine>>
      \/ tx # Outside /\ Leaves(Outside) /\ Put(tx)
      \/ tx # Outside /\ Leaves(tx \union {at}) /\ UNCHANGED <<files, mine>>
      \/ Leaves(tx) /\ Put({at})
  BY DEF Says
<1> HIDE DEF conns, conn
<1>5. tx \in (SUBSET Marks) \union {Outside}
  <2>1. conns[conn] \in Connections
    BY <1>2, <1>3
  <2>2. QED
    BY <2>1 DEF Connections
<1> HIDE DEF tx
<1>6. ASSUME NEW after \in (SUBSET Marks) \union {Outside},
             Leaves(after)
      PROVE  open' \in Seq(Connections) /\ open' # <<>> /\ open'[1].name = Main
  <2>1. [name |-> name, tx |-> after] \in Connections
    BY DEF Connections, Names
  <2>2. open' \in Seq(Connections) /\ open' # <<>>
    BY <1>2, <1>3, <1>6, <2>1
  <2>3. open'[1].name = Main
    BY <1>2, <1>3, <1>6, <2>1
  <2>4. QED
    BY <2>2, <2>3
<1> HIDE DEF Leaves
<1>7. \E after \in (SUBSET Marks) \union {Outside} :
        /\ Leaves(after)
        /\ UNCHANGED <<files, mine>> \/ \E written \in SUBSET Marks : Put(written)
  BY <1>4, <1>5
<1>8. QED
  BY <1>6, <1>7

LEMMA FilesSaid ==
  ASSUME IInv, pc \in {"setup", "query"}, path \in Paths,
         UNCHANGED <<at, torn, report>>,
         pc' \in {"setup", "rows", "close"},
         \/ UNCHANGED <<files, mine>>
         \/ \E written \in SUBSET Marks : Put(written)
  PROVE  /\ files' \in [Paths -> Files] /\ mine' \subseteq Marks
         /\ FilesInv' /\ OwnDatabase' /\ LeftInv'
<1>1. path' = path /\ "db" \in handles
  BY SameCase DEF IInv, HeldInv
<1>2. CASE UNCHANGED <<files, mine>>
  BY <1>1, <1>2, FilesKept, OwnKept, LeftKept DEF IInv, TypeOK
<1>3. CASE \E written \in SUBSET Marks : Put(written)
  <2>1. PICK written \in SUBSET Marks : Put(written)
    BY <1>3
  <2>2. /\ files' \in [Paths -> Files] /\ mine' \subseteq Marks
        /\ files'[path].made
        /\ files'[path].rows = files[path].rows
        /\ files'[path].log = files[path].log \union written
        /\ \A p \in Paths \ {path} : files'[p] = files[p]
    BY <2>1 DEF Put, IInv, TypeOK, Files, File
  <2>3. FilesInv'
    BY <1>1, <2>2 DEF IInv, FilesInv
  <2>4. OwnDatabase'
    BY <1>1, <2>1, <2>2 DEF Put, IInv, OwnDatabase, Held
  <2>5. LeftInv'
    BY <2>2, LeftKept
  <2>6. QED
    BY <2>2, <2>3, <2>4, <2>5
<1>4. QED
  BY <1>2, <1>3

LEMMA SetupInv ==
  ASSUME IInv, Setup
  PROVE  IInv'
<1>1. /\ pc = "setup" /\ step \in 1 .. Len(case.setup) /\ step \in Nat
      /\ path \in Paths /\ at \in 1 .. Len(Cases) /\ at \in Marks
      /\ Len(case.setup) \in Nat /\ Len(said) = step - 1
      /\ path' = path /\ case' = case
      /\ UNCHANGED <<at, handles, report, kills, torn>>
  BY OnCase, SameCase DEF Setup, IInv, TypeOK, SaidInv, endVars
<1>2. CASE CannotConnect(case.setup[step].on) /\ UNCHANGED step
  <2>1. ran("Failed") /\ UNCHANGED <<files, open, said, mine, step>>
    BY <1>2 DEF CannotConnect
  <2>2. TypeOK'
    BY <1>1, <2>1 DEF ran, IInv, TypeOK, Verdicts, Decided
  <2>3. HeldInv' /\ ClosedInOrder'
    BY <1>1, <2>1 DEF ran, IInv, HeldInv, ClosedInOrder
  <2>4. FilesInv' /\ OwnDatabase' /\ LeftInv'
    BY <1>1, <2>1, FilesKept, OwnKept, LeftKept DEF ran, IInv
  <2>5. SaidInv' /\ VerdictIsEarned'
    BY <1>1, <2>1, FailsEarly DEF Deciding
  <2>6. QED
    BY <2>2, <2>3, <2>4, <2>5 DEF IInv
<1>3. CASE \E answer \in Answers :
             /\ Says(case.setup[step].on, case.setup[step].does, answer)
             /\ said' = Append(said, answer)
             /\ IF answer.ok
                THEN step' = step + 1 /\ UNCHANGED <<pc, verdict>>
                ELSE ran(Excuse(answer.code)) /\ UNCHANGED step
  <2>1. PICK answer \in Answers :
          /\ Says(case.setup[step].on, case.setup[step].does, answer)
          /\ said' = Append(said, answer)
          /\ IF answer.ok
             THEN step' = step + 1 /\ UNCHANGED <<pc, verdict>>
             ELSE ran(Excuse(answer.code)) /\ UNCHANGED step
    BY <1>3
  <2>2. case.setup[step].on \in STRING
    BY <1>1, OnCase DEF IInv
  <2>3. /\ open' \in Seq(Connections)
        /\ open' # <<>> /\ open'[1].name = Main
        /\ \/ UNCHANGED <<files, mine>>
           \/ \E written \in SUBSET Marks : Put(written)
    BY <1>1, <2>1, <2>2, SaysKeeps
  <2>4. pc' \in {"setup", "close"}
    BY <1>1, <2>1 DEF ran
  <2>5. /\ files' \in [Paths -> Files] /\ mine' \subseteq Marks
        /\ FilesInv' /\ OwnDatabase' /\ LeftInv'
    BY <1>1, <2>3, <2>4, FilesSaid
  <2>6. /\ said \in Seq(Answers) /\ said' \in Seq(Answers)
        /\ Len(said') = Len(said) + 1 /\ said'[Len(said')] = answer
        /\ \A i \in 1 .. Len(said) : said'[i] = said[i]
    BY <2>1 DEF IInv, TypeOK
  <2>7. TypeOK'
    <3>1. step' \in Nat /\ verdict' \in Verdicts \union {"none"}
      BY <1>1, <2>1 DEF ran, Excuse, IInv, TypeOK, Verdicts
    <3>2. /\ pc' \in Deciding \union Decided \union {"over"}
          /\ pc' # "over" /\ pc # "over"
      BY <1>1, <2>4 DEF Deciding, Decided
    <3>3. at' = at /\ at # Len(Cases) + 1 /\ UNCHANGED <<handles, report, kills, torn>>
      BY <1>1, <3>2 DEF IInv, TypeOK
    <3>4. QED
      BY <2>3, <2>5, <2>6, <3>1, <3>2, <3>3 DEF IInv, TypeOK
  <2>8. HeldInv' /\ ClosedInOrder'
    BY <1>1, <2>3, <2>4 DEF IInv, HeldInv, ClosedInOrder
  <2>9. SaidInv' /\ VerdictIsEarned'
    <3>1. CASE answer.ok
      BY <1>1, <2>1, <2>6, <3>1
         DEF IInv, SaidInv, VerdictIsEarned, Fresh, Decided
    <3>2. CASE ~answer.ok
      BY <1>1, <2>1, <2>6, <3>2
         DEF ran, Excuse, unsupported, Last, IInv, SaidInv, VerdictIsEarned,
             Fresh, Decided
    <3>3. QED
      BY <3>1, <3>2
  <2>10. QED
    BY <2>5, <2>7, <2>8, <2>9 DEF IInv
<1>4. QED
  BY <1>2, <1>3 DEF Setup

LEMMA QueryInv ==
  ASSUME IInv, Query
  PROVE  IInv'
<1>1. /\ pc = "query" /\ path \in Paths /\ at \in 1 .. Len(Cases) /\ at \in Marks
      /\ Len(case.setup) \in Nat /\ Len(said) = Len(case.setup)
      /\ case.on \in STRING
      /\ path' = path /\ case' = case
      /\ UNCHANGED <<at, step, report, kills, torn>>
  BY OnCase, SameCase DEF Query, IInv, SaidInv, endVars
<1>2. CASE CannotConnect(case.on) /\ UNCHANGED handles
  <2>1. ran("Failed") /\ UNCHANGED <<files, open, said, mine, handles>>
    BY <1>2 DEF CannotConnect
  <2>2. TypeOK'
    BY <1>1, <2>1 DEF ran, IInv, TypeOK, Verdicts, Decided
  <2>3. HeldInv' /\ ClosedInOrder'
    BY <1>1, <2>1 DEF ran, IInv, HeldInv, ClosedInOrder
  <2>4. FilesInv' /\ OwnDatabase' /\ LeftInv'
    BY <1>1, <2>1, FilesKept, OwnKept, LeftKept DEF ran, IInv
  <2>5. SaidInv' /\ VerdictIsEarned'
    BY <1>1, <2>1, FailsEarly DEF Deciding
  <2>6. QED
    BY <2>2, <2>3, <2>4, <2>5 DEF IInv
<1>3. CASE \E answer \in Answers :
             /\ Says(case.on, case.does, answer)
             /\ said' = Append(said, answer)
             /\ IF answer.ok
                THEN /\ handles' = handles \union {"rows"}
                     /\ IF case.raises # NoCode THEN ran("Failed")
                        ELSE pc' = "rows" /\ UNCHANGED verdict
                ELSE Raised(answer.code) /\ UNCHANGED handles
  <2>1. PICK answer \in Answers :
             /\ Says(case.on, case.does, answer)
             /\ said' = Append(said, answer)
             /\ IF answer.ok
                THEN /\ handles' = handles \union {"rows"}
                     /\ IF case.raises # NoCode THEN ran("Failed")
                        ELSE pc' = "rows" /\ UNCHANGED verdict
                ELSE Raised(answer.code) /\ UNCHANGED handles
    BY <1>3
  <2>2. \/ answer.ok /\ case.raises # NoCode
             /\ pc' = "close" /\ verdict' = "Failed"
             /\ handles' = handles \union {"rows"}
        \/ answer.ok /\ case.raises = NoCode
             /\ pc' = "rows" /\ UNCHANGED verdict
             /\ handles' = handles \union {"rows"}
        \/ ~answer.ok /\ case.raises = NoCode
             /\ pc' = "close" /\ verdict' = Excuse(answer.code)
             /\ UNCHANGED handles
        \/ ~answer.ok /\ case.raises # NoCode
             /\ pc' = "close"
             /\ verdict' = (IF answer.code = case.raises THEN "Passed"
                                                       ELSE "Failed")
             /\ UNCHANGED handles
    BY <2>1 DEF Raised, ran
  <2>3. /\ open' \in Seq(Connections)
        /\ open' # <<>> /\ open'[1].name = Main
        /\ \/ UNCHANGED <<files, mine>>
           \/ \E written \in SUBSET Marks : Put(written)
    BY <1>1, <2>1, SaysKeeps
  <2>4. /\ files' \in [Paths -> Files] /\ mine' \subseteq Marks
        /\ FilesInv' /\ OwnDatabase' /\ LeftInv'
    BY <1>1, <2>2, <2>3, FilesSaid
  <2>5. /\ said \in Seq(Answers) /\ said' \in Seq(Answers)
        /\ Len(said') = Len(said) + 1 /\ said'[Len(said')] = answer
        /\ \A i \in 1 .. Len(said) : said'[i] = said[i]
    BY <2>1 DEF IInv, TypeOK
  <2>6. TypeOK'
    <3>1. /\ verdict' \in Verdicts \union {"none"}
          /\ handles' \subseteq {"loader", "db", "rows"}
      BY <2>2 DEF Excuse, IInv, TypeOK, Verdicts
    <3>2. /\ pc' \in Deciding \union Decided \union {"over"}
          /\ pc' # "over" /\ pc # "over"
      BY <1>1, <2>2 DEF Deciding, Decided
    <3>3. at' = at /\ at # Len(Cases) + 1 /\ UNCHANGED <<step, report, kills, torn>>
      BY <1>1, <3>2 DEF IInv, TypeOK
    <3>4. QED
      BY <2>3, <2>4, <2>5, <3>1, <3>2, <3>3 DEF IInv, TypeOK
  <2>7. HeldInv' /\ ClosedInOrder'
    BY <1>1, <2>2, <2>3 DEF IInv, HeldInv, ClosedInOrder
  <2>8. SaidInv'
    <3>1. CASE pc' = "close"
      BY <1>1, <2>2, <3>1 DEF Excuse, SaidInv, Fresh, Decided
    <3>2. CASE /\ pc' = "rows" /\ UNCHANGED verdict
               /\ answer.ok /\ case.raises = NoCode
      BY <1>1, <2>5, <3>2 DEF IInv, SaidInv, Fresh, Decided
    <3>3. QED
      BY <2>2, <3>1, <3>2
  <2>9. VerdictIsEarned'
    <3>1. \A i \in 1 .. Len(case.setup) : said'[i].ok
      BY <1>1, <2>5 DEF IInv, SaidInv
    <3>2. Len(said') = Len(case.setup) + 1 /\ said'[Len(case.setup) + 1] = answer
      BY <1>1, <2>5
    <3>3. CASE answer.ok
      BY <1>1, <2>2, <3>3 DEF IInv, SaidInv, VerdictIsEarned, Decided
    <3>4. CASE ~answer.ok /\ case.raises = NoCode
      BY <1>1, <2>2, <3>2, <3>4 DEF Excuse, unsupported, Last, VerdictIsEarned
    <3>5. CASE ~answer.ok /\ case.raises # NoCode
      BY <1>1, <2>2, <3>1, <3>2, <3>5 DEF VerdictIsEarned
    <3>6. QED
      BY <3>3, <3>4, <3>5
  <2>10. QED
    BY <2>4, <2>6, <2>7, <2>8, <2>9 DEF IInv
<1>4. QED
  BY <1>2, <1>3 DEF Query

LEMMA ExportedInv ==
  ASSUME IInv, Exported
  PROVE  IInv'
<1>1. /\ pc = "export" /\ path \in Paths /\ at \in 1 .. Len(Cases)
      /\ Len(case.setup) \in Nat /\ Len(said) = Len(case.setup) + 1
      /\ path' = path /\ case' = case
      /\ UNCHANGED <<files, at, step, handles, open, report, mine, kills, torn>>
  BY OnCase, SameCase DEF Exported, IInv, SaidInv, endVars
<1>2. \/ /\ case.arrow = "unsaid" /\ ran("Passed") /\ UNCHANGED said
      \/ \E export \in Exports :
           /\ said' = Append(said, export)
           /\ ran(IF Agrees(export) THEN "Passed" ELSE "Failed")
  BY DEF Exported
<1>3. pc' = "close" /\ verdict' \in {"Passed", "Failed"}
  BY <1>2 DEF ran
<1>4. said \in Seq(Answers) /\ Last(said) \in Answers
  BY <1>1 DEF IInv, TypeOK, Last
<1>5. Exports \subseteq Answers
  <2>1. Last(said).rows \in SUBSET Marks
    BY <1>4 DEF Answers
  <2>2. Refusals \subseteq Answers
    <3>1. ASSUME NEW code \in Codes \union {NoCode}
          PROVE  [ok |-> FALSE, code |-> code, rows |-> {}] \in Answers
      BY DEF Answers
    <3>2. QED
      BY <3>1 DEF Refusals
  <2>3. [ok : {TRUE}, code : {NoCode}, rows : {{}, Last(said).rows}] \subseteq Answers
    BY <2>1 DEF Answers
  <2>4. QED
    BY <2>2, <2>3 DEF Exports
<1>6. TypeOK'
  <2>1. said' \in Seq(Answers)
    BY <1>2, <1>4, <1>5
  <2>2. QED
    BY <1>1, <1>3, <2>1 DEF IInv, TypeOK, Verdicts, Decided
<1>7. HeldInv' /\ ClosedInOrder'
  BY <1>1, <1>3 DEF IInv, HeldInv, ClosedInOrder
<1>8. FilesInv' /\ OwnDatabase' /\ LeftInv'
  BY <1>1, <1>3, FilesKept, OwnKept, LeftKept DEF IInv
<1>9. SaidInv' /\ VerdictIsEarned'
  <2>1. CASE case.arrow = "unsaid" /\ ran("Passed") /\ UNCHANGED said
    BY <1>1, <2>1
       DEF ran, IInv, SaidInv, VerdictIsEarned, Fresh, Decided
  <2>2. CASE \E export \in Exports :
               /\ said' = Append(said, export)
               /\ ran(IF Agrees(export) THEN "Passed" ELSE "Failed")
    <3>1. PICK export \in Exports :
             /\ said' = Append(said, export)
             /\ ran(IF Agrees(export) THEN "Passed" ELSE "Failed")
      BY <2>2
    <3>2. /\ Len(said') = Len(case.setup) + 2
          /\ said'[Len(case.setup) + 2] = export
          /\ \A i \in 1 .. Len(case.setup) + 1 : said'[i] = said[i]
      BY <1>1, <1>4, <1>5, <3>1
    <3>3. verdict' = "Passed" => Agrees(export)
      BY <3>1 DEF ran
    <3>4. SaidInv'
      BY <1>1, <1>3 DEF SaidInv, Fresh, Decided
    <3>5. VerdictIsEarned'
      <4>1. /\ case.raises = NoCode
            /\ \A i \in 1 .. Len(case.setup) + 1 : said'[i].ok
            /\ said'[Len(case.setup) + 1].rows = case.wants
        <5>1. /\ case.raises = NoCode
              /\ \A i \in 1 .. Len(case.setup) + 1 : said[i].ok
              /\ said[Len(case.setup) + 1].rows = case.wants
          BY <1>1 DEF IInv, SaidInv
        <5>2. Len(case.setup) + 1 \in 1 .. Len(case.setup) + 1
          BY <1>1
        <5>3. QED
          BY <3>2, <5>1, <5>2
      <4>2. case.arrow = "given" /\ Agrees(export)
              => export.ok /\ export.rows = case.wants
        BY DEF Agrees
      <4>3. case.arrow = "refused" /\ Agrees(export) => ~export.ok
        BY DEF Agrees
      <4>4. QED
        BY <1>1, <1>3, <3>2, <3>3, <4>1, <4>2, <4>3 DEF VerdictIsEarned
    <3>6. QED
      BY <3>4, <3>5
  <2>3. QED
    BY <1>2, <2>1, <2>2
<1>10. QED
  BY <1>6, <1>7, <1>8, <1>9 DEF IInv

LEMMA CloseInv ==
  ASSUME IInv, Close
  PROVE  IInv'
<1>1. /\ pc = "close" /\ path \in Paths /\ at \in 1 .. Len(Cases)
      /\ path' = path /\ case' = case
      /\ UNCHANGED <<files, at, step, verdict, report, said, mine, kills, torn>>
  BY OnCase, SameCase DEF Close, IInv, endVars
<1>2. \/ handles' = handles \ {"rows"} /\ UNCHANGED <<pc, open>>
      \/ /\ "rows" \notin handles /\ open # <<>>
         /\ open' = Front(open) /\ UNCHANGED <<pc, handles>>
      \/ /\ "rows" \notin handles /\ open = <<>>
         /\ pc' = "remove" /\ handles' = {} /\ UNCHANGED open
  BY <1>1 DEF Close
<1>3. /\ open \in Seq(Connections) /\ open' \in Seq(Connections)
      /\ open' # <<>> => open # <<>> /\ open'[1] = open[1]
  <2>1. open \in Seq(Connections)
    BY DEF IInv, TypeOK
  <2>2. CASE open # <<>> /\ open' = Front(open)
    BY <2>1, <2>2 DEF Front
  <2>3. QED
    BY <1>2, <2>1, <2>2
<1>4. TypeOK'
  BY <1>1, <1>2, <1>3 DEF IInv, TypeOK, Decided
<1>5. HeldInv' /\ ClosedInOrder'
  BY <1>1, <1>2, <1>3 DEF IInv, HeldInv, ClosedInOrder
<1>6. FilesInv' /\ OwnDatabase' /\ LeftInv'
  BY <1>1, <1>2, FilesKept, OwnKept, LeftKept DEF IInv
<1>7. SaidInv' /\ VerdictIsEarned'
  BY <1>1, <1>2 DEF IInv, SaidInv, VerdictIsEarned, Fresh, Decided
<1>8. QED
  BY <1>4, <1>5, <1>6, <1>7 DEF IInv

LEMMA RemoveDBInv ==
  ASSUME IInv, RemoveDB
  PROVE  IInv'
<1>1. /\ pc = "remove" /\ path \in Paths /\ at \in 1 .. Len(Cases)
      /\ path' = path /\ case' = case /\ handles = {}
      /\ UNCHANGED <<handles, at, step, open, verdict, report, said, mine, kills>>
      /\ pc' \in {"report", "removeLog"}
  BY OnCase, SameCase DEF RemoveDB, TakeAway, IInv, ClosedInOrder, caseVars
<1>2. HeldInv' /\ ClosedInOrder' /\ OwnDatabase'
  BY <1>1 DEF IInv, HeldInv, ClosedInOrder, OwnDatabase
<1>3. SaidInv' /\ VerdictIsEarned'
  BY <1>1 DEF IInv, SaidInv, VerdictIsEarned, Fresh, Decided
<1>4. CASE verdict = "Failed" /\ pc' = "report" /\ UNCHANGED <<files, torn>>
  <2>1. TypeOK'
    BY <1>1, <1>4 DEF IInv, TypeOK, Decided
  <2>2. FilesInv'
    BY <1>1, <1>4, FilesKept
  <2>3. LeftInv'
    BY <1>1, <1>4 DEF IInv, LeftInv, Blamed
  <2>4. QED
    BY <1>2, <1>3, <2>1, <2>2, <2>3 DEF IInv
<1>5. CASE /\ pc' = "removeLog" /\ UNCHANGED torn
           /\ files' = [files EXCEPT ![path] = File(FALSE, {}, @.log)]
  <2>1. /\ files' \in [Paths -> Files]
        /\ ~files'[path].made /\ files'[path].rows = {}
        /\ \A p \in Paths \ {path} : files'[p] = files[p]
    BY <1>1, <1>5 DEF IInv, TypeOK, Files, File
  <2>2. TypeOK'
    BY <1>1, <1>5, <2>1 DEF IInv, TypeOK, Decided
  <2>3. FilesInv'
    BY <1>1, <1>5, <2>1 DEF IInv, FilesInv
  <2>4. LeftInv'
    BY <1>1, <1>5, <2>1, LeftKept
  <2>5. QED
    BY <1>2, <1>3, <2>2, <2>3, <2>4 DEF IInv
<1>6. CASE pc' = "removeLog" /\ torn' = torn \union {path} /\ UNCHANGED files
  <2>1. TypeOK'
    BY <1>1, <1>6 DEF IInv, TypeOK, Decided
  <2>2. FilesInv'
    BY <1>1, <1>6 DEF IInv, FilesInv
  <2>3. LeftInv'
    BY <1>1, <1>6, LeftKept
  <2>4. QED
    BY <1>2, <1>3, <2>1, <2>2, <2>3 DEF IInv
<1>7. QED
  BY <1>4, <1>5, <1>6 DEF RemoveDB, TakeAway

LEMMA RemoveLogInv ==
  ASSUME IInv, RemoveLog
  PROVE  IInv'
<1>1. /\ pc = "removeLog" /\ pc' = "report"
      /\ path \in Paths /\ at \in 1 .. Len(Cases)
      /\ path' = path /\ case' = case /\ handles = {}
      /\ UNCHANGED <<handles, at, step, open, verdict, report, said, mine, kills>>
  BY OnCase, SameCase DEF RemoveLog, IInv, ClosedInOrder, caseVars
<1>2. HeldInv' /\ ClosedInOrder' /\ OwnDatabase'
  BY <1>1 DEF IInv, HeldInv, ClosedInOrder, OwnDatabase
<1>3. SaidInv' /\ VerdictIsEarned'
  BY <1>1 DEF IInv, SaidInv, VerdictIsEarned, Fresh, Decided
<1>4. CASE /\ files' = [files EXCEPT ![path] = File(@.made, @.rows, {})]
           /\ torn' = IF files[path].made THEN torn ELSE torn \ {path}
  <2>1. /\ files' \in [Paths -> Files]
        /\ files'[path].made = files[path].made /\ files'[path].rows = files[path].rows
        /\ files'[path].log = {}
        /\ \A p \in Paths \ {path} : files'[p] = files[p]
    BY <1>1, <1>4 DEF IInv, TypeOK, Files, File
  <2>2. files'[path] = Empty \/ path \in torn'
    <3>1. CASE files[path].made
      BY <1>1, <1>4, <3>1 DEF IInv, FilesInv
    <3>2. CASE ~files[path].made
      BY <1>1, <1>4, <3>2 DEF IInv, TypeOK, FilesInv, Files, File, Empty
    <3>3. QED
      BY <3>1, <3>2
  <2>3. \A p \in Paths : p \in torn => p \in torn' \/ p = path
    BY <1>4
  <2>4. TypeOK'
    BY <1>1, <1>4, <2>1 DEF IInv, TypeOK, Decided
  <2>5. FilesInv'
    <3>1. SUFFICES ASSUME NEW p \in Paths, ~files'[p].made
          PROVE  files'[p].rows = {} /\ (files'[p].log = {} \/ p \in torn')
      BY <1>1 DEF FilesInv
    <3>2. \A q \in Paths : ~files[q].made =>
            /\ files[q].rows = {}
            /\ files[q].log = {} \/ q \in torn \/ (pc = "removeLog" /\ q = path)
      BY DEF IInv, FilesInv
    <3>3. CASE p = path
      BY <2>1, <3>1, <3>2, <3>3, Zenon
    <3>4. CASE p # path
      <4>1. files'[p] = files[p]
        BY <2>1, <3>1, <3>4
      <4>2. QED
        BY <2>3, <3>1, <3>2, <3>4, <4>1, Zenon
    <3>5. QED
      BY <3>3, <3>4
  <2>6. ASSUME NEW k \in 1 .. at' - 1
        PROVE  LET p == casePath(Cases[k]) IN
                 \/ files'[p] = Empty
                 \/ Blamed(p)'
                 \/ p \in torn'
                 \/ pc' \notin {"make", "over"} /\ p = path'
    <3>1. CASE casePath(Cases[k]) = path
      BY <1>1, <3>1
    <3>2. CASE casePath(Cases[k]) # path
      <4> DEFINE p == casePath(Cases[k])
      <4>1. p \in Paths
        BY <1>1, CasesType DEF IInv, TypeOK, Paths
      <4>2. files[p] = Empty \/ Blamed(p) \/ p \in torn
        BY <1>1, <3>2 DEF IInv, LeftInv
      <4>3. files'[p] = files[p]
        BY <2>1, <3>2, <4>1
      <4>4. p \in torn => p \in torn'
        BY <2>3, <3>2, <4>1
      <4>5. Blamed(p) => Blamed(p)'
        BY <1>1 DEF Blamed
      <4>6. QED
        BY <4>2, <4>3, <4>4, <4>5
    <3>3. QED
      BY <3>1, <3>2
  <2>7. LeftInv'
    BY <1>1, <2>2, <2>6 DEF LeftInv
  <2>8. QED
    BY <1>2, <1>3, <2>4, <2>5, <2>7 DEF IInv
<1>5. CASE torn' = torn \union {path} /\ UNCHANGED files
  <2>1. TypeOK'
    BY <1>1, <1>5 DEF IInv, TypeOK, Decided
  <2>2. FilesInv'
    BY <1>1, <1>5 DEF IInv, FilesInv
  <2>3. LeftInv'
    BY <1>1, <1>5 DEF IInv, LeftInv, Blamed
  <2>4. QED
    BY <1>2, <1>3, <2>1, <2>2, <2>3 DEF IInv
<1>6. QED
  BY <1>4, <1>5 DEF RemoveLog

LEMMA ReportInv ==
  ASSUME IInv, Report
  PROVE  IInv'
<1>1. /\ pc = "report" /\ path \in Paths /\ at \in 1 .. Len(Cases)
      /\ handles = {} /\ open = <<>>
      /\ report' = Append(report, verdict) /\ at' = at + 1
      /\ pc' = IF at = Len(Cases) THEN "over" ELSE "make"
      /\ step' = 1 /\ verdict' = "none" /\ said' = <<>> /\ mine' = {}
      /\ UNCHANGED <<files, handles, open, kills, torn>>
  BY OnCase DEF Report, IInv, ClosedInOrder, endVars
<1>2. verdict \in Verdicts
  BY <1>1 DEF IInv, TypeOK, SaidInv, Decided
<1>3. /\ report' \in Seq(Verdicts) /\ Len(report') = at
      /\ report'[at] = verdict
      /\ \A j \in 1 .. at - 1 : report'[j] = report[j]
  BY <1>1, <1>2 DEF IInv, TypeOK
<1>4. TypeOK'
  <2>1. /\ at' \in 1 .. Len(Cases) + 1
        /\ pc' \in {"make", "over"}
        /\ pc' = "over" <=> at' = Len(Cases) + 1
    <3>1. Len(Cases) \in Nat /\ at \in 1 .. Len(Cases)
      BY <1>1, CasesType
    <3>2. pc' = "over" <=> at = Len(Cases)
      BY <1>1
    <3>3. QED
      BY <1>1, <3>1, <3>2
  <2>2. QED
    BY <1>1, <1>3, <2>1 DEF IInv, TypeOK, Deciding, Fresh
<1>5. HeldInv' /\ ClosedInOrder' /\ OwnDatabase'
  BY <1>1 DEF HeldInv, ClosedInOrder, OwnDatabase
<1>6. FilesInv'
  BY <1>1 DEF IInv, FilesInv
<1>7. SaidInv' /\ VerdictIsEarned'
  BY <1>1 DEF SaidInv, VerdictIsEarned, Fresh, Decided
<1>8. LeftInv'
  <2>1. SUFFICES ASSUME NEW k \in 1 .. at
        PROVE  \/ files[casePath(Cases[k])] = Empty \/ Blamed(casePath(Cases[k]))'
               \/ casePath(Cases[k]) \in torn
    BY <1>1 DEF LeftInv
  <2>2. CASE casePath(Cases[k]) = path
    BY <1>1, <1>3, <2>2 DEF IInv, LeftInv, Blamed, path, case
  <2>3. CASE casePath(Cases[k]) # path
    <3>1. k \in 1 .. at - 1
      BY <1>1, <2>3 DEF path, case
    <3>2. \/ files[casePath(Cases[k])] = Empty \/ Blamed(casePath(Cases[k]))
          \/ casePath(Cases[k]) \in torn
      BY <2>3, <3>1 DEF IInv, LeftInv
    <3>3. QED
      BY <1>1, <1>3, <3>2 DEF Blamed
  <2>4. QED
    BY <2>2, <2>3
<1>9. QED
  BY <1>4, <1>5, <1>6, <1>7, <1>8 DEF IInv

LEMMA KillInv ==
  ASSUME IInv, Kill
  PROVE  IInv'
<1>1. /\ pc # "over" /\ path \in Paths
      /\ torn' = IF pc = "removeLog" THEN torn \union {path} ELSE torn
      /\ at' = 1 /\ pc' = "make" /\ step' = 1
      /\ handles' = {} /\ open' = <<>>
      /\ verdict' = "none" /\ report' = <<>>
      /\ said' = <<>> /\ mine' = {}
      /\ UNCHANGED files
  BY OnCase DEF Kill, IInv
<1>2. kills' \in 0 .. MaxKills
  BY CasesAssumption DEF Kill, IInv, TypeOK
<1>3. TypeOK'
  BY <1>1, <1>2, CasesType DEF IInv, TypeOK, Deciding, Fresh
<1>4. HeldInv' /\ ClosedInOrder' /\ OwnDatabase'
  BY <1>1 DEF HeldInv, ClosedInOrder, OwnDatabase
<1>5. FilesInv'
  BY <1>1 DEF IInv, FilesInv
<1>6. SaidInv' /\ VerdictIsEarned' /\ LeftInv'
  BY <1>1 DEF SaidInv, VerdictIsEarned, LeftInv, Fresh, Decided
<1>7. QED
  BY <1>3, <1>4, <1>5, <1>6 DEF IInv

----------------------------------------------------------------------------
(* The theorems.                                                           *)

LEMMA InitInv == Init => IInv
<1>1. SUFFICES ASSUME Init PROVE IInv
  OBVIOUS
<1>2. TypeOK
  BY <1>1, CasesAssumption, CasesType
     DEF Init, TypeOK, Files, File, Empty, Deciding, Fresh
<1>3. HeldInv /\ ClosedInOrder /\ OwnDatabase
  BY <1>1 DEF Init, HeldInv, ClosedInOrder, OwnDatabase
<1>4. FilesInv
  BY <1>1 DEF Init, FilesInv, Empty, File
<1>5. SaidInv /\ VerdictIsEarned /\ LeftInv
  BY <1>1 DEF Init, SaidInv, VerdictIsEarned, LeftInv, Fresh, Decided
<1>6. QED
  BY <1>2, <1>3, <1>4, <1>5 DEF IInv

LEMMA StutterInv == IInv /\ UNCHANGED vars => IInv'
BY SameCase DEF IInv, TypeOK, HeldInv, ClosedInOrder, FilesInv, OwnDatabase,
   Held, SaidInv, VerdictIsEarned, LeftInv, Blamed, vars, caseVars, endVars

LEMMA NextInv == IInv /\ [Next]_vars => IInv'
BY StutterInv, MakeDBInv, LoadInv, OpenInv, ConnectInv, SetupInv, SetupDoneInv,
   QueryInv, ReadRowsInv, ExportedInv, CloseInv, RemoveDBInv, RemoveLogInv,
   ReportInv, KillInv
   DEF Next, Run

(* The invariant the theorems rest on.                                     *)
THEOREM Invariance == Spec => []IInv
BY InitInv, NextInv, PTL DEF Spec

(* While its database is open a case finds there what it put there itself, *)
(* whatever the cases before it or a killed runner left in the directory,  *)
(* but for a log whose removal stopped half way.                           *)
THEOREM OwnData == Spec => []OwnDatabase
<1>1. IInv => OwnDatabase
  BY DEF IInv
<1>2. QED
  BY <1>1, Invariance, PTL

(* A pass is an answer the case wants after a setup that went in, and a    *)
(* case is excused only by a refusal of class 42 or 0A it did not owe.     *)
THEOREM Earned == Spec => []VerdictIsEarned
<1>1. IInv => VerdictIsEarned
  BY DEF IInv
<1>2. QED
  BY <1>1, Invariance, PTL

(* The runner takes its handles apart in the order they hang on each other *)
(* and touches the files when nothing holds them.                          *)
THEOREM ClosesInOrder == Spec => []ClosedInOrder
<1>1. IInv => ClosedInOrder
  BY DEF IInv
<1>2. QED
  BY <1>1, Invariance, PTL

LEMMA OverInv == IInv => LeavesOnlyFailures
<1>1. SUFFICES ASSUME IInv, pc = "over", NEW p \in Paths \ torn, files[p] # Empty
      PROVE  \E k \in DOMAIN Cases :
               casePath(Cases[k]) = p /\ report[k] = "Failed"
  BY DEF LeavesOnlyFailures
<1>2. at = Len(Cases) + 1
  BY <1>1 DEF IInv, TypeOK
<1>3. PICK k \in 1 .. at - 1 : casePath(Cases[k]) = p
  BY <1>2, CasesType DEF Paths
<1>4. Blamed(p)
  BY <1>1, <1>3 DEF IInv, LeftInv
<1>5. QED
  BY <1>2, <1>4, CasesType DEF Blamed

(* What a finished run leaves in the directory has a failed case to answer *)
(* for it or could not be removed, however often the runner was killed and *)
(* started again.                                                          *)
THEOREM OnlyFailuresLeft == Spec => []LeavesOnlyFailures
BY OverInv, Invariance, PTL
====

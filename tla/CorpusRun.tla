------------------------------ MODULE CorpusRun ------------------------------
(***************************************************************************)
(* The runner of the conformance corpus, corpus/runner.go: every case of   *)
(* every suite in the order they were written, each in a database file of  *)
(* its own, and the verdict on each.  The runner may be killed at any      *)
(* moment and started again in the same directory, which is what `corpus   *)
(* -work` allows (corpus/cmd/corpus/main.go:30).                           *)
(*                                                                         *)
(* The engine is what the runner uses of it: a database is a file and a    *)
(* log beside it; a call that makes one refuses a path that exists         *)
(* (loader.go:82) and takes over a log that is there already               *)
(* (runner.go:127); a connection sees what is committed and what its own   *)
(* transaction wrote, and any statement may be refused.                    *)
(***************************************************************************)
EXTENDS Integers, Sequences, FiniteSets, SequencesExt

CONSTANTS
    Cases,      \* the cases of all the suites, in order: see CasesAssumption
    Codes,      \* the GQLSTATUS codes a refusal may carry, class and subclass
    MaxKills    \* bound: how often the runner is killed and started again

Main == "main"
NoCode == [class |-> "", sub |-> ""]
Verbs == {"begin", "commit", "write", "read"}
Steps == [on : STRING, does : Verbs]

\* A case as cases.go hands it over.  A name is a list of words, which dashes
\* join; raises is NoCode for a case that wants rows, which are marks.
CaseRecords == [suite : Seq(STRING), name : Seq(STRING), load : BOOLEAN,
                setup : Seq(Steps), on : STRING, does : Verbs,
                raises : Codes \union {NoCode}, wants : SUBSET Nat,
                arrow : {"unsaid", "refused", "given"}]
ASSUME CasesAssumption ==
    /\ Cases \in Seq(CaseRecords) /\ Cases # <<>>
    /\ NoCode \notin Codes
    /\ MaxKills \in Nat

VARIABLES
    files,   \* at each path: whether a database is there, its rows, its log
    at,      \* the case being run, one past the last at the end
    pc,      \* where the runner is in it: "make" to "report", then "over"
    step,    \* the setup statement it is on
    handles, \* which of the loader, the database and the rows it holds
    open,    \* the connections of the case, main first: name and transaction
    verdict, \* what the case came to, once something decided it
    report,  \* the verdicts of the cases that are done
    said,    \* ghost: what the engine answered to the statements of the case
    mine,    \* ghost: the marks this run of the case put in its database
    kills,   \* how often the runner was killed
    torn     \* ghost: paths whose removal stopped half way: a kill, or a refusal

caseVars == <<at, step, open, verdict, report, said, mine>>
endVars == <<kills, torn>>
vars == <<files, pc, handles, caseVars, endVars>>

case == Cases[at]

\* A dash joins the names of the suite and the case, as it joins their words.
casePath(c) == c.suite \o c.name
Paths == {casePath(Cases[k]) : k \in DOMAIN Cases}
path == casePath(case)

\* The rows of a database are marks: the case that wrote one, 0 for a load.
Marks == 0 .. Len(Cases)
File(made, rows, log) == [made |-> made, rows |-> rows, log |-> log]
Files == [made : BOOLEAN, rows : SUBSET Marks, log : SUBSET Marks]
Empty == File(FALSE, {}, {})
Held(p) == files[p].rows \union files[p].log

\* A transaction is the marks written in it; Outside is a connection in none.
Outside == {-1}
Answers == [ok : BOOLEAN, code : Codes \union {NoCode}, rows : SUBSET Marks]

\* A directory nothing was run in before.
Init ==
    /\ files = [p \in Paths |-> Empty]
    /\ at = 1 /\ pc = "make" /\ step = 1
    /\ handles = {} /\ open = <<>>
    /\ verdict = "none" /\ report = <<>>
    /\ said = <<>> /\ mine = {}
    /\ kills = 0 /\ torn = {}

(***************************************************************************)
(* runCase returning: what it decided, and the deferred closes to come.    *)
(***************************************************************************)
ran(outcome) == verdict' = outcome /\ pc' = "close"

unsupported(code) == code.class \in {"42", "0A"}
Excuse(code) == IF unsupported(code) THEN "Unsupported" ELSE "Failed"

(***************************************************************************)
(* The database: created, or built by the suite's load, which leaves the   *)
(* path with an empty table when it fails.                                 *)
(***************************************************************************)
MakeDB ==
    /\ pc = "make"
    /\ \/ /\ ~files[path].made
          /\ files' = [files EXCEPT ![path] = File(TRUE, {}, @.log)]
          /\ IF case.load
             THEN pc' = "load" /\ handles' = {"loader"}
             ELSE pc' = "open" /\ UNCHANGED handles
          /\ UNCHANGED verdict
       \/ ran("Failed") /\ UNCHANGED <<files, handles>>
    /\ UNCHANGED <<at, step, open, report, said, mine, endVars>>

\* applyLoad: the table, the columns, the edges and Finish, any of which may
\* fail, and the deferred Close.
applyLoad ==
    /\ pc = "load"
    /\ handles' = handles \ {"loader"}
    /\ \/ /\ files' = [files EXCEPT ![path] = File(TRUE, {0}, @.log)]
          /\ mine' = {0}
          /\ pc' = "open" /\ UNCHANGED verdict
       \/ ran("Failed") /\ UNCHANGED <<files, mine>>
    /\ UNCHANGED <<at, step, open, report, said, endVars>>

Open ==
    /\ pc = "open"
    /\ \/ handles' = handles \union {"db"} /\ pc' = "connect" /\ UNCHANGED verdict
       \/ ran("Failed") /\ UNCHANGED handles
    /\ UNCHANGED <<files, at, step, open, report, said, mine, endVars>>

Connect ==
    /\ pc = "connect"
    /\ \/ /\ open' = <<[name |-> Main, tx |-> Outside]>>
          /\ pc' = "setup" /\ UNCHANGED verdict
       \/ ran("Failed") /\ UNCHANGED open
    /\ UNCHANGED <<files, at, step, handles, report, said, mine, endVars>>

(***************************************************************************)
(* connection: the one of that name, or a duplicate of main on its first   *)
(* mention, which shares the database and has a transaction of its own.    *)
(***************************************************************************)
Named(name) == {i \in DOMAIN open : open[i].name = name}
connection(name) ==
    IF Named(name) # {} THEN open ELSE Append(open, [name |-> name, tx |-> Outside])
Where(conns, name) == CHOOSE i \in DOMAIN conns : conns[i].name = name

\* A statement on the connection called name, made if this is its first
\* mention, and what the engine answers.  A connection sees what is committed
\* and what its transaction wrote; a write outside one is committed by itself.
Put(written) ==
    /\ files' = [files EXCEPT ![path] = File(TRUE, @.rows, @.log \union written)]
    /\ mine' = mine \union written
Refusals == {[ok |-> FALSE, code |-> code, rows |-> {}] : code \in Codes \union {NoCode}}
Says(name, verb, answer) ==
    LET conns == connection(name)
        conn == Where(conns, name)
        tx == conns[conn].tx
        Leaves(after) == open' = [conns EXCEPT ![conn] = [name |-> name, tx |-> after]]
        Sees == IF verb = "read" THEN Held(path) \union (tx \ Outside) ELSE {}
    IN
    \/ answer \in Refusals /\ Leaves(tx) /\ UNCHANGED <<files, mine>>
    \/ /\ answer = [ok |-> TRUE, code |-> NoCode, rows |-> Sees]
       /\ \/ verb = "begin" /\ tx = Outside /\ Leaves({}) /\ UNCHANGED <<files, mine>>
          \/ verb = "commit" /\ tx # Outside /\ Leaves(Outside) /\ Put(tx)
          \/ verb = "write" /\ tx # Outside /\ Leaves(tx \union {at})
             /\ UNCHANGED <<files, mine>>
          \/ verb = "write" /\ tx = Outside /\ Leaves(tx) /\ Put({at})
          \/ verb = "read" /\ Leaves(tx) /\ UNCHANGED <<files, mine>>

CannotConnect(name) ==
    /\ Named(name) = {}
    /\ ran("Failed")
    /\ UNCHANGED <<files, open, said, mine>>

(***************************************************************************)
(* The setup, in order: one that fails is never a pass.                    *)
(***************************************************************************)
Setup ==
    /\ pc = "setup" /\ step <= Len(case.setup)
    /\ \/ CannotConnect(case.setup[step].on) /\ UNCHANGED step
       \/ \E answer \in Answers :
            /\ Says(case.setup[step].on, case.setup[step].does, answer)
            /\ said' = Append(said, answer)
            /\ IF answer.ok
               THEN step' = step + 1 /\ UNCHANGED <<pc, verdict>>
               ELSE ran(Excuse(answer.code)) /\ UNCHANGED step
    /\ UNCHANGED <<at, handles, report, endVars>>
SetupDone ==
    /\ pc = "setup" /\ step > Len(case.setup)
    /\ pc' = "query"
    /\ UNCHANGED <<files, handles, caseVars, endVars>>

(***************************************************************************)
(* The statement under test: a condition is compared with the one the case *)
(* wants, when it wants one, and excused as unsupported only otherwise.    *)
(***************************************************************************)
RaisedLoosely(code) ==
    CASE unsupported(code) -> ran("Unsupported")
      [] code = case.raises -> ran("Passed")
      [] OTHER -> ran("Failed")
Raised(code) ==
    IF case.raises = NoCode THEN ran(Excuse(code))
    ELSE ran(IF code = case.raises THEN "Passed" ELSE "Failed")
Query ==
    /\ pc = "query"
    /\ \/ CannotConnect(case.on) /\ UNCHANGED handles
       \/ \E answer \in Answers :
            /\ Says(case.on, case.does, answer)
            /\ said' = Append(said, answer)
            /\ IF answer.ok
               THEN /\ handles' = handles \union {"rows"}
                    /\ IF case.raises # NoCode THEN ran("Failed")
                       ELSE pc' = "rows" /\ UNCHANGED verdict
               ELSE Raised(answer.code) /\ UNCHANGED handles
    /\ UNCHANGED <<at, step, report, endVars>>

\* readAll and compare, after the whole result was read, which may fail.
ReadRows ==
    /\ pc = "rows"
    /\ \/ ran("Failed")
       \/ Last(said).rows = case.wants /\ pc' = "export" /\ UNCHANGED verdict
    /\ UNCHANGED <<files, at, step, handles, open, report, said, mine, endVars>>

\* exported, when the case says anything of it: the engine refuses the result
\* or gives a stream, of these rows or not.
Exports ==
    Refusals \union [ok : {TRUE}, code : {NoCode}, rows : {{}, Last(said).rows}]
Agrees(export) ==
    IF export.ok THEN case.arrow = "given" /\ export.rows = case.wants
    ELSE case.arrow = "refused"
Exported ==
    /\ pc = "export"
    /\ \/ case.arrow = "unsaid" /\ ran("Passed") /\ UNCHANGED said
       \/ /\ case.arrow # "unsaid"
          /\ \E export \in Exports :
                /\ said' = Append(said, export)
                /\ ran(IF Agrees(export) THEN "Passed" ELSE "Failed")
    /\ UNCHANGED <<files, at, step, handles, open, report, mine, endVars>>

(***************************************************************************)
(* The deferred closes: the rows, the connections from the last made to    *)
(* main, each dropping its transaction, and the database.                  *)
(***************************************************************************)
MainFirst ==
    /\ pc = "close"
    /\ IF "rows" \in handles
       THEN handles' = handles \ {"rows"} /\ UNCHANGED <<pc, open>>
       ELSE IF "db" \in handles
       THEN handles' = handles \ {"db"} /\ UNCHANGED <<pc, open>>
       ELSE IF open # <<>>
       THEN open' = Front(open) /\ UNCHANGED <<pc, handles>>
       ELSE pc' = "remove" /\ UNCHANGED <<handles, open>>
    /\ UNCHANGED <<files, at, step, verdict, report, said, mine, endVars>>
Close ==
    /\ pc = "close"
    /\ IF "rows" \in handles
       THEN handles' = handles \ {"rows"} /\ UNCHANGED <<pc, open>>
       ELSE IF open # <<>>
       THEN open' = Front(open) /\ UNCHANGED <<pc, handles>>
       ELSE pc' = "remove" /\ handles' = {} /\ UNCHANGED open
    /\ UNCHANGED <<files, at, step, verdict, report, said, mine, endVars>>

(***************************************************************************)
(* Run, after a case: its database goes, then its log, unless it failed;   *)
(* the system may refuse to remove either, which nobody is told.  What the *)
(* case came to is reported and the next one begins.                       *)
(***************************************************************************)
TakeAway ==
    /\ pc' = "removeLog"
    /\ \/ files' = [files EXCEPT ![path] = File(FALSE, {}, @.log)] /\ UNCHANGED torn
       \/ torn' = torn \union {path} /\ UNCHANGED files
RemovePassed ==
    /\ pc = "remove"
    /\ IF verdict # "Passed"
       THEN pc' = "report" /\ UNCHANGED <<files, torn>>
       ELSE TakeAway
    /\ UNCHANGED <<handles, caseVars, kills>>
RemoveDB ==
    /\ pc = "remove"
    /\ IF verdict = "Failed"
       THEN pc' = "report" /\ UNCHANGED <<files, torn>>
       ELSE TakeAway
    /\ UNCHANGED <<handles, caseVars, kills>>
KeepLog ==
    /\ pc = "removeLog"
    /\ pc' = "report"
    /\ UNCHANGED <<files, handles, caseVars, endVars>>
RemoveLog ==
    /\ pc = "removeLog"
    /\ pc' = "report"
    /\ \/ /\ files' = [files EXCEPT ![path] = File(@.made, @.rows, {})]
          /\ torn' = IF files[path].made THEN torn ELSE torn \ {path}
       \/ torn' = torn \union {path} /\ UNCHANGED files
    /\ UNCHANGED <<handles, caseVars, kills>>
Report ==
    /\ pc = "report"
    /\ report' = Append(report, verdict)
    /\ at' = at + 1
    /\ pc' = IF at = Len(Cases) THEN "over" ELSE "make"
    /\ step' = 1 /\ verdict' = "none" /\ said' = <<>> /\ mine' = {}
    /\ UNCHANGED <<files, handles, open, endVars>>

\* The runner is killed, and started again on the same directory.
Kill ==
    /\ pc # "over" /\ kills < MaxKills
    /\ kills' = kills + 1
    /\ torn' = IF pc = "removeLog" THEN torn \union {path} ELSE torn
    /\ at' = 1 /\ pc' = "make" /\ step' = 1
    /\ handles' = {} /\ open' = <<>>
    /\ verdict' = "none" /\ report' = <<>>
    /\ said' = <<>> /\ mine' = {}
    /\ UNCHANGED files

Run == \/ MakeDB \/ applyLoad \/ Open \/ Connect \/ Setup \/ SetupDone \/ Query
       \/ ReadRows \/ Exported \/ Close \/ RemoveDB \/ RemoveLog \/ Report
Next == Run \/ Kill
Spec == Init /\ [][Next]_vars

(***************************************************************************)
(* Properties.                                                             *)
(***************************************************************************)

\* Each case gets a database of its own (runner.go:6): while one is open it
\* holds what this run of this case put in it, no more and no less, whatever
\* a case of the same path or a killed runner left in the directory.  The gap
\* is a removal that stops half way, because the runner is killed between the
\* two or the system refuses one, an error the runner discards
\* (runner.go:127-131).
OwnDatabase ==
    "db" \in handles /\ path \notin torn => Held(path) = mine

\* A pass is an answer the case wants, after a setup every statement of which
\* went in: the rows, with the export if it says one, or the condition.  A
\* case is excused as unsupported by a refusal of class 42 or 0A, and never
\* when it came back with rows or owed a condition (runner.go:12-19, 200).
VerdictIsEarned ==
    /\ verdict = "Passed" =>
        LET n == Len(case.setup) + 1 IN
        /\ Len(said) >= n
        /\ \A i \in 1 .. n - 1 : said[i].ok
        /\ IF case.raises # NoCode
           THEN ~said[n].ok /\ said[n].code = case.raises
           ELSE /\ said[n].ok /\ said[n].rows = case.wants
                /\ case.arrow = "given" => said[n + 1].ok /\ said[n + 1].rows = case.wants
                /\ case.arrow = "refused" => ~said[n + 1].ok
    /\ verdict = "Unsupported" =>
        /\ said # <<>> /\ ~Last(said).ok
        /\ Last(said).code.class \in {"42", "0A"}
        /\ Len(said) = Len(case.setup) + 1 => case.raises = NoCode

\* The runner takes its handles apart in the order they hang on each other,
\* and touches the files only when nothing holds them: the loader is gone
\* before the database opens, rows need a connection, a connection needs the
\* database, a duplicate needs main.
ClosedInOrder ==
    /\ "loader" \in handles => handles = {"loader"}
    /\ "rows" \in handles => open # <<>>
    /\ open # <<>> => "db" \in handles /\ open[1].name = Main
    /\ pc \in {"make", "remove", "removeLog", "report", "over"} =>
           handles = {} /\ open = <<>>

\* What is in the directory at the end is left by cases that failed and by
\* nothing else, not even a log (runner.go:115-130), also after a runner that
\* was killed and started again; or it is what the system refused to remove.
LeavesOnlyFailures ==
    pc = "over" =>
        \A p \in Paths \ torn :
            files[p] # Empty =>
                \E k \in DOMAIN Cases : casePath(Cases[k]) = p /\ report[k] = "Failed"
=============================================================================

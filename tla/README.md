# A verification of zu-go

zu-go is the Go client of the embedded graph database zu: a cgo binding over the C
library libzu (`include/zu.h`), a `database/sql` driver on top of it (`zusql`), an Arrow
reader (`zuarrow`), analyzers for its own misuse (`zulint`) and a runner of the shared
conformance corpus (`corpus`). This directory holds TLA+ models of the client, the TLC
configurations that check them and proofs checked by TLAPS.

The engine is not here: what is modelled of it is the contract the header states and the
Go code relies on. What is checked is what the binding adds to it: who may call when,
who frees what, which goroutine's interrupt stops which statement, who ends a
transaction.

## Inventory

| Component | State it keeps | Operations | What is hard about it | What makes it correct |
|---|---|---|---|---|
| connection, `conn.go` | the handle `h` under an RWMutex, the flag `tx`, the registered cleanup; per statement a watcher goroutine | Query, Exec, Prepare, Interrupt, RowsRead, TableName, Duplicate, Close | any goroutine may close, cancel or interrupt while others are inside the engine; the lock prefers writers; a call is refused by the engine and not by the lock | no use after free; interrupts stop the statement they were meant for; every call returns |
| transaction, `tx.go` | `done` per Tx, and the engine's own state | Begin, BeginReadOnly, Query, Exec, Prepare, Commit, Rollback, InTransaction | a Commit and a deferred Rollback race; a refusal after the swap; a close under the transaction; a transaction a statement's text starts or ends | one of them ends it; statements run inside the block; nobody is left inside but by the engine |
| statement, `stmt.go` | the handle, the connection it came from | Bind, Query, Exec, Close | it outlives its connection; it shares the connection's lock and not its check | Closed instead of a dangling pointer |
| database, `database.go` | the handle under an RWMutex | Open, Create, Memory, Connect, Path, InMemory, Close | shared by any number of goroutines | as for the connection; connections outlive it |
| cleanup, `cleanup.go` | one registration per handle | AddCleanup, Stop, the cleanup itself | the collector runs cleanups in any order, at any time | every handle freed exactly once, whoever frees it |
| rows, `rows.go`, `collect.go`, `arrow.go`, `scratch.go` | the result handle, the cursor, the first error | Next, Row, RowAt, All, Scan, Err, Notices, columns, Collect, Iter, ArrowStream, Close | slices borrow the engine's memory; the export spends the result | every row once, in order; nothing read after it went; exported or freed, never both |
| loader, `loader.go` | the handle under an RWMutex; in the engine the stage of the load | NewLoader, Table, columns, Edges, Finish, Close | a fixed order only the engine enforces; a load abandoned halfway | a load happened or did not |
| values, `scan.go`, `value.go`, `decimal.go`, `temporal.go`, `error.go` | one scratch per result | Value, Scan, Bind, ParseDecimal, Decimal.String, conversions of counts | one scratch for a value and what is inside it; widths, nulls, zones | no silent change of a value, in or out |
| driver, `zusql` | the connector's one DB, its error and its `done`; a Tx per pooled connection | parse, open, Connect, BeginTx, IsValid, ResetSession, Close | `database/sql` calls it from its pool, in its order | the next borrower inherits no transaction; a failure is reported and not cached into a nil |
| Arrow reader, `zuarrow`, `internal/arrowc` | none of its own | Reader, ReaderBatched | ownership of the stream | released once |
| analyzers, `zulint` | none | viewafterclose, connshare, rowserr | they follow code and not runs | they flag what the rules above forbid |
| corpus, `corpus` | a directory of databases; the connections and the verdict of the case being run | Read, Run, the spelling, reading and comparison of values | databases left from other cases and other runs; early returns; two walks over a value that have to agree | a case has a database of its own, earns its verdict and leaves nothing; a value read is the value written |
| `internal/source`, `internal/leakgate`, `scripts/mkproxy` | none | test helpers and a release script | pure I/O | not modelled |

The components meet in three ways. Calls go down: `zusql` to the client, the client to
the engine. State is shared through a connection: its lock is taken by its own calls, by
the statements prepared on it, by the Tx begun on it, by the export of a result that came
from it and by the watcher's interrupt. And lifetimes are chained by references the
collector follows: a Stmt and a Rows keep their Conn reachable, a column slice keeps
nothing.

## Modules

| Module | Models | Uses |
|---|---|---|
| `RWMutex` | Go's `sync.RWMutex`, with the writer preference that matters for deadlock (external) | |
| `Handle` | the promise made for every library handle: passed to calls while open, freed once, never under a call | |
| `Conn` | `conn.go`, `tx.go` and the execution of a `Stmt`, by any number of goroutines, over the engine's contract | extends `RWMutex`, implements `Handle` |
| `MCConn` | the instances of `Conn`: which goroutine does what | `Conn` |
| `ConnProofs` | the inductive invariant of `Conn`, types, the safety of the handle, `Conn` implements `Handle`; one Commit or Rollback ends a Tx; what holds of transactions, interrupts and the table name where the sharing rule is kept | `Conn` |
| `Lifecycle` | who gives a handle back: `database.go`, `cleanup.go`, and what `conn.go`, `stmt.go`, `rows.go` and `arrow.go` do about ownership, under Close and the collector | implements `Handle`, once per object |
| `MCLifecycle` | the instances of `Lifecycle` | `Lifecycle` |
| `LifecycleProofs` | its inductive invariant: freed once, kept while reachable, never leaked; every object implements `Handle` | `Lifecycle` |
| `SqlDriver` | `zusql/zusql.go` and `zusql/conn.go`: the connector and the driver's connections, under the pool of `database/sql` (external) | |
| `SqlDriverProofs` | its inductive invariant: no inherited transaction, one run, one opening, nothing left | `SqlDriver` |
| `Cursor` | a `Rows` as its caller reads it: `rows.go`, `collect.go`, the Next of `zusql/rows.go` and the export | |
| `CursorProofs` | its inductive invariant: Err is a backstop, Collect is complete | `Cursor` |
| `Loader` | `loader.go` by any number of goroutines, and the file it makes, over crashes and retries; the loader inside libzu is external | extends `RWMutex` |
| `MCLoader` | the instance of `Loader` | `Loader` |
| `LoaderProofs` | its inductive invariant: no use after free, all or nothing | `Loader` |
| `Values` | `value.go`, `scan.go`, `temporal.go`, `scratch.go` and the Bind of `stmt.go`: values between Go and the engine | |
| `ValuesProofs` | a cell of any depth reads as what it means, a scan keeps the value, a bound parameter reads back | `Values` |
| `Spelling` | `corpus/temporal.go`: dates, times, stamps, offsets and durations as text and back | |
| `Encoding` | `corpus/values.go`: Typed, Payload, Show, Cell and Same | extends `Spelling` |
| `EncodingProofs` | what is shown of a value reads back as that value, what is read is shown as it was written, two values are the same exactly when they are shown alike | `Encoding` |
| `MCValues` | the cells, destinations, parameters, values and spellings, and `Values` and `Encoding` side by side | `Values`, `Encoding` |
| `CorpusRun` | `corpus/runner.go`: the cases one after the other, their databases, and a runner that is killed | |
| `MCCorpusRun` | three cases | `CorpusRun` |
| `CorpusRunProofs` | its inductive invariant: a database of its own, an earned verdict, closes in order, nothing left | `CorpusRun` |

### Conn, state and code

A goroutine's call is a walk of its `pc`:

    idle -> (swap) -> rlock -> rlocked -> ready -> engine -> leave -> idle
    idle -> lock -> drain -> nil -> idle                          (Close)

`swap` is the compare-and-swap of `Tx.end` (tx.go:173). `rlock` to `rlocked` is
`mu.RLock` (granted, or queued behind a writer), the step out of `rlocked` is the test of
`c.h` and the start of the watcher, `ready` is the instant before the C call, `engine` the
call while it claims the engine's connection, `leave` everything after it: `w.end()`,
`caused`, the store of `Conn.tx`, the deferred `RUnlock`. `Close` announces itself to the
lock (`drain`), waits for the readers, frees the connection (`nil`: freed and `c.h` not yet
cleared) and clears its fields. The watcher is a process of its own, `watch`:

    none -> watching -> hit -> sent        (the context's case of the select)
                     -> stopped            (the stop channel's)

with `hit` the instant between the select and the interrupt, which is where a close must
not have freed the connection.

The handlers differ in what they do inside those steps and that is how they are grouped:
`Watched` (Query, Prepare, a Stmt's execution) have a watcher; `Enders` (Commit, Rollback)
have the swap; `Asks` (TableName, Duplicate, InTransaction) claim the connection and run
no statement; `Polls` (Interrupt, RowsRead) claim nothing. Exec is Query and the close of
the rows; Query with arguments is Prepare, an execution and Stmt.Close, one after the
other, each with its own turn at the lock, as two calls of the same goroutine here.

Of the engine the model has: the claim (`claim`: a second call is refused with Concurrent
and does nothing, zu.h:9-12), the raised interrupt (`intr`), dropped when the next statement
starts (zu.h:391-393), the transaction (`etx`), the loan of the table name (`lent`), and
whether the connection exists (`live`). `intr` holds the goroutines that raised the
interrupt; the engine has one bit, and that there is something in the set is all the
actions look at. Choices where the header leaves room: the transaction calls run
statement text (zu.h:466-471), so they too drop an interrupt; a commit or rollback that
fails may leave the engine in its transaction or not; Interrupt and RowsRead do not ask for
the claim.

A statement's text may be START TRANSACTION, COMMIT or ROLLBACK, which do to the engine what
the calls do (zu.h:466-471) and which the binding does not look at: `Conn.tx` and `Tx.done`
stay as they were. `Texts[g]` says which of them the statements of `g` may be, `TextStarts`
and `TextEnds` what they do; an interrupted or failed COMMIT may have ended the transaction.
`etx` is then `ByText`, a transaction no Tx stands for, or none, with the Tx still open. Two
history variables say who did what: `kept`, that the engine refused to end the transaction
it is still in; and `cut`, the Txs whose transaction was ended by a text, or through another
Tx that was cut before: such a Tx goes on, and its Commit or Rollback ends whatever
the engine is in by then. The properties name those two cases and no others: what they say
is that nothing in Go leaves a transaction without its Tx, runs a statement outside its
block, or sets `Conn.tx` wrong.

Left out: arguments and results (their own modules), the rest of what a statement's text may
say, the text of errors, the plan and block caches, and the read-only flag of a transaction, which only the engine looks at.

### Lifecycle, state and code

An object is a DB, a Conn, a Stmt or a Rows. `lib` is the library's side of its handle,
`field` the pointer in the Go object (`h`), `armed` the registration of its cleanup,
`conn` the pointer a Stmt and a Rows keep to their Conn, `held` what the program has a
variable for. A goroutine's call is two steps, `Call` and one of `Make`, `MakeUnnamed`,
`Return`, `Export`, `ExportRefused`, between which others drop, close and collect.

Reachability is computed and not chosen: an object is reachable from a variable, from a
call that still needs its receiver, or from a reachable Stmt or Rows made on it. Which
calls still need their receiver is read off the code: all of them touch it after the call
into C (a deferred unlock, a scratch field, the row count), except GQLStatus; and a slice
of a column does not refer to its Rows. Those two are the call `lent`.

`Collect` is the collector finding an object unreachable and `Cleanup` the cleanup it
queued; between them, and in any order among objects, everything else may happen. `Close`
is taken whole, because `Conn` shows that it waits for the calls under the lock; the DB
has the same lock. A Stmt and a Rows have none and are closed by the goroutine that uses
them (rows.go:20-21), which is an assumption on the program.

Left out: which of Connect, Path or InMemory a call on a DB is, and which of the many a
call on a Conn is, beyond what it may make; the loader's handle, which is `Loader`'s.

### SqlDriver, state and code

The connector is `done`, `db` and `err`, as in the code; `opened` counts how often it
opened. A connection is a slot of the pool (`slot`), the engine's connection behind it
(`live`), whether that is in a transaction (`etx`), and `conn.tx` (`dtx`: a Tx is
remembered). A caller walks

    idle -> grab -> reset -> use -> (intx) -> put -> idle      (one from the pool)
                 -> dial -> connect -> use                     (a new one)

`Database` is `connector.database`, `Connected`, `ConnectFails` and `ConnectPanics` are the
rest of `connector.Connect`; the two are apart because nothing holds the pool's lock from
one to the other. `ResetSession`, `IsValid` (in `Put`), `Begun`, `EndTx`, `Bad` and `Lose`
(`conn.Close`) are the functions of those names. `Exec` is a `DB.Exec`: run in the pool's
retries. `RawBegin` and `RawClose` are what `sql.Conn.Raw` allows, through the driver's own
BeginTx and through `Underlying`, and `StmtClosed` a prepared statement that finds its
connection closed that way, the one failure `bad` turns into ErrBadConn. A statement's text
may begin or end a transaction, in which case `etx` and `dtx` part.

Of `database/sql` the model has what the driver depends on: one borrower at a time,
ResetSession when a connection is lent again, IsValid when it comes back, ErrBadConn retried
twice on what the pool has and then on a new connection, Close closing the idle connections
and then the connector, lent ones as they come back. Left out of it: the limit on idle
connections and their age, which drop connections that could have stayed, and statements
prepared on the sql.DB, which it prepares again on every connection.

A call is one step here, because the caller has the connection to itself; what happens
inside is `Conn`'s subject. An engine that fails a commit may leave its transaction open
here, as in `Conn`, and IsValid is there for that.

### Cursor, state and code

A `Rows` belongs to one goroutine, so a call is a step; what is interleaved is the
caller's own code, which runs between the turns of a loop over All or Iter and may do to
the rows whatever it likes. `i` and `n` are the cursor and the count (`Rows.i`, `Rows.n`),
`h` is the handle (open, closed, or given away, which sets the count and the cursor to zero),
`err` what `note` keeps. A cell is its row and column, and whether the engine will read it
and it fits its destination; both are chosen at the start. `dest` says of every
destination which row it holds, which is what makes a half-written Scan visible.

`Moved` is `Next`: it looks at the count alone. `Scan` is `Row.Scan`, at the cursor or by
RowAt; `Read` the other reads of a cell (Value, Values cell by cell, Type, and the driver's
column types, which read the first row); `DriverNext` the driver's Next; `Turn` one turn
of All, Iter or Collect, which are one loop in the code as here. `StartCollect` computes
the capacity of Collect's slice, and `panicked` is what `make` does with a negative one.

Left out: what the values are (`Values`), the columnar slices and who keeps the result
alive (`Lifecycle`), notices.

### Loader, state and code

A goroutine's call walks the same `pc` as in `Conn`, without a watcher. `h` is `Loader.h`,
`live` the engine's loader, `claim` who is inside it. The engine's side is `stage` (its
calls have an order: the table, then columns and edges, then Finish, after which every call
is refused), `taken` (the columns it has copied) and the path: `file` is absent, a database
with no rows (what NewLoader leaves at once), or full, with `stored` in it. `accepted` and
`loaded` remember what answered nil, which is what the program believes.

All column methods are one action, `Call`, with the name of the column: they differ in the
array they hand over and in nothing else (`column`, `temporal`, `counts` and `Strings` take
the same lock and test the same handle), an empty column included, which goes to the engine
as a null array. A refusal in Go before the
lock, of an edge list with two lengths or a context that is over, is `Refuse`; the one `Strings`
answers when the C heap is out of memory is left out. The handle
is a variable of the model from load to load: a new Loader is made when the last is closed,
dropped, or went with its process (`Crash`, at any step, also inside Finish), and
`RemovePath` is the program clearing the path for a retry.

### Values, state and code

`value`, `parts`, `record`, `scan`, `integer`, `approximate`, `scanTemporal`, `scanNull` and
`bind` are the functions of those names. The state that makes them more than functions is
the scratch (`scratch.go`): one set of out-parameters per result, written by every accessor
and shared by a composite with what is inside it, so each of them takes a scratch and
leaves another, and a cell read after others must not depend on them. An integer is as
wide as `Width` says; five bits stand for int64, and four, three and two for the narrower
types, so that every edge of every width is among the inputs. Text, octets and floats are
opaque, the nearest float to a number is the number marked as a float.

The cells are a sequence, and what is inside a list, a path or a record is given by its place
in it, which is before the composite's: a cell cannot be inside itself (`CellsAssumption`). So
the recursion of value.go over a cell is a function, `value`, over the places, each cell read
by the functions that read those inside it; `Reading` is the switch of value.go, `InOrder` the
loops of `parts` and `record`, which thread the scratch and stop at the first error.

The meaning of a cell (`Means`) and of a Go value (`Stands`) are written down separately,
without scratch or width, and are what the properties compare with.

Left out: the digits of a decimal as text, rounding, a destination that is nil, and
pointers nested deeper than two, which is one recursion.

### Spelling and Encoding, state and code

They have no state; `done` is the last thing done, so that TLC enumerates the inputs. A
text is its fields: a date is three numbers, a fraction its digits and how many there are, a
duration a sign and its fields before and after the T in the order they are written. What
the parsers do to those fields is modelled (ranges, the calendar that rolls over, halves,
units, which fields may have a fraction, sign and overflow); splitting the characters is
not. Functions keep their names: `dateDays`, `clockNanos`, `stampNanos`, `splitOffset`,
`parseDuration`, `showNanos` and so on in `Spelling`; `Typed`, `Payload`, `scalar`, `walk`,
`Show`, `Cell`, `Same` in `Encoding`. The calendar of package time is external and written from its
definition. The lengths of the units are constants: with seconds of 10 units, 4 seconds to
a minute, 4 minutes to an hour, 3 hours to a day and 13 bits, the whole range of an int64
is some eight days each way, and both its ends are among the inputs.

The values that come back (`Returned`) and the spellings a case may hold (`Written`) are
sequences, and what is inside a list, a walk or a record is given by its place, which is
before the composite's, as with the cells of `Values`. The recursions of values.go are
functions over those places: `Typed` reads each spelling with what those under it were read
as, `Same` goes over pairs of places, and `Encoded` and `Shown` are what `Cell` and `Show`
make at each place. `ReturnedAssumption` and `WrittenAssumption` say of what kinds the
values and the texts are (a path that comes back alternates nodes and relationships, an
offset is within 18 hours, a text has the fields of its type), and nothing of their sizes.

A float is its sign and its size, which is a name. `Single` gives, for each size that is no
float32, the one it rounds to, infinity among them; that rounding is done once
(`SingleAssumption`) is the only thing the proofs know of it. `parseSingle` is the FLOAT32 of
`scalar`. The row of a node or an edge is a number the text may write with zeros in front;
`nodeAt` and `edgeAt` refuse a row past 64 bits (`Rows`) and a name that is empty.

Left out: how a float is written in digits, the escapes of a string, and the splitting of a
node's or an edge's text at its last `#` and its arrow, digits included.

### CorpusRun, state and code

`pc` is the place in `runCase` and, after it, in `Run`: make, load, open, connect, setup,
query, rows, export, then the deferred closes (`close`), `remove`, `removeLog`, `report`.
Every `return ran(...)` of the code is a `ran(...)` here, from wherever it happens, with the
closes still to come. `files` is what is at each path: whether there is a database, its
rows and its log. `open` are the named connections, main first, each with its transaction:
the marks written in it. The engine may answer a statement with what the connection sees or
with any refusal; `said` remembers the answers and `mine` what this run of the case wrote,
which is what the properties compare with. `Kill` ends the runner at any step and starts it
again in the same directory, which `-work` allows. Either remove may be refused by the
system, an error the code discards; `torn` are the paths where one was, or where a kill came
between the two.

Left out: reading the case files, the wording of a report, and the values, which are
`Encoding`'s: a row is a mark here and is equal or not.

## Runs

`ConnShared` is about the lock: three goroutines, one Tx to hand out and statements that spell no
transaction, which touches neither lock nor interrupt. `ConnOwned` is about the turns: two
goroutines, two Txs and the texts. Neither has symmetry: the goroutines do different things.
`Duplicate`, `InTransaction` and `RowsRead` take the steps of `TableName` and `Interrupt` and are in
no instance; the theorems are about all of them.

| Run | Instance | Shows |
|---|---|---|
| `ConnShared` | three goroutines on one connection against its rule, two closing it, one interrupting, fair | `NoUseAfterFree`, `WatcherContained`, `OneEnder` and the refinement of `Handle` do not depend on the rule; an interrupt that arrives stops its statement; every call returns |
| `ConnOwned` | two goroutines taking turns on a connection and two Txs, one interrupting and closing at any time; any statement may start or end a transaction in its text, the engine may refuse to end one | with the rule kept: `NoOrphanTransaction`, `TxStatementsInside`, `FlagAgrees`; the table name is still lent when it is copied; a statement is stopped only by its own context or by Interrupt, and then its error says so |
| `ConnText` | one goroutine in a transaction whose statements may end it | violation: `ErrDoneOnceEnded`, a Tx outlives the transaction its text ended |
| `ConnLostCancel` | one goroutine querying, fair | violation: a cancellation is lost |
| `Lifecycle` | two goroutines, a DB, two connections, a statement and a result, under symmetry of goroutines and of connections | `FreedOnce`, `ReachableStaysOpen`, `NothingLeaks` and the refinement of `Handle` by every object |
| `LifecycleLent` | one goroutine and one object of each kind | violation: what a Rows lends is freed under its reader |
| `SqlDriver` | two callers, a pool of two connections, a Close at any moment | `NoInheritedTransaction`, `RunsOnce`, `OneOpen`, `NothingLeft` |
| `Cursor` | two rows of two columns, up to two cells of them unfit or broken, every call in every order, fair turns | `NoTornRow`: a nil Err means whole destinations; `CollectsTheRest`; `IterationEnds`: every loop ends, whatever its body does |
| `CursorPanics` | one row, one column | violation: Collect after the end panics |
| `Loader` | three goroutines: one loads, one adds columns and closes, one closes; two columns, fair | `AllOrNothing`, `FinishedStays`, `NoUseAfterFree`, `EveryCallReturns`, over any number of crashes and retries |
| `Values` | two cells of 48, one after the other, into 63 destinations or as values; 506 parameters; 155 values shown and compared pairwise; 287 spellings read | `ReadsWhatIsThere`, `ScanKeepsTheValue`, `BoundReadsBack`, `ReportsReadBack`, `SameIffShownAlike`, `ReadsAsWritten` |
| `CorpusRun` | three cases, two at one path, every answer of the engine, two kills | `OwnDatabase`, `VerdictIsEarned`, `ClosedInOrder`, `LeavesOnlyFailures` |

Bounds of `Lifecycle`. Objects are not reused, so the number of each kind bounds a
behaviour. Two goroutines are a call and a close, or two calls on one connection; two
connections are one from Connect and one from Duplicate, or a statement's connection and
another. One result is enough: results do not refer to each other.

Bounds of `Conn`. Three goroutines are a call, the call it disturbs and a closer; where calls take
turns, two are the call and whatever comes at any time, or the next to have its turn. The Txs bound
the number of begins: one is enough for the swap and the refusals; two let a Tx whose
transaction a text ended meet the transaction of another. Nothing else is bounded:
goroutines call again for ever. The theorems are for any number of all of them, and any texts.

Bounds of `SqlDriver`. Two callers are one borrowing while another connects, returns or
closes; two connections are enough for a retry to meet a second stale one and then to need
a new one. The calls a caller makes are not bounded.

Bounds of `Cursor`. Two rows and two columns have a first and a last of both, a cell before
and one after a failure, and a Collect that starts before, between or after rows. Two
faulty cells are one failure and a later one that `note` must not keep. Indexes a caller
may pass reach one past either end.

Bounds of `Loader`. One goroutine in the engine, one refused with Concurrent and one closing
need three; two columns let one be accepted and the other refused. Loads, crashes and retries are
not bounded.

Bounds of `Values`. Two cells of one result are enough for what the first left in the scratch
to be seen by the second; cells are nested two deep, which is a composite's item that is a
composite. Integers take both sides of the edge of every width; every kind of
temporal, every Go type as a destination, plain, named and behind a pointer. In
the corpus part, dates are around the ends of February, of years, of the four digits and the
century rule; stamps, clocks and durations both sides of every unit and both ends of the range.

Bounds of `CorpusRun`. Three cases: one that meets a path another used, one with a second
connection in a transaction, one with a load, a condition or an export. The second kill lets a
runner be killed in the case that is redone after the first.

Deadlock is checked in every run of `Conn` and in those of `Loader` and `Values`: a goroutine can always call again, so a state
without a step would be one where every goroutine waits. It is not in those of `Lifecycle`:
a program that made all its objects and dropped them has nothing left to do. Nor in those of
`SqlDriver` and `Cursor`, where a closed sql.DB and a panic are the end, nor in `CorpusRun`,
which is over after the last case.

Fairness (`FairSpec`). Weak fairness of a goroutine's own steps and of the watchers is the
Go scheduler. Weak fairness of `Stop` is the engine's promise that an interrupted
statement stops at the next chunk. Weak fairness of `FinishShort` says that the calls
which run no query return. Strong fairness of `CloseAnnounce` is the mutex inside RWMutex,
which hands itself to a waiter that starves. A statement nobody interrupts is given no
fairness: it may run for ever, and `EveryCallReturns` therefore assumes only that the
connection is released again and again. In `Loader` the steps of a goroutine, its engine
calls included, are weakly fair, because a load's calls copy or write and run no statement;
the lock is as above. In `Cursor` the turns of a loop are weakly fair: its body is finite
code. Nothing else there is, so that `IterationEnds` is not helped by a Close or a Break.

## Findings

Each is a run TLC finds violated, with the comment the code disagrees with.

1. `ConnText`: a COMMIT or ROLLBACK sent as text through a Tx ends its transaction and leaves
   the Tx open, so that what is spelled through it next runs outside any transaction, or in one
   begun since (tx.go:88 against tx.go:83-86). Asking `zu_conn_in_transaction` would not tell
   whose transaction it is; a sentence in the comment is the least that would help.
2. `ConnLostCancel`: cancelling a context does not always stop the statement (conn.go:162
   against zu.go:29-33). The window is between `watch` and the engine starting the
   statement; the watcher interrupts once and is then gone.
3. `LifecycleLent`: a slice of a column, and the text GQLStatus copies, are valid until
   Rows.Close or until the Rows is collected, whichever is first (rows.go:321, rows.go:154
   against rows.go:319-322). `runtime.KeepAlive` in GQLStatus, and a sentence in the
   comment, would close the gap.
4. `CursorPanics`: Collect on rows already read to their end panics, `make` being asked for a
   capacity of -1 (collect.go:33). A maximum with 0 would make it answer no rows, as Iter does.

## Observations

Met while modelling; no run is kept for them.

- A call the engine refuses with Concurrent has a watcher too, whose interrupt stops the
  statement of the goroutine that has the connection (conn.go:100). And a rollback that is
  refused that way has spent its Tx and leaves the engine in the transaction (tx.go:173). Both
  take two goroutines on one connection, which conn.go:20-21 forbids and says is harmless; on
  a connection used in turn, `ConnOwned` shows that neither happens.
- `Conn.tx` says that there is "a transaction this binding opened" (conn.go:34-35). After a COMMIT in a
  statement's text it is still set, and after a commit the engine refuses and stays inside it is
  cleared (tx.go:189), with the Tx spent: then only another ROLLBACK as text, or the close, ends
  the transaction. `FlagAgrees` excepts those two and shows there is no third.
- An Interrupt made after a Close waits for the statement it should stop: the pending Close
  holds new readers back (conn.go:233). `EveryCallReturns` shows that it returns when
  statements do.
- sql.DB.Close does not wait for a caller about to connect. A connector that was used and then
  closed has `done` set and no error, answers (nil, nil), and Connect panics on it
  (zusql.go:247); one closed before its first connection opens the database after its Close
  (zusql.go:265). `ConnectPanics` of `SqlDriver` is that step. A flag set by Close and tested
  in `database` would end both.
- ArrowStream refuses a nil stream and a negative batch without closing the rows (arrow.go:46-54),
  where arrow.go:37-39 says they are closed whatever it answers. The failures of the columnar
  readers are not kept in Err.
- Scan with a nil destination panics in `reflect.TypeOf(dest).String()` before it can say that a
  destination has to be a non-nil pointer (scan.go:331); a null goes into a slice or a map too
  (scan.go:399-401 names two pointers); a float too large for a float32 becomes infinite.
- Binding a time.Time outside what UnixNano reaches binds another instant, and the seconds of
  its offset are dropped (stmt.go:162). `BoundReadsBack` says exactly so.
- parseDuration takes `P1M0D` and `P0M1D`, mixed durations one half of which is nothing; a stamp
  written past 2262 wraps without an error; years past 9999, which showDate writes with five
  digits, and the lowest duration do not read back. ParseDecimal takes `.-5`.
- Two cases whose suite and name join to one path (`a-b`, `c` and `a`, `b-c`) do not disturb
  each other unless the first failed: then the second cannot make its database and fails. A
  runner killed after removing a database and before its log, or one whose remove the system
  refuses, leaves a log for the next run of the case to adopt or a database it cannot make
  again: the gap `OwnDatabase` and `LeavesOnlyFailures` except; and with `-work` a case that failed
  fails again, because its database is still there.

## Proofs

`ConnProofs` proves, for every set of goroutines and whatever each of them calls, with
the sharing rule or without, whatever the statements spell, from the assumptions
`NoOneAssumption`, `NoTxAssumption`, `ByTextAssumption`, `MayAssumption`, `TextsAssumption` and
`ExclusiveAssumption` on the constants:

- `TypeCorrect`: `Spec => []TypeOK`;
- `HandleSafe`: `Spec => []NoUseAfterFree`;
- `WatchersUnderTheLock`: `Spec => []WatcherContained`.

They follow from the invariant `IInv`. None of the three is inductive by itself: that a
call inside the engine has a connection depends on the closer having waited for it, so
`IInv` adds who holds the lock at which `pc` (`LockInv`: a goroutine between its RLock and
its RUnlock is a reader, a closer past the announcement is the writer, and one that freed
the connection found no readers; a goroutine never both holds the lock and queues for it),
that an open `Conn.h` means a connection except in the middle of a Close (`HandleInv`), and
that a watcher that has not finished belongs to a call under the lock (`WatchInv`).

It also proves `ConnImplementsHandle`, `Spec => TheHandle!Spec`, one case per action: it
leaves the handle alone, enters, leaves or frees it.

The second part of the module proves `OneEnds`, `Spec => []OneEnder`, with the sharing rule or without. Its
invariant `TxInv` says that the Tx a Begin is about to hand out is unborn and nobody else's,
and that past the swap the Tx of a Commit or Rollback is done.

The rest of it is about a program that keeps the rule of conn.go:20-25: `Exclusive`,
the constant of `Conn` that lets a call in only when no other has a turn, Close, Interrupt and
RowsRead excepted, which come at any time. Each theorem assumes it beside the assumptions above, and is for any
number of goroutines and Tx, as many closes and interrupts as there may be:

- `NoOrphans` (`NoOrphanTransaction`): a transaction Begin started has a Tx that can end it, or
  a call making or ending it, unless the engine refused to end it;
- `StatementsInside` (`TxStatementsInside`): a statement spelled through a Tx runs inside its
  transaction, unless a text ended that one;
- `FlagTells` (`FlagAgrees`): `Conn.tx` is set for a Tx that has not finished, whose transaction
  the engine is in or a text ended, and it is set inside a transaction Begin started, unless
  the engine refused to end that one;
- `NameLent` (`NameStillLent`): what TableName copies is still lent to it;
- `OwnInterrupts` (`OwnInterruptsOnly`) and `CauseTold` (`CauseReported`), action properties: no
  watcher stops another call's statement, and who stopped it is in the error.

None of them is inductive. `PlaceInv`, which holds without the rule, says which operation can
stand at which `pc`, and that the engine is claimed exactly by a goroutine inside it. On top
of it `TurnInv` follows the transaction through the calls that touch it: one goroutine has a
turn (`Alone`); a connection that is gone is in no transaction (`GoneInv`); a Begin that
succeeded left the engine in its Tx until it hands it out, an open Tx is the one the engine is in
unless it was cut or the connection went, a Commit or Rollback finds the engine in its Tx unless
one of the two, and leaves it in none unless the engine refused (`BlockInv`); an engine in a
transaction Begin started is in that of an open Tx, of such a call, or one it refused to end
(`KnownInv`); the flag is as `FlagAgrees` says but inside a Begin, a Commit, a Rollback or a Close
(`FlagInv`); and an interrupt a statement finds was raised while it ran (`InterruptInv`). A Close
needs no turn and is what makes most of those clauses disjunctions. `TextingInv` is the step all
statements share: text leaves `BlockInv`, `KnownInv` and `FlagInv` as they were, because what
it ends goes to `cut` and what it starts is no Tx's. Without `cut` in `BlockInv` a Commit of a
Tx that was cut would look like one that ends its own transaction, and it may end another's.

`LifecycleProofs` proves, for any number of goroutines and objects and from
`KindsAssumption` (an object has one kind), `FreesOnce` (`[]FreedOnce`), `ReachableIsOpen`
(`[]ReachableStaysOpen`), `LeakFree` (`[]NothingLeaks`) and `TypeCorrect`. That a handle is
freed once is not inductive: a Close would free twice what a cleanup freed before it, and
that it cannot is because Close needs a variable and the collector needs there to be none.
The invariant therefore says that the live handles are exactly those whose cleanup is still
to come (`ArmedInv`), that a reachable open object's cleanup has not been queued
(`KeptInv`), that nothing refers to a handle not made yet (`FreshInv`), that a call's
receiver is open (`CallInv`) and that a Stmt or a Rows is used by one goroutine
(`AloneInv`). The lemma the proof turns on is that no step but making an object makes
anything reachable (`ReachableShrinks`).

`LifecycleImplementsHandles`, in the same module: every step of `Lifecycle` is to every object a
step of `Handle` or none.

`SqlDriverProofs` proves, for any number of callers and connections and from
`NoConnAssumption`, `NothingInherited` (`NoInheritedTransaction`, an action property),
`RunsAtMostOnce`, `OpensOnce`, `ClosesEverything` (`[]NothingLeft`) and `TypeCorrect`. The
invariant adds who has which connection (`BorrowInv`: every lent one has one borrower), that
what is not lent is in no transaction and what the pool gave up is closed (`CleanInv`), that
a call still looking for its connection has not run (`RanInv`), and that nothing was opened
before `done` (`OpenInv`).

`CursorProofs` proves, for results of any size with any faults and from `TotalAssumption`,
`WidthAssumption`, `FaultyAssumption` and `NoRowAssumption`, `ErrIsABackstop` (`[]NoTornRow`),
`CollectIsComplete` (`CollectsTheRest`) and `TypeCorrect`. While Collect runs, what it has
appended is the rows from where it started to the cursor, and all rows are still there: that is
the invariant (`CollectInv`), and it is inductive because a Collect runs none of the caller's
code. For
`NoTornRow` the type invariant is enough: each Scan either notes or writes every destination.

`LoaderProofs` proves, for any number of goroutines and columns and from `NoOneAssumption`,
`MayAssumption` and `NoNameAssumption`, `FreedUnused` (`[]NoUseAfterFree`), `HappenedOrNot`
(`[]AllOrNothing`), `FinishedKept` (`FinishedStays`) and `TypeCorrect`. `AllOrNothing` is not
inductive: the invariant adds who holds the lock at which `pc`, as in `Conn`, that a column about
to answer nil has been taken, that what a loader has taken is in a full file of its own, and
that a finish about to answer nil has filled it.

`CorpusRunProofs` proves, for any cases at any paths, any answers of the engine and any number of
kills, from `CasesAssumption` (there is a case, and every one is a record of the kind the reader
makes), `OwnData` (`[]OwnDatabase`), `Earned` (`[]VerdictIsEarned`), `ClosesInOrder`
(`[]ClosedInOrder`) and `OnlyFailuresLeft` (`[]LeavesOnlyFailures`). The invariant adds what the
runner holds at each `pc` (`HeldInv`); that a path without a database has no rows, and no log
but one being removed, or torn from its database by a kill or a refusal (`FilesInv`); how far the answers in
`said` go, and that those before the one being asked for were ok (`SaidInv`), without which a
verdict given at the end says nothing of the setup; and that what is at the path of a case
that is done has a failed case to answer for it, or could not be removed (`LeftInv`).

`EncodingProofs` proves the three properties of `Encoding` as the run states them, for values and
spellings nested to any depth, units of any length and integers of any width. From what the parts
of a temporal value are:

- `CalendarOnly`: three numbers read as a date exactly when they are one, and it is shown as
  they were. The proof is that each day lies in one year and one month (`YearOf`,
  `MonthOf`, and the two uniqueness lemmas), that the years searched by the calendar's
  CHOOSE contain it (`YearBounds`), and that the month table agrees with the lengths of the
  months (`MonthLengths`);
- `DateReadsBack`, `TimeReadsBack`, `ZonedTimeReadsBack`, `StampReadsBack`, `ZonedReadsBack`: what a
  report shows of each temporal value reads back as that value. `ZonedReadsBack` includes the
  wall clocks that overflow: the way there and back is on one circle of 2^64 (`Turn`);
- `ClockShownAgain`: the other way round, for a clock with any fraction;
- `MonthsReadBack`, `NanosReadBack`: a duration reads back from its fields, those that are nothing
  left out. The sum of the fields is a fold, which is the last of its partial sums
  (`SummedUpTo`); a sum over those kept is the sum over all (`TotalOfKept`), at most three,
  because those left out are nothing;
- `BytesReadBack`: so do the octets of a byte string, from their halves (`Halves`).

And for what may hold others:

- `ShownReadsBack` (`[]ReportsReadBack`): what is shown of any value that has a spelling is read,
  as a value of the same kind that `Same` finds the same. `ReadsBack` is an induction over the
  places: what is inside a list or a walk was read back before it (`WalkedReadsBack`), and a
  walk still alternates when its nodes and edges were read from text. Then `BackIsSame`
  compares, place by place, what was read with what was shown;
- `SameAsShown` (`[]SameIffShownAlike`): by an induction over pairs of places, in which
  `AlikeAsSame` is one step of the two walks, `Labels` says that the type shown tells the type
  of the value, but for the two kinds of duration, and those never share a text because one
  reads back as months and the other as nanoseconds;
- `ReadAsItIsWritten` (`[]ReadsAsWritten`): `WrittenTyped` is what the spelling at a place is read
  as, whatever is under it; a scalar is then shown as it was written, type by type
  (`ShownAsWritten`), an integer is within its bounds and did not wrap (`NumberRead`), the rows of
  a node or an edge fit 64 bits (`NodeRead`, `EdgeRead`), and what changes when it is shown reads
  again as itself: a duration, whose fields may be another's (`DurationAgain`), and a FLOAT32,
  which is shown as the number it was rounded to (`SingleRead`, `SingleReadsAgain`).

`Pasteable`, a hypothesis of the first, leaves out what has no spelling: decimals, records, the
graph and the binding table, dates of other than four digits, and the lowest duration of each
kind, whose sign cannot be turned. That each function over the places is its
definition is proved, not assumed, by a function on every prefix of them: `SameIs` and
`PasteableIs` from `Recursion`, which is about any truth values that need only those of lower
rank, `AlikeIs` by telling apart what `Same` tells apart, `TypedIs` for what is read.

The assumptions are `SpellingAssumption` and `PowersAssumption` (10^d is positive,
10^d * 10^(n-d) = 10^n, 2^n = 2 * 2^(n-1): arithmetic the provers do not know),
`CalendarAssumption` (the counts stay within the years 0 to 9999, as those of 64 bits do, 1677
to 2262), `WidthsAssumption`, `SingleAssumption` (what a float is rounded to rounds to itself),
`NamedAssumption` (a table has a name: one without is named after its id), `TextsAssumption` (a
literal is a string), and the two on the values and the spellings. TLC evaluates them all.

`ValuesProofs` proves the three properties of `Values` as the run states them, for cells nested
to any depth, every destination, every value a program may bind and integers of any width:

- `CellReads` (`[]ReadsWhatIsThere`): whatever was read through the scratch before, and whatever
  is inside, a cell reads as what it means; it is an error exactly when it, or something inside
  it, is of a type the client does not know;
- `ScanKeeps` (`[]ScanKeepsTheValue`): what a scan puts in a destination is what the cell means,
  and an integer that fits, an any and the cell's own type are never refused;
- `BindReads` (`[]BoundReadsBack`): a parameter reads back as it was, a time.Time exactly when
  UnixNano reaches it and its offset is whole minutes, and those not sent are the ones listed.

The assumptions are `WidthAssumption` (no type is wider than int64, and uint64 is as wide),
`WidthPowers` and `LiteralsAssumption` (2^n is twice 2^(n-1); a literal is a string: facts the
provers do not have and TLC evaluates), and that cells, destinations and parameters are of the
kinds the code has (`CellsAssumption`, `DestsAssumption`, `ParamsAssumption`).

The three properties are about the last answer, and the invariant `ValuesIInv` adds what makes
any scratch as good as another: that it is one (`scratch \in Scratches`). The argument is in the
lemmas. `ValueReads`: reading a cell through any scratch answers what the cell means and leaves
a scratch; by induction over the places of the cells, a leaf by `LeafReads`, a composite by
`NestReads`, which needs that the reads of what is inside, each through the scratch the last one
left, answer what each means alone (`InOrderReads`), and that a field's name was taken before
its cell was read. `ScanScanned` and `BindReadBack` then have one lemma for each way a
destination is filled and for each kind of parameter. The induction is not one of the library's
theorems, which take an operator: it is `Induction`, over a set, which follows from the
well-founded order of the natural numbers; and that the recursive functions `value`, `Means` and
`Walk` are their definitions (`ValueIs`, `MeansIs`, `WalkIs`) is proved with it, by a function on
every prefix of their domain.

Only model-checked: the liveness properties (`EveryCallReturns`, `DeliveredInterruptStops` and
`IterationEnds`): the prover has no rule for fairness. Every invariant and every other action
property of the passing runs is stated by a theorem.

## Not modelled

- The contents of `error.go`: a status and a record become a Go error. The statuses other code
  acts on are in the modules that act on them.
- Parsing of characters: the connection string of `zusql`, the YAML subset and the case files of
  the corpus (`reader.go`, `cases.go`), the digits of a decimal. The cases reach `CorpusRun` as
  records and the values reach `Encoding` as fields.
- The fields of Config, copied into a struct of the engine; plan and block caches.
- `zuarrow`, `internal/arrowc` and `corpus/arrow.go`: the layout of Arrow arrays is the Arrow
  library's. The ownership of the stream is in `Lifecycle` and `Cursor`.
- `zulint`: rules over syntax trees, one function at a time and without state.
- `internal/source`, `internal/leakgate`, `scripts/mkproxy`: pure I/O.

## Plan

1. Done: `Conn`, `Lifecycle`, `SqlDriver`, `Cursor`, `Loader`, their runs and proofs.
2. Done: `Values`, `Spelling`, `Encoding` and `CorpusRun`, checked.
3. Done: the properties of `ConnOwned` under the sharing rule, `CorpusRun` for any cases, the dates,
   times and stamps of `Spelling`, proved.
4. Done: the three properties of `Values`, proved for cells of any depth.
5. Done: the three properties of `Encoding`, proved for values and spellings of any depth.
6. Next, the composition of `Cursor` with `Lifecycle`: a Rows that is looped over while its
   connection goes.

------------------------------- MODULE Values -------------------------------
(***************************************************************************)
(* How values cross between Go and the engine: a cell read into a Go value *)
(* (value.go), scanned into a destination (scan.go), and a Go value bound  *)
(* as a parameter (stmt.go).                                               *)
(*                                                                         *)
(* A cell is a record with its type and contents; what is inside a list, a *)
(* path or a record is told by its position among the cells, where it is   *)
(* before what it is in.  A Go value is a tuple, its type first.  The      *)
(* out-parameters of every accessor are the fields of one scratch, reused  *)
(* from cell to cell and shared by a composite and what is inside it       *)
(* (scratch.go), so each read takes a scratch and leaves another.          *)
(* Integers are as wide as Width says; text, octets and floats are opaque. *)
(***************************************************************************)
EXTENDS Integers, Sequences

CONSTANTS
    Width,       \* bits of each integer type of Go; an engine integer has int64's
    Day, Minute, \* nanoseconds of a day and seconds of a minute
    Cells,       \* the cells of the results that are read, in a sequence
    Dests,       \* the destinations they are scanned into
    Params,      \* the Go values that are bound, each with its type as a destination
    Reads        \* bound: how many cells are read of one result

Signed == {"int", "int8", "int16", "int32", "int64"}
Unsigned == {"uint", "uint8", "uint16", "uint32", "uint64"}
Word == Width["int64"]
Kinds == {"Date", "LocalTime", "ZonedTime", "LocalDateTime", "ZonedDateTime",
          "YearMonth", "time.Duration"}
ASSUME WidthAssumption ==
    /\ Width \in [Signed \union Unsigned -> Nat \ {0}]
    /\ \A t \in DOMAIN Width : Width[t] <= Word
    /\ Width["uint64"] = Word
    /\ Day \in Nat \ {0} /\ Minute \in Nat \ {0} /\ Reads \in Nat

\* What there is to know of the powers that are used: the provers do not.
ASSUME WidthPowers ==
    \A t \in DOMAIN Width :
        /\ 2 ^ (Width[t] - 1) \in Nat \ {0} /\ 2 ^ Width[t] = 2 * 2 ^ (Width[t] - 1)
        /\ 2 ^ (Width[t] - 1) <= 2 ^ (Word - 1)

\* Nor that a literal is a string.
ASSUME LiteralsAssumption == Kinds \union {"", "0"} \subseteq STRING

RangeOf(t) ==
    IF t \in Signed THEN -(2 ^ (Width[t] - 1)) .. 2 ^ (Width[t] - 1) - 1
    ELSE 0 .. 2 ^ Width[t] - 1
\* A conversion to a signed type of that width: two's complement.
Wrapped(n, bits) == ((n + 2 ^ (bits - 1)) % 2 ^ bits) - 2 ^ (bits - 1)

Nil == <<"nil">>

(***************************************************************************)
(* The engine's cells, and the scratch.                                    *)
(***************************************************************************)
Temps == [type : {"temporal"}, kind : STRING, n : RangeOf("int64"), offset : Int]
Leaves ==
    [type : {"null", "graph", "binding table", "of a later engine"}]
    \union [type : {"bool"}, n : {0, 1}] \union [type : {"int"}, n : RangeOf("int64")]
    \union [type : {"float"}, f : STRING] \union [type : {"string", "bytes"}, s : STRING]
    \union [type : {"decimal"}, unscaled : Int, scale : Int]
    \union [type : {"node"}, table : Nat, offset : Nat]
    \union [type : {"rel"}, table : Nat, src : Nat, dst : Nat]
    \union {t \in Temps : t.kind = "Date" => t.n \in RangeOf("int32")}
Nests(positions) ==
    [type : {"list", "path"}, items : Seq(positions)]
    \union [type : {"record"}, fields : Seq([name : STRING, item : positions])]
ASSUME CellsAssumption ==
    /\ Len(Cells) \in Nat /\ DOMAIN Cells = 1 .. Len(Cells)
    /\ \A k \in DOMAIN Cells : Cells[k] \in Leaves \union Nests(1 .. k - 1)

\* The positions of what is inside a cell, in order.
Inside(v) ==
    CASE v.type \in {"list", "path"} -> v.items
      [] v.type = "record" -> [i \in DOMAIN v.fields |-> v.fields[i].item]
      [] OTHER -> <<>>

Scratches ==
    [val : Nat, i64 : Int, f64 : STRING, i32 : Int, kind : STRING, off : Int, u32 : Nat,
     src : Nat, dst : Nat, txt : STRING, raw : STRING, hi : Int, lo : Int, scale : Int]

(***************************************************************************)
(* value.go: one cell as the Go value that means the same.                 *)
(***************************************************************************)

\* decimal.go decimal: the halves of a two's complement integer, joined.
decimal(hi, lo, scale) == <<"Decimal", hi * 2 ^ Word + lo, scale>>

\* temporal.go temporal: the count is days for a date and fits in an int32.
temporal(kind, count, offset) ==
    CASE kind = "Date" -> <<kind, Wrapped(count, Width["int32"])>>
      [] kind \in {"ZonedTime", "ZonedDateTime"} -> <<kind, count, offset>>
      [] OTHER -> <<kind, count>>

\* The accessors: each writes its out-parameters and no others, and that of a
\* decimal its two halves.
Accessed(sc, v) ==
    CASE v.type = "bool" -> [sc EXCEPT !.i32 = v.n]
      [] v.type = "int" -> [sc EXCEPT !.i64 = v.n]
      [] v.type = "float" -> [sc EXCEPT !.f64 = v.f]
      [] v.type = "string" -> [sc EXCEPT !.txt = v.s]
      [] v.type = "bytes" -> [sc EXCEPT !.raw = v.s]
      [] v.type = "decimal" -> [sc EXCEPT
            !.hi = v.unscaled \div 2 ^ Word, !.lo = v.unscaled % 2 ^ Word, !.scale = v.scale]
      [] v.type = "node" -> [sc EXCEPT !.u32 = v.table, !.src = v.offset]
      [] v.type = "rel" -> [sc EXCEPT !.u32 = v.table, !.src = v.src, !.dst = v.dst]
      [] v.type = "temporal" -> [sc EXCEPT !.kind = v.kind, !.i64 = v.n, !.off = v.offset]
      [] OTHER -> sc

\* What is inside a composite, in order, each read by its reader through the
\* scratch the one before it left; the first that cannot be read ends it.
Walk(sc, readers) ==
    LET done[i \in 0 .. Len(readers)] ==
            IF i = 0 THEN [sc |-> sc, ok |-> TRUE]
            ELSE LET before == done[i - 1]
                     read == readers[i][before.sc]
                 IN IF before.ok THEN [sc |-> read.sc, ok |-> read.ok] ELSE before
    IN done
InOrder(sc, readers) ==
    LET done == Walk(sc, readers)
        end == done[Len(readers)]
    IN [sc |-> end.sc, ok |-> end.ok,
        got |-> IF end.ok THEN [i \in 1 .. Len(readers) |-> readers[i][done[i - 1].sc].got]
                ELSE Nil]

\* inside is how each of the cells inside is read, a function of the scratch.
parts(sc, v, inside) ==
    InOrder(sc, [i \in 1 .. Len(v.items) |-> [s \in Scratches |->
                    inside[i][[s EXCEPT !.val = v.items[i]]]]])

\* The name of a field is copied out of the scratch before the field is read.
Field(s, field) == [s EXCEPT !.txt = field.name, !.val = field.item]
RecordNamedLate(sc, v, inside) ==
    InOrder(sc, [i \in 1 .. Len(v.fields) |-> [s \in Scratches |->
                    LET read == inside[i][Field(s, v.fields[i])]
                    IN [read EXCEPT !.got = <<read.sc.txt, @>>]]])
record(sc, v, inside) ==
    InOrder(sc, [i \in 1 .. Len(v.fields) |-> [s \in Scratches |->
                    LET name == Field(s, v.fields[i]).txt
                        read == inside[i][Field(s, v.fields[i])]
                    IN [read EXCEPT !.got = <<name, @>>]]])

Reading(sc, v, inside) ==
    LET s == Accessed(sc, v)
        Is(got) == [sc |-> s, ok |-> TRUE, got |-> got]
        Of(type, read) == [read EXCEPT !.got = <<type, @>>]
    IN
    CASE v.type = "null" -> Is(Nil)
      [] v.type = "bool" -> Is(<<"bool", s.i32 # 0>>)
      [] v.type = "int" -> Is(<<"int64", s.i64>>)
      [] v.type = "float" -> Is(<<"float64", s.f64>>)
      [] v.type = "string" -> Is(<<"string", s.txt>>)
      [] v.type = "bytes" -> Is(<<"[]byte", s.raw>>)
      [] v.type = "decimal" -> Is(decimal(s.hi, s.lo, s.scale))
      [] v.type = "node" -> Is(<<"Node", s.u32, s.src>>)
      [] v.type = "rel" -> Is(<<"Rel", s.u32, s.src, s.dst>>)
      [] v.type = "list" -> Of("[]any", parts(s, v, inside))
      [] v.type = "path" -> Of("Path", parts(s, v, inside))
      [] v.type = "record" -> Of("Record", record(s, v, inside))
      [] v.type = "temporal" /\ v.kind \in Kinds -> Is(temporal(s.kind, s.i64, s.off))
      [] v.type \in {"graph", "binding table"} -> Is(<<v.type>>)
      [] OTHER -> [Is(Nil) EXCEPT !.ok = FALSE]

value[k \in DOMAIN Cells] ==
    [sc \in Scratches |->
        LET v == Cells[k]
        IN Reading(sc, v, [i \in 1 .. Len(Inside(v)) |-> value[Inside(v)[i]]])]
InsideOf(k) == [i \in 1 .. Len(Inside(Cells[k])) |-> value[Inside(Cells[k])[i]]]

(***************************************************************************)
(* scan.go: one cell into one destination, a pointer to a Go variable of   *)
(* the type base behind depth more pointers.  named says that the type is  *)
(* one a program declared over base.  The answer is what was put there, or *)
(* why nothing was.                                                        *)
(***************************************************************************)
Refused(sc, why) == [sc |-> sc, ok |-> FALSE, why |-> why, put |-> Nil]
Given(sc, put) == [sc |-> sc, ok |-> TRUE, why |-> "", put |-> put]

Floats == {"float64", "float32"}
Composites == {"Node", "Rel", "Path", "[]any", "Record", "Decimal"}
Temporals == Kinds \union {"time.Time"}

Destinations ==
    [base : Signed \union Unsigned \union Floats \union Temporals \union Composites
                \union {"any", "bool", "string", "[]byte"},
     depth : Nat, named : BOOLEAN]
ASSUME DestsAssumption == Dests \subseteq Destinations

\* A destination that can hold the absence of a value is a pointer, an any,
\* a slice or a map.
scanNull(sc, dest) ==
    IF dest.depth > 0 \/ dest.base \in {"any", "[]byte", "[]any", "Path", "Record"}
    THEN Given(sc, Nil) ELSE Refused(sc, "null")

\* An integer is refused when it does not fit, never cut to the width.
IntegerCut(sc, v, base) ==
    LET s == Accessed(sc, v) IN
    IF v.type # "int" THEN Refused(sc, "mismatch")
    ELSE Given(s, <<base, Wrapped(s.i64, Width[base])>>)
integer(sc, v, base) ==
    LET s == Accessed(sc, v) IN
    IF v.type # "int" THEN Refused(sc, "mismatch")
    ELSE IF s.i64 \notin RangeOf(base) THEN Refused(s, "too wide")
    ELSE Given(s, <<base, s.i64>>)

\* A duration a program named is an integer like any other named one.
NamedDuration(sc, v) ==
    LET read == integer(sc, v, "int64")
    IN [read EXCEPT !.put = IF read.ok THEN <<"time.Duration", @[2]>> ELSE Nil]

\* An exact number widens into a float, which is the nearest to it.
approximate(sc, v, base) ==
    LET read == Reading(sc, v, <<>>) IN
    IF v.type \notin {"float", "int", "decimal"} THEN Refused(sc, "mismatch")
    ELSE Given(read.sc, IF v.type = "float" THEN <<base, read.got[2]>>
                        ELSE <<base, read.got>>)

\* The instants and the durations the two types of package time are made of.
Time(got) == CASE got[1] = "ZonedDateTime" -> <<"time.Time", got[2], got[3] * Minute>>
               [] got[1] = "LocalDateTime" -> <<"time.Time", got[2], 0>>
               [] got[1] = "Date" -> <<"time.Time", got[2] * Day, 0>>
scanTemporal(sc, v, base) ==
    LET read == Reading(sc, v, <<>>)
        got == read.got
    IN
    IF v.type # "temporal" THEN Refused(sc, "mismatch")
    ELSE IF ~read.ok THEN Refused(read.sc, "unknown")
    ELSE CASE got[1] = base -> Given(read.sc, got)
           [] base = "time.Time" /\ got[1] \in {"ZonedDateTime", "LocalDateTime", "Date"} ->
                 Given(read.sc, Time(got))
           [] base = "time.Duration" /\ got[1] = "LocalTime" -> Given(read.sc, <<base, got[2]>>)
           [] OTHER -> Refused(read.sc, "mismatch")

\* The cell type each of the other destinations reads.
CellOf == [b \in Composites \union {"bool", "string"} |->
             CASE b = "[]any" -> "list" [] b = "Node" -> "node" [] b = "Rel" -> "rel"
               [] b = "Path" -> "path" [] b = "Record" -> "record"
               [] b = "Decimal" -> "decimal" [] OTHER -> b]
Whole(sc, v, inside, accepted, base) ==
    LET read == Reading(sc, v, inside) IN
    IF v.type \notin accepted THEN Refused(sc, "mismatch")
    ELSE IF ~read.ok THEN Refused(read.sc, "unknown")
    ELSE Given(read.sc, IF base = "any" THEN read.got ELSE [read.got EXCEPT ![1] = base])

\* A named type is reflected over, which reaches the basic kinds alone.
scan(sc, v, inside, dest) ==
    LET base == dest.base
        Basic == base \in Signed \union Unsigned \union Floats \union {"bool", "string"}
    IN
    CASE v.type = "null" -> scanNull(sc, dest)
      [] v.type # "null" /\ base \in Signed \union Unsigned -> integer(sc, v, base)
      [] v.type # "null" /\ base \in Floats -> approximate(sc, v, base)
      [] v.type # "null" /\ base \in {"bool", "string"} -> Whole(sc, v, inside, {base}, base)
      [] v.type # "null" /\ base = "time.Duration" /\ dest.named -> NamedDuration(sc, v)
      [] v.type # "null" /\ dest.named /\ base # "time.Duration" /\ ~Basic ->
            Refused(sc, "mismatch")
      [] OTHER ->
            IF base = "any" THEN Whole(sc, v, inside, {v.type}, base)
            ELSE IF base \in Composites THEN Whole(sc, v, inside, {CellOf[base]}, base)
            ELSE IF base = "[]byte" THEN Whole(sc, v, inside, {"string", "bytes"}, base)
            ELSE scanTemporal(sc, v, base)

(***************************************************************************)
(* stmt.go: a Go value as the cell a parameter carries.                    *)
(***************************************************************************)
Bound(cell) == [ok |-> TRUE, cell |-> cell]
Unbindable == [ok |-> FALSE, cell |-> [type |-> "null"]]
Temporal(kind, count, offset) ==
    Bound([type |-> "temporal", kind |-> kind, n |-> count, offset |-> offset])

\* What a program may bind: a nil pointer or any, or a value of its type.
GoValues ==
    (UNION {{t} \X RangeOf(t) : t \in Signed \union Unsigned})
    \union ({"bool"} \X BOOLEAN) \union ((Floats \union {"string", "[]byte"}) \X STRING)
    \union ({"Date"} \X RangeOf("int32"))
    \union ({"LocalTime", "LocalDateTime", "YearMonth", "time.Duration"} \X RangeOf("int64"))
    \union ({"ZonedTime", "ZonedDateTime"} \X RangeOf("int64") \X RangeOf("int32"))
    \union ({"time.Time"} \X Int \X RangeOf("int32"))
ASSUME ParamsAssumption ==
    \A p \in Params :
        /\ p.type \in Destinations
        /\ \/ p.is = Nil /\ (p.type.depth > 0 \/ p.type.base = "any")
           \/ p.is[1] = p.type.base /\ (p.is[1] \in Composites \/ p.is \in GoValues)

\* Go divides towards zero.
Quotient(n, d) == IF n >= 0 THEN n \div d ELSE -((-n) \div d)

\* An unsigned integer the engine has no integer for is refused.
BindCut(n) == Bound([type |-> "int", n |-> Wrapped(n, Word)])
BindInteger(n) ==
    IF n \in RangeOf("int64") THEN Bound([type |-> "int", n |-> n]) ELSE Unbindable

\* The value v has the type dest tells, and is bound as what is behind its
\* pointers; a nil pointer is a null.  A named type is bound as its kind.
bind(v, dest) ==
    CASE v = Nil -> Bound([type |-> "null"])
      [] v[1] \in Signed \union Unsigned -> BindInteger(v[2])
      [] v[1] = "time.Duration" /\ dest.named -> BindInteger(v[2])
      [] v[1] = "bool" -> Bound([type |-> "bool", n |-> IF v[2] THEN 1 ELSE 0])
      [] v[1] \in Floats -> Bound([type |-> "float", f |-> v[2]])
      [] v[1] = "string" -> Bound([type |-> "string", s |-> v[2]])
      [] v[1] = "[]byte" /\ ~dest.named -> Bound([type |-> "string", s |-> v[2]])
      [] v[1] = "time.Time" /\ ~dest.named ->
            Temporal("ZonedDateTime", Wrapped(v[2], Word),
                     Wrapped(Quotient(v[3], Minute), Width["int32"]))
      [] v[1] \in {"ZonedTime", "ZonedDateTime"} /\ ~dest.named -> Temporal(v[1], v[2], v[3])
      [] v[1] \in Kinds \ {"ZonedTime", "ZonedDateTime"} /\ ~dest.named ->
            Temporal(v[1], v[2], 0)
      [] OTHER -> Unbindable

(***************************************************************************)
(* A program that reads results, cell by cell, and binds parameters.  One  *)
(* scratch hangs off each result.                                          *)
(***************************************************************************)
VARIABLES
    scratch, \* of the result being read
    read,    \* how many of its cells were
    last     \* the last call: what it was given and what it answered

valueVars == <<scratch, read, last>>

Blank == [val |-> 0, i64 |-> 0, f64 |-> "0", i32 |-> 0, kind |-> "Date",
          off |-> 0, u32 |-> 0, src |-> 0, dst |-> 0, txt |-> "", raw |-> "",
          hi |-> 0, lo |-> 0, scale |-> 0]
Nothing == [op |-> "nothing"]

ValuesInit == scratch = Blank /\ read = 0 /\ last = Nothing

\* What was answered is the program's own, which goes on.
GoOn ==
    /\ last # Nothing /\ last' = Nothing
    /\ UNCHANGED <<scratch, read>>
NewRows ==
    /\ last = Nothing /\ read > 0
    /\ scratch' = Blank /\ read' = 0 /\ UNCHANGED last
Value(k) ==
    LET got == value[k][scratch] IN
    /\ scratch' = got.sc /\ read' = read + 1
    /\ last' = [op |-> "value", cell |-> k, ok |-> got.ok, got |-> got.got]
Scan(k, d) ==
    LET got == scan(scratch, Cells[k], InsideOf(k), d) IN
    /\ scratch' = got.sc /\ read' = read + 1
    /\ last' = [op |-> "scan", cell |-> k, dest |-> d, ok |-> got.ok, put |-> got.put]
Bind(p) ==
    LET bound == bind(p.is, p.type) IN
    /\ last' = [op |-> "bind", param |-> p, ok |-> bound.ok, cell |-> bound.cell]
    /\ UNCHANGED <<scratch, read>>

ValuesNext ==
    \/ GoOn \/ NewRows
    \/ last = Nothing /\ read < Reads
          /\ \E k \in DOMAIN Cells : Value(k) \/ \E d \in Dests : Scan(k, d)
    \/ last = Nothing /\ read = 0 /\ \E p \in Params : Bind(p)

ValuesSpec == ValuesInit /\ [][ValuesNext]_valueVars

(***************************************************************************)
(* Properties.  They are about what a cell means, which is said here with  *)
(* no scratch, and about the Go values that stand for the same thing.      *)
(***************************************************************************)
Known(v) == v.type # "of a later engine" /\ (v.type = "temporal" => v.kind \in Kinds)
Meaning(v, inside) ==
    LET Of(type) == <<type, [i \in 1 .. Len(inside) |-> inside[i].is]>> IN
    [ok |-> Known(v) /\ \A i \in 1 .. Len(inside) : inside[i].ok,
     is |->
        CASE v.type = "null" -> Nil
          [] v.type = "bool" -> <<"bool", v.n = 1>>
          [] v.type = "int" -> <<"int64", v.n>>
          [] v.type = "float" -> <<"float64", v.f>>
          [] v.type = "string" -> <<"string", v.s>>
          [] v.type = "bytes" -> <<"[]byte", v.s>>
          [] v.type = "decimal" -> <<"Decimal", v.unscaled, v.scale>>
          [] v.type = "node" -> <<"Node", v.table, v.offset>>
          [] v.type = "rel" -> <<"Rel", v.table, v.src, v.dst>>
          [] v.type = "list" -> Of("[]any")
          [] v.type = "path" -> Of("Path")
          [] v.type = "record" ->
                <<"Record", [i \in 1 .. Len(inside) |-> <<v.fields[i].name, inside[i].is>>]>>
          [] v.type = "temporal" ->
                IF v.kind \in {"ZonedTime", "ZonedDateTime"} THEN <<v.kind, v.n, v.offset>>
                ELSE <<v.kind, v.n>>
          [] OTHER -> <<v.type>>]
Means[k \in DOMAIN Cells] ==
    Meaning(Cells[k], [i \in 1 .. Len(Inside(Cells[k])) |-> Means[Inside(Cells[k])[i]]])

\* What a Go value stands for whatever its type: numbers for the integers,
\* octets for text, an instant, a length of time, or itself.
Stands(g) ==
    CASE g[1] \in Signed \union Unsigned -> <<"number", g[2]>>
      [] g[1] \in {"string", "[]byte"} -> <<"octets", g[2]>>
      [] g[1] = "time.Time" -> <<"instant", g[2]>>
      [] g[1] \in {"time.Duration", "LocalTime"} -> <<"nanos", g[2]>>
      [] OTHER -> g
Instant(g) == IF g[1] = "Date" THEN g[2] * Day ELSE g[2]

\* A cell is read as what it means, whatever was read through the scratch
\* before it and however deep what is inside it lies (scratch.go, value.go:
\* the name of a field is copied before the field is read); a cell of a type
\* this client does not know is an error, inside a composite as well.
ReadsWhatIsThere ==
    last.op = "value" =>
        /\ last.ok <=> Means[last.cell].ok
        /\ last.ok => last.got = Means[last.cell].is

\* A scan never changes a value without saying so (scan.go tooWide, scanNull):
\* what was put in the destination stands for what the cell means, the float
\* destinations apart, which take the nearest; and the destination of a
\* cell's own type, an any, and every integer type wide enough take it.
ScanKeepsTheValue ==
    last.op = "scan" =>
        LET v == Cells[last.cell]
            dest == last.dest
            means == Means[last.cell].is
            readable == Means[last.cell].ok
        IN
        /\ last.ok /\ dest.base \notin Floats =>
              /\ readable
              /\ IF dest.base = "time.Time" /\ v.type # "null"
                 THEN last.put[2] = Instant(means)
                 ELSE IF dest.base = "time.Duration" /\ v.type = "int" THEN last.put[2] = v.n
                 ELSE Stands(last.put) = Stands(means)
        /\ v.type = "null" /\ last.ok => dest.depth > 0 \/ dest.base \notin Kinds \union Signed
        /\ readable /\ v.type # "null" /\ ~dest.named =>
              /\ dest.base \in {"any", means[1]} => last.ok
              /\ v.type = "int" /\ dest.base \in Signed \union Unsigned =>
                    (last.ok <=> v.n \in RangeOf(dest.base))

\* A parameter reads back, into a destination of its own type, as the value
\* that was bound; the values that are not sent are composites and integers
\* past the engine's, and a time.Time is the one whose value may change: past
\* the years UnixNano reaches, and in the seconds of its offset.
BoundReadsBack ==
    last.op = "bind" =>
        LET v == last.param.is
            type == last.param.type
            back == scan(Blank, last.cell, <<>>, type)
        IN
        /\ last.ok <=> ~ \/ v[1] \in Composites
                         \/ type.named /\ v[1] \in (Temporals \union {"[]byte"}) \ {"time.Duration"}
                         \/ v[1] \in Unsigned /\ v[2] >= 2 ^ (Word - 1)
        /\ last.ok => back.ok /\
              (back.put = v <=> (v[1] = "time.Time" =>
                    v[2] \in RangeOf("int64") /\ v[3] % Minute = 0))
=============================================================================

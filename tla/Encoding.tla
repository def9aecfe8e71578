------------------------------ MODULE Encoding ------------------------------
(***************************************************************************)
(* The value encoding of the conformance corpus, corpus/values.go: what a  *)
(* `type` and a `value` spell (Typed, Payload), what a value reads as in a *)
(* failure report (Show), and whether two values are one (Same).           *)
(*                                                                         *)
(* A value is a tuple, its type first: a float is a sign and a magnitude,  *)
(* the digits of a decimal are a sequence that is empty for a nil one.  A  *)
(* spelling is a record: the type it names, whether the scalar is quoted,  *)
(* and the text.  What is inside a list, a walk or a record, and what is   *)
(* under the spelling of one, is told by its place in the sequence the     *)
(* composite is in, where it is before it.                                 *)
(***************************************************************************)
EXTENDS Spelling

CONSTANTS
    Widths,     \* bits of the integer types that are narrower than Bits
    Single,     \* for each magnitude that is no float32, the float32 nearest to it
    Named,      \* the name of each table, by its id
    Returned,   \* the values that come back from statements, in a sequence
    Written     \* the spellings a case may hold, in a sequence

ASSUME WidthsAssumption ==
    Widths \in [{"INT8", "INT16", "INT32", "UINT8", "UINT16", "UINT32"} -> 1 .. Bits - 1]

\* In 64 bits the stamps there are reach from 1677 to 2262.
ASSUME CalendarAssumption ==
    YearStart(0) <= Lowest \div nanosPerDay
    /\ (-Lowest - 1) \div nanosPerDay < YearStart(10000)

\* The provers do not know that a literal is a string.
ASSUME TextsAssumption == {"", "NaN"} \subseteq STRING

\* Too large a magnitude is nearest to "inf", too small a one to "0.0".
ASSUME SingleAssumption ==
    /\ DOMAIN Single \cap {"NaN", "beyond"} = {}
    /\ \A size \in DOMAIN Single : Single[size] \in STRING \ ({"NaN", "beyond"} \union DOMAIN Single)

\* A table without a name is named after its id, "#7".
ASSUME NamedAssumption == \A id \in DOMAIN Named : Named[id] \in STRING \ {""}

Rows == 0 .. 2 ^ Bits - 1
Alternates(types, node, edge) ==
    /\ Len(types) % 2 = 1
    /\ \A i \in DOMAIN types : types[i] = (IF i % 2 = 1 THEN node ELSE edge)

Scalars ==
    {<<"nil">>, <<"graph">>, <<"binding table">>} \union ({"bool"} \X BOOLEAN)
    \union ({"int64", "LocalDateTime", "YearMonth", "time.Duration"} \X Int64s)
    \union ({"float64"} \X BOOLEAN \X (STRING \ {"beyond"})) \union ({"string"} \X STRING)
    \union ({"[]byte"} \X Seq(0 .. 255))
    \union ({"Decimal"} \X ({<<>>} \union [1 .. 1 -> Int]) \X Int)
    \union ({"Date"} \X Int) \union ({"LocalTime"} \X Instants)
    \union ({"ZonedTime"} \X Instants \X Offsets) \union ({"ZonedDateTime"} \X Int64s \X Offsets)
    \union ({"Node"} \X (DOMAIN Named) \X Rows) \union ({"Rel"} \X (DOMAIN Named) \X Rows \X Rows)
Holds(v, places) ==
    \/ v \in {"[]any", "Path"} \X Seq(places)
    \/ /\ v[1] = "Record" /\ v = <<v[1], v[2]>>
       /\ DOMAIN v[2] \subseteq STRING /\ v[2] \in [DOMAIN v[2] -> places]
ASSUME ReturnedAssumption ==
    /\ Len(Returned) \in Nat /\ DOMAIN Returned = 1 .. Len(Returned)
    /\ \A k \in DOMAIN Returned :
          LET v == Returned[k] IN
          /\ v \in Scalars \/ Holds(v, 1 .. k - 1)
          /\ v[1] = "Path" =>
                Alternates([i \in DOMAIN v[2] |-> Returned[v[2][i]][1]], "Node", "Rel")

\* The fields of the texts: three numbers, a clock, the way from UTC.
Dates == [y : Nat, m : Nat, d : Nat]
Fractions == {NoFrac} \union
    {frac \in [digits : Nat, n : Nat] : frac.digits <= Digits => frac.n < 10 ^ frac.digits}
Clocks == [h : Nat, m : Nat, s : Nat, frac : Fractions]
Zones == {Zulu} \union [sign : {"+", "-"}, h : Nat, m : Nat]
Stamps == [date : Dates, clock : Clocks]
Fields == Seq([whole : Nat, unit : STRING, frac : Fractions])
Spelled(type, quoted, text) == [type |-> type, quoted |-> quoted, text |-> text]

(***************************************************************************)
(* Reading.                                                                *)
(***************************************************************************)
Quoted == {"INT64", "UINT64", "FLOAT32", "FLOAT64", "BYTES", "DATE", "LOCALTIME",
           "ZONEDTIME", "LOCALDATETIME", "ZONEDDATETIME", "DURATION", "NODE", "EDGE"}
Bare == {"NULL", "BOOL", "INT8", "INT16", "INT32", "UINT8", "UINT16", "UINT32",
         "STRING", "LIST", "PATH"}
Types == Quoted \union Bare
Spellings(places) ==
    LET Texts(types, texts) == [type : types, quoted : BOOLEAN, text : texts]
    IN
    Texts(STRING \ (Types \ {"NULL", "STRING"}), STRING) \union Texts({"BOOL"}, BOOLEAN)
    \union Texts({"INT8", "INT16", "INT32", "INT64", "UINT8", "UINT16", "UINT32", "UINT64"},
                 [n : Int, canonical : BOOLEAN])
    \union Texts({"FLOAT32", "FLOAT64"}, [exact : BOOLEAN, neg : BOOLEAN, size : STRING])
    \union Texts({"BYTES"}, Seq(0 .. 15))
    \union Texts({"DATE"}, Dates) \union Texts({"LOCALTIME"}, Clocks)
    \union Texts({"ZONEDTIME"}, [clock : Clocks, offset : Zones])
    \union Texts({"LOCALDATETIME"}, Stamps)
    \union Texts({"ZONEDDATETIME"}, [stamp : Stamps, offset : Zones])
    \union Texts({"DURATION"},
                 [sign : {"", "+", "-"}, day : Fields, dated : BOOLEAN, clock : Fields])
    \union Texts({"NODE"}, [table : STRING, offset : Int])
    \union Texts({"EDGE"}, [table : STRING, src : Int, dst : Int])
    \union Texts({"LIST", "PATH"}, Seq(places))
ASSUME WrittenAssumption ==
    /\ Len(Written) \in Nat /\ DOMAIN Written = 1 .. Len(Written)
    /\ \A k \in DOMAIN Written : Written[k] \in Spellings(1 .. k - 1)

bounds == [t \in DOMAIN Widths \union {"INT64", "UINT64"} |->
    CASE t = "INT64" -> Int64s
      [] t = "UINT64" -> 0 .. -Lowest - 1
      [] t \in {"INT8", "INT16", "INT32"} -> -(2 ^ (Widths[t] - 1)) .. 2 ^ (Widths[t] - 1) - 1
      [] OTHER -> 0 .. 2 ^ Widths[t] - 1]
\* A walk is nodes and edges alternating, a node at each end.
walk(s, inside) ==
    IF Alternates([i \in DOMAIN inside |-> inside[i].is[1]], "NodeAt", "EdgeAt")
    THEN Spells(<<"Walk", s.text>>) ELSE SpellsNone

\* An integer is written one way: the text is a number and whether it is that
\* one.  A float has a point or an exponent and is finite, or is spelled out; a
\* FLOAT32 is the double its nearest float32 is.  Half a byte is no byte string.
\* A row is digits, with no sign, and a uint64; its table has a name.
ReadInteger(ty, text) ==
    IF text.canonical /\ text.n \in Int64s /\ text.n \in bounds[ty]
    THEN Spells(<<"int64", Int64(text.n)>>) ELSE SpellsNone
parseFloat(text) ==
    IF text.exact /\ text.size # "beyond" THEN Spells(<<"float64", text.neg, text.size>>)
    ELSE SpellsNone
Rounded(size) == IF size \in DOMAIN Single THEN Single[size] ELSE size
parseSingle(text) ==
    LET f == parseFloat(text)
    IN IF f.ok THEN Spells(<<"float64", f.is[2], Rounded(f.is[3])>>) ELSE SpellsNone
fromHexits(nibbles) ==
    IF Len(nibbles) % 2 = 0
    THEN Spells(<<"[]byte", [i \in 1 .. Len(nibbles) \div 2 |->
                                16 * nibbles[2 * i - 1] + nibbles[2 * i]]>>)
    ELSE SpellsNone
nodeAt(text) ==
    IF text.table # "" /\ text.offset \in Rows
    THEN Spells(<<"NodeAt", text.table, text.offset>>) ELSE SpellsNone
edgeAt(text) ==
    IF text.table # "" /\ text.src \in Rows /\ text.dst \in Rows
    THEN Spells(<<"EdgeAt", text.table, text.src, text.dst>>) ELSE SpellsNone
scalar(ty, text) ==
    CASE ty = "BOOL" -> Spells(<<"bool", text>>)
      [] ty = "STRING" -> Spells(<<"string", text>>)
      [] ty = "BYTES" -> fromHexits(text)
      [] ty = "FLOAT32" -> parseSingle(text)
      [] ty = "FLOAT64" -> parseFloat(text)
      [] ty = "DATE" -> parseDate(text)
      [] ty = "LOCALTIME" -> parseLocalTime(text)
      [] ty = "ZONEDTIME" -> parseZonedTime(text)
      [] ty = "LOCALDATETIME" -> parseLocalDateTime(text)
      [] ty = "ZONEDDATETIME" -> parseZonedDateTime(text)
      [] ty = "DURATION" -> parseDuration(text)
      [] ty = "NODE" -> nodeAt(text)
      [] ty = "EDGE" -> edgeAt(text)
      [] OTHER -> ReadInteger(ty, text)

\* The one rule of the encoding comes before the text is looked at: a payload
\* is quoted where a bare one reads as something else, and not elsewhere.
QuotedAsItShould(s) ==
    IF s.type \in Quoted THEN s.quoted ELSE s.quoted => s.type = "STRING"
Under(s) == IF s.type \in {"LIST", "PATH"} THEN s.text ELSE <<>>
\* inside is what the spellings under it were read as.
Payload(s, inside) ==
    CASE s.type \notin Types -> SpellsNone
      [] s.type = "NULL" -> IF s.text = "" THEN Spells(<<"nil">>) ELSE SpellsNone
      [] s.type \in {"LIST", "PATH"} ->
            IF \E i \in DOMAIN inside : ~inside[i].ok THEN SpellsNone
            ELSE IF s.type = "LIST" THEN Spells(<<"[]any", s.text>>) ELSE walk(s, inside)
      [] OTHER -> IF QuotedAsItShould(s) THEN scalar(s.type, s.text) ELSE SpellsNone
Typed(spellings) ==
    LET typed[k \in DOMAIN spellings] ==
            LET under == Under(spellings[k])
            IN Payload(spellings[k], [i \in DOMAIN under |-> typed[under[i]]])
    IN typed

(***************************************************************************)
(* Writing, for a report.                                                  *)
(***************************************************************************)
unscaled(d) == IF d[2] = <<>> THEN 0 ELSE d[2][1]
showFloat(f) == [exact |-> TRUE, neg |-> f[2] /\ f[3] # "NaN", size |-> f[3]]
hexits(raw) == [i \in 1 .. 2 * Len(raw) |->
                   IF i % 2 = 1 THEN raw[(i + 1) \div 2] \div 16 ELSE raw[i \div 2] % 16]

\* What is inside is shown at its own place.
Show(v) ==
    LET Type == v[1] IN
    CASE Type = "nil" -> Spelled("NULL", FALSE, "")
      [] Type = "bool" -> Spelled("BOOL", FALSE, v[2])
      [] Type = "int64" -> Spelled("INT64", TRUE, [n |-> v[2], canonical |-> TRUE])
      [] Type = "float64" -> Spelled("FLOAT64", TRUE, showFloat(v))
      [] Type = "string" -> Spelled("STRING", TRUE, v[2])
      [] Type = "[]byte" -> Spelled("BYTES", TRUE, hexits(v[2]))
      [] Type = "Decimal" -> Spelled("DECIMAL", TRUE, <<unscaled(v), v[3]>>)
      [] Type = "Date" -> Spelled("DATE", TRUE, showDate(v[2]))
      [] Type = "LocalTime" -> Spelled("LOCALTIME", TRUE, showClock(v[2]))
      [] Type = "ZonedTime" -> Spelled("ZONEDTIME", TRUE,
            [clock |-> showClock(v[2]), offset |-> showOffset(v[3])])
      [] Type = "LocalDateTime" -> Spelled("LOCALDATETIME", TRUE, showStamp(v[2]))
      [] Type = "ZonedDateTime" -> Spelled("ZONEDDATETIME", TRUE, showZoned(v[2], v[3]))
      [] Type = "YearMonth" -> Spelled("DURATION", TRUE, showMonths(v[2]))
      [] Type = "time.Duration" -> Spelled("DURATION", TRUE, showNanos(v[2]))
      [] Type = "[]any" -> Spelled("LIST", FALSE, v[2])
      [] Type = "Walk" -> Spelled("PATH", FALSE, v[2])
      [] Type = "NodeAt" -> Spelled("NODE", TRUE, [table |-> v[2], offset |-> v[3]])
      [] Type = "EdgeAt" -> Spelled("EDGE", TRUE, [table |-> v[2], src |-> v[3], dst |-> v[4]])
      [] Type = "map" -> Spelled("RECORD", FALSE, v[2])
      [] OTHER -> Spelled(Type, FALSE, "")

\* A value that came back, in the shape a case writes: a graph value carries
\* the id of its table where a case writes the name.
Cell(v) ==
    CASE v[1] = "Node" -> <<"NodeAt", Named[v[2]], v[3]>>
      [] v[1] = "Rel" -> <<"EdgeAt", Named[v[2]], v[3], v[4]>>
      [] v[1] = "Path" -> <<"Walk", v[2]>>
      [] v[1] = "Record" -> <<"map", v[2]>>
      [] OTHER -> v

Encoded == [k \in DOMAIN Returned |-> Cell(Returned[k])]
Shown == [k \in DOMAIN Encoded |-> Show(Encoded[k])]

(***************************************************************************)
(* Comparing what a case wants with what came back: NaN is itself, zero    *)
(* has a sign, a decimal has a scale, a nil decimal is zero; everything    *)
(* else is the type and the contents.                                      *)
(***************************************************************************)
SameFloat(want, got) ==
    \/ want[3] = "NaN" /\ got[3] = "NaN"
    \/ want[2] = got[2] /\ want[3] = got[3] /\ want[3] # "NaN"
SameNumber(want, got) == unscaled(want) = unscaled(got)
SameDecimal(want, got) == want[3] = got[3] /\ unscaled(want) = unscaled(got)
Walked == {"[]any", "Walk", "map"}
Same(wants, gots) ==
    LET same[at \in (DOMAIN wants) \X (DOMAIN gots)] ==
            LET want == wants[at[1]]
                got == gots[at[2]]
            IN
            /\ want[1] = got[1]
            /\ want[1] = "float64" => SameFloat(want, got)
            /\ want[1] = "Decimal" => SameDecimal(want, got)
            /\ want[1] \in Walked =>
                  /\ DOMAIN want[2] = DOMAIN got[2]
                  /\ \A i \in DOMAIN want[2] : same[<<want[2][i], got[2][i]>>]
            /\ want[1] \notin {"float64", "Decimal"} \union Walked => want = got
    IN same

(***************************************************************************)
(* What a run does with them: it reads the spellings of a case, puts what  *)
(* came back in the shape of a case, compares, and reports.                *)
(***************************************************************************)
VARIABLE done \* the last thing done, and with which value or spelling

Idle == [op |-> "idle"]
EncodingInit == done = Idle
EncodingNext ==
    \/ done # Idle /\ done' = Idle
    \/ done = Idle /\ \E k \in DOMAIN Encoded :
           \/ done' = [op |-> "show", value |-> k, spelled |-> Shown[k]]
           \/ \E j \in DOMAIN Encoded :
                 done' = [op |-> "compare", want |-> j, got |-> k,
                          same |-> Same(Encoded, Encoded)[<<j, k>>]]
    \/ done = Idle /\ \E k \in DOMAIN Written :
           done' = [op |-> "read", spelling |-> k, read |-> Typed(Written)[k]]

EncodingSpec == EncodingInit /\ [][EncodingNext]_done

(***************************************************************************)
(* Properties.                                                             *)
(***************************************************************************)

\* The values a case has a spelling for: no decimal, no record, no year that
\* is not four digits, and no duration whose sign cannot be turned.
CalendarDays == DaysOf(0, 1, 1) .. DaysOf(9999, 12, 31)
Pasteable[k \in DOMAIN Encoded] ==
    LET v == Encoded[k] IN
    /\ v[1] \notin {"Decimal", "map", "graph", "binding table"}
    /\ v[1] = "Date" => v[2] \in CalendarDays
    /\ v[1] \in {"YearMonth", "time.Duration"} => v[2] # Lowest
    /\ v[1] \in {"[]any", "Walk"} => \A i \in DOMAIN v[2] : Pasteable[v[2][i]]

\* Two spellings a reader cannot tell apart.
Alike[at \in (DOMAIN Shown) \X (DOMAIN Shown)] ==
    LET s == Shown[at[1]]
        t == Shown[at[2]]
    IN
    /\ s.type = t.type
    /\ s.type \in {"LIST", "PATH", "RECORD"} =>
          /\ DOMAIN s.text = DOMAIN t.text
          /\ \A i \in DOMAIN s.text : Alike[<<s.text[i], t.text[i]>>]
    /\ s.type \notin {"LIST", "PATH", "RECORD"} => s.text = t.text

\* What a report shows can be pasted into a case (values.go:626, temporal.go:
\* 433, 447): read back, it is the value that was shown, of the same kind.
ReportsReadBack ==
    done.op = "show" /\ Pasteable[done.value] =>
        LET back == Typed([Shown EXCEPT ![done.value] = done.spelled])
        IN /\ back[done.value].ok
           /\ Same([k \in DOMAIN Encoded |-> back[k].is], Encoded)[<<done.value, done.value>>]

\* Two values are the same exactly when a report shows them alike, so that no
\* case fails on a row that reads as it wants, and none passes on one that
\* does not (values.go:535, 626).  The offset of a stamp past the end of the
\* range is the one thing a report may show wrong.
SameIffShownAlike ==
    done.op = "compare" => done.same = Alike[<<done.want, done.got>>]

\* A spelling is read as what is written or refused, and never as something it
\* resembles (values.go:32, temporal.go:101): shown again it is the same date,
\* the same time, the same number, apart from a zero offset, the zeros that
\* end a fraction, and a stamp past the end of the range, which wraps.  A
\* FLOAT32 is the one number that is shown as another, as the double its
\* nearest float32 is (values.go:463), and rounds once: pasted as a FLOAT32,
\* what is shown reads as the same value.  The fields of a duration are
\* another's when it is shown, and read as the same one, but for the lowest,
\* whose sign cannot be turned.  A row is a uint64, of a table with a name.
Canonical(s) ==
    LET Offset(o) == IF splitOffset(o).is = 0 THEN Zulu ELSE o
        Clock(c) == [c EXCEPT !.frac = showFraction(fraction(@))]
        Stamp(st) == [st EXCEPT !.clock = Clock(@)]
    IN
    CASE s.type = "LOCALTIME" -> Clock(s.text)
      [] s.type = "ZONEDTIME" -> [clock |-> Clock(s.text.clock), offset |-> Offset(s.text.offset)]
      [] s.type = "LOCALDATETIME" -> Stamp(s.text)
      [] s.type = "ZONEDDATETIME" -> [stamp |-> Stamp(s.text.stamp), offset |-> Offset(s.text.offset)]
      [] s.type = "FLOAT32" -> [s.text EXCEPT !.neg = @ /\ s.text.size # "NaN", !.size = Rounded(@)]
      [] s.type = "FLOAT64" -> [s.text EXCEPT !.neg = @ /\ s.text.size # "NaN"]
      [] OTHER -> s.text
Wraps(s) ==
    LET days == IF s.type = "LOCALDATETIME" THEN dateDays(s.text.date).is
                ELSE dateDays(s.text.stamp.date).is
    IN s.type \in {"LOCALDATETIME", "ZONEDDATETIME"}
           /\ ((days - 1) * nanosPerDay < Lowest \/ (days + 2) * nanosPerDay > -Lowest)
ReadsAsWritten ==
    done.op = "read" /\ done.read.ok =>
        LET s == Written[done.spelling]
            shown == Show(done.read.is)
        IN
        /\ s.type \notin {"DURATION", "LIST", "PATH"} /\ ~Wraps(s) => shown.text = Canonical(s)
        /\ s.type \in Quoted => s.quoted
        /\ s.type \in DOMAIN bounds => done.read.is[2] \in bounds[s.type]
        /\ s.type = "FLOAT32" /\ s.text.size # "NaN" =>
              parseSingle(shown.text) = Spells(done.read.is)
        /\ s.type = "NODE" => shown.text.offset \in Rows
        /\ s.type = "EDGE" => {shown.text.src, shown.text.dst} \subseteq Rows
        /\ s.type = "DURATION" /\ done.read.is[2] # Lowest =>
              parseDuration(shown.text) = Spells(done.read.is)
=============================================================================

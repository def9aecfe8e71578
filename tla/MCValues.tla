------------------------------ MODULE MCValues ------------------------------
(***************************************************************************)
(* Cells of every type, nested two deep; destinations of every type, named *)
(* and behind a pointer; parameters at the edges of every integer width;   *)
(* and, for the corpus, values and spellings at the edges of theirs.       *)
(***************************************************************************)
EXTENDS Values, Encoding

MCWidth == [t \in Signed \union Unsigned |->
               CASE t \in {"int8", "uint8"} -> 2 [] t \in {"int16", "uint16"} -> 3
                 [] t \in {"int32", "uint32"} -> 4 [] OTHER -> 5]

Engine(n) == [type |-> "int", n |-> n]
Str(s) == [type |-> "string", s |-> s]
Dec(n, scale) == [type |-> "decimal", unscaled |-> n, scale |-> scale]
At(kind, n, offset) == [type |-> "temporal", kind |-> kind, n |-> n, offset |-> offset]
List(items) == [type |-> "list", items |-> items]
Record(fields) == [type |-> "record", fields |-> fields]
Pair(name, item) == [name |-> name, item |-> item]

\* The integers on both sides of the edge of every width.
Edges == <<-16, -9, -8, -5, -4, -3, -2, -1, 0, 1, 2, 3, 4, 7, 8, 15>>

\* What is inside a composite is told by its place: 2 is a text, 5 what this
\* client does not know, 26 to 41 the integers, 42 and 46 composites.
MCCells ==
    << [type |-> "null"], Str("a"), Str("b"), [type |-> "bool", n |-> 1],
       [type |-> "of a later engine"], [type |-> "bool", n |-> 0],
       [type |-> "float", f |-> "1.5"], [type |-> "bytes", s |-> "b"],
       Dec(-1, 1), Dec(33, 0), [type |-> "node", table |-> 1, offset |-> 2],
       [type |-> "rel", table |-> 1, src |-> 2, dst |-> 3],
       [type |-> "graph"], [type |-> "binding table"],
       [type |-> "node", table |-> 1, offset |-> 0], [type |-> "rel", table |-> 2, src |-> 0, dst |-> 2],
       At("Date", 7, 0), At("Date", -8, 0), At("LocalTime", 3, 0), At("ZonedTime", 3, 1),
       At("LocalDateTime", 4, 0), At("ZonedDateTime", 4, -1), At("YearMonth", 2, 0),
       At("time.Duration", -3, 0), At("no kind", 1, 0) >>
    \o [i \in DOMAIN Edges |-> Engine(Edges[i])]
    \o << List(<<32, 2>>), List(<<30, 42, 31>>), List(<<30, 5, 31>>),
          [type |-> "path", items |-> <<15, 16, 11>>],
          Record(<<Pair("h", 3)>>), Record(<<Pair("f", 2), Pair("g", 46), Pair("k", 33)>>),
          Record(<<Pair("f", 5)>>) >>

To(base, depth, named) == [base |-> base, depth |-> depth, named |-> named]
MCBases == Signed \union Unsigned \union Floats \union Temporals \union Composites
               \union {"any", "bool", "string", "[]byte"}
MCDests == {To(b, 0, named) : b \in MCBases, named \in BOOLEAN}
               \union {To("int8", 1, FALSE), To("any", 1, FALSE), To("Date", 2, FALSE)}

MCBound ==
    UNION { {<<t, n>> : n \in RangeOf(t)} : t \in {"int8", "uint8", "int64", "uint", "uint64"} }
    \union { <<"bool", TRUE>>, <<"bool", FALSE>>, <<"float64", "1.5">>, <<"float32", "2.5">>,
             <<"string", "a">>, <<"[]byte", "b">>, <<"Date", 7>>, <<"LocalTime", 3>>,
             <<"ZonedTime", 3, 1>>, <<"LocalDateTime", -4>>, <<"ZonedDateTime", 4, -1>>,
             <<"YearMonth", 2>>, <<"time.Duration", -3>>, <<"time.Time", 5, 0>>,
             <<"time.Time", -16, -4>>, <<"time.Time", 16, 2>>, <<"time.Time", 3, 3>>,
             <<"time.Time", 3, -1>>, <<"Node", 1, 2>>, <<"Decimal", 1, 2>>,
             <<"[]any", <<>>>>, <<"Record", <<>>>> }

\* A value of its type, of a named one, and behind a pointer; and two nulls.
MCParams ==
    {[is |-> v, type |-> To(v[1], depth, named)] :
        v \in MCBound, depth \in {0, 1}, named \in BOOLEAN}
    \union {[is |-> Nil, type |-> To("any", 0, FALSE)], [is |-> Nil, type |-> To("int64", 1, FALSE)]}

\* The corpus.  A day is 480 nanoseconds here: 3 hours of 4 minutes of 4
\* seconds of 10; an int64 has 13 bits, which is eight days each way.
MCWidths == [t \in {"INT8", "INT16", "INT32", "UINT8", "UINT16", "UINT32"} |->
                CASE t \in {"INT8", "UINT8"} -> 3 [] t \in {"INT16", "UINT16"} -> 5 [] OTHER -> 8]

\* What rounding to a float32 makes of what is none.
MCSingle == [size \in {"0.1", "1e+39", "1e-50"} |->
                CASE size = "0.1" -> "0.10000000149011612" [] size = "1e+39" -> "inf" [] OTHER -> "0.0"]

\* Values: every day around the ends of February, of years and of the four
\* digits; times, stamps and durations across the units; the rest by example.
Of(type, ns) == [i \in DOMAIN ns |-> <<type, ns[i]>>]
DateEdges == << -719529, -719528, -719468, -1, 0, 1, 58, 59, 364, 365, 789, 11016, 11017,
                47540, 47541, 2932896, 2932897 >>
StampEdges == << -4096, -4095, -481, -480, -479, -1, 0, 1, 479, 480, 481, 4095 >>
DurationEdges == << -4096, -4095, -491, -490, -480, -41, -40, -10, -1, 0, 1, 9, 10, 11, 40, 41, 50,
                    160, 161, 170, 200, 201, 479, 480, 481, 490, 520, 640, 960, 4095 >>
MonthEdges == << -4096, -4095, -13, -12, -11, -1, 0, 1, 11, 12, 13, 24, 4095 >>
ClockEdges == << 0, 1, 9, 10, 39, 40, 41, 159, 160, 479 >>
ZonedTimes == [i \in DOMAIN ClockEdges |-> <<"ZonedTime", ClockEdges[i], (i % 5) - 2>>]
ZonedStamps == [i \in DOMAIN StampEdges |-> <<"ZonedDateTime", StampEdges[i], 3 * (i % 5) - 6>>]
N(table, row) == <<"Node", table, row>>
R(table, src, dst) == <<"Rel", table, src, dst>>
NameOf == [t \in {1, 2} |-> IF t = 1 THEN "person" ELSE "knows"]
\* 1, 2 and 4 make a walk; 6 to 8 are told apart by a sign; 10 is in 11 and 12.
MCReturned ==
    << N(1, 0), N(1, 1), N(2, 0), R(2, 0, 1), R(2, 1, 0), <<"int64", 1>>,
       <<"float64", TRUE, "0.0">>, <<"float64", FALSE, "0.0">>,
       <<"Path", <<1, 4, 2>>>>, <<"[]any", <<6, 7>>>>, <<"[]any", <<10, 9>>>>,
       <<"[]any", <<10, 1>>>>, <<"[]any", <<1, 4, 2>>>>, <<"[]any", <<>>>>, <<"[]any", <<6, 8>>>>,
       <<"Record", [f |-> 6, g |-> 1]>>, <<"Record", [f |-> 6, g |-> 2]>>, <<"Record", [f |-> 6]>>,
       <<"Record", [f |-> 6, g |-> 11]>>, <<"[]any", <<18>>>> >>
    \o Of("Date", DateEdges) \o Of("LocalTime", ClockEdges) \o ZonedTimes
    \o Of("LocalDateTime", StampEdges) \o ZonedStamps \o Of("YearMonth", MonthEdges)
    \o Of("time.Duration", DurationEdges) \o Of("int64", StampEdges)
    \o << <<"nil">>, <<"bool", TRUE>>, <<"bool", FALSE>>, <<"string", "a">>, <<"string", "b">>,
          <<"float64", TRUE, "1.5">>, <<"float64", FALSE, "1.5">>, <<"float64", FALSE, "NaN">>,
          <<"float64", TRUE, "NaN">>, <<"float64", FALSE, "inf">>, <<"[]byte", <<>>>>,
          <<"[]byte", <<0, 171>>>>, <<"[]byte", <<171>>>>, <<"Decimal", <<>>, 0>>,
          <<"Decimal", <<0>>, 0>>, <<"Decimal", <<12>>, 1>>, <<"Decimal", <<12>>, 2>>,
          <<"Decimal", <<-12>>, 1>>, <<"graph">> >>

\* Spellings: what the values are shown as, and what resembles one.
Q(type, text) == Spelled(type, TRUE, text)
Ymd(y, m, d) == [y |-> y, m |-> m, d |-> d]
Hms(h, m, s, digits, n) == [h |-> h, m |-> m, s |-> s, frac |-> [digits |-> digits, n |-> n]]
Noon == Hms(1, 2, 0, -1, 0)
Off(sign, h, m) == [sign |-> sign, h |-> h, m |-> m]
P(sign, day, dated, clock) == [sign |-> sign, day |-> day, dated |-> dated, clock |-> clock]
F(whole, unit, digits, n) == [whole |-> whole, unit |-> unit, frac |-> [digits |-> digits, n |-> n]]
Size(neg, size) == [exact |-> TRUE, neg |-> neg, size |-> size]
Plain(n) == [n |-> n, canonical |-> TRUE]
IntegerTypes == <<"INT8", "INT16", "INT32", "INT64", "UINT8", "UINT16", "UINT32", "UINT64">>
IntegerEdges == << -4097, -4096, -129, -128, -17, -16, -5, -4, -1, 0, 3, 4, 7, 8, 15, 16, 31, 32,
                   127, 128, 255, 256, 4095, 4096, 8191 >>
MCWritten ==
    << Q("NODE", [table |-> "person", offset |-> 1]),
       Q("EDGE", [table |-> "knows", src |-> 1, dst |-> 1]),
       Spelled("INT8", FALSE, Plain(1)), Q("INT8", Plain(1)), Spelled("NULL", FALSE, ""),
       Spelled("NULL", FALSE, "x"), Spelled("PATH", FALSE, <<1, 2, 1>>),
       Spelled("PATH", FALSE, <<1, 2>>), Spelled("PATH", FALSE, <<>>), Spelled("LIST", FALSE, <<>>),
       Spelled("LIST", FALSE, <<3, 5>>), Spelled("LIST", FALSE, <<4, 5>>),
       Spelled("LIST", FALSE, <<7, 11>>), Spelled("LIST", FALSE, <<7, 12>>),
       Q("DATE", Ymd(2023, 2, 30)), Q("DATE", Ymd(2024, 2, 29)), Q("DATE", Ymd(2023, 2, 29)),
       Q("DATE", Ymd(1900, 2, 29)), Q("DATE", Ymd(2000, 2, 29)), Q("DATE", Ymd(2023, 13, 1)),
       Q("DATE", Ymd(2023, 0, 1)), Q("DATE", Ymd(2023, 4, 0)), Q("DATE", Ymd(2023, 4, 31)),
       Q("DATE", Ymd(0, 1, 1)), Q("DATE", Ymd(9999, 12, 31)), Q("DATE", Ymd(10000, 1, 1)),
       Spelled("DATE", FALSE, Ymd(2024, 1, 1)),
       Q("LOCALTIME", Noon), Q("LOCALTIME", Hms(3, 0, 0, -1, 0)), Q("LOCALTIME", Hms(2, 3, 4, -1, 0)),
       Q("LOCALTIME", Hms(2, 3, 3, 1, 9)), Q("LOCALTIME", Hms(2, 3, 3, 0, 0)),
       Q("LOCALTIME", Hms(2, 3, 3, 2, 5)), Q("LOCALTIME", Hms(2, 3, 3, 1, 0)),
       Q("ZONEDTIME", [clock |-> Noon, offset |-> Zulu]),
       Q("ZONEDTIME", [clock |-> Noon, offset |-> Off("+", 0, 0)]),
       Q("ZONEDTIME", [clock |-> Noon, offset |-> Off("-", 0, 0)]),
       Q("ZONEDTIME", [clock |-> Noon, offset |-> Off("-", 2, 0)]),
       Q("ZONEDTIME", [clock |-> Noon, offset |-> Off("-", 2, 1)]),
       Q("ZONEDTIME", [clock |-> Noon, offset |-> Off("+", 1, 4)]),
       Q("LOCALDATETIME", [date |-> Ymd(1970, 1, 2), clock |-> Noon]),
       Q("LOCALDATETIME", [date |-> Ymd(1969, 12, 31), clock |-> Noon]),
       Q("LOCALDATETIME", [date |-> Ymd(1970, 2, 29), clock |-> Noon]),
       Q("LOCALDATETIME", [date |-> Ymd(9999, 12, 31), clock |-> Noon]),
       Q("ZONEDDATETIME", [stamp |-> [date |-> Ymd(1970, 1, 1), clock |-> Noon],
                           offset |-> Off("+", 2, 0)]),
       Q("ZONEDDATETIME", [stamp |-> [date |-> Ymd(1970, 1, 1), clock |-> Noon],
                           offset |-> Off("-", 1, 3)]),
       Q("DURATION", P("", <<>>, FALSE, <<>>)), Q("DURATION", P("", <<>>, TRUE, <<>>)),
       Q("DURATION", P("-", <<F(1, "Y", -1, 0), F(2, "M", -1, 0)>>, FALSE, <<>>)),
       Q("DURATION", P("", <<F(0, "M", -1, 0)>>, FALSE, <<>>)),
       Q("DURATION", P("", <<F(0, "D", -1, 0)>>, FALSE, <<>>)),
       Q("DURATION", P("", <<F(1, "M", -1, 0), F(1, "D", -1, 0)>>, FALSE, <<>>)),
       Q("DURATION", P("", <<F(1, "M", -1, 0), F(0, "D", -1, 0)>>, FALSE, <<>>)),
       Q("DURATION", P("", <<F(1, "D", 1, 5)>>, FALSE, <<>>)),
       Q("DURATION", P("-", <<F(1, "W", -1, 0)>>, TRUE, <<F(5, "H", -1, 0), F(0, "S", 1, 5)>>)),
       Q("DURATION", P("", <<>>, TRUE, <<F(1, "M", 1, 5)>>)),
       Q("DURATION", P("-", <<F(8, "D", -1, 0)>>, TRUE,
                       <<F(1, "H", -1, 0), F(2, "M", -1, 0), F(1, "S", 1, 6)>>)),
       Q("DURATION", P("+", <<F(9, "D", -1, 0)>>, FALSE, <<>>)),
       Q("DURATION", P("", <<>>, TRUE, <<F(1, "D", -1, 0)>>)),
       Q("BYTES", <<>>), Q("BYTES", <<0, 0, 10, 11>>), Q("BYTES", <<1>>),
       Q("FLOAT64", Size(TRUE, "0.0")),
       Q("FLOAT64", [exact |-> FALSE, neg |-> FALSE, size |-> "1"]),
       Q("FLOAT64", Size(FALSE, "0.1")), Q("FLOAT32", Size(FALSE, "beyond")),
       Q("FLOAT32", Size(TRUE, "0.1")), Q("FLOAT32", Size(TRUE, "0.10000000149011612")),
       Q("FLOAT32", Size(TRUE, "1e+39")), Q("FLOAT32", Size(TRUE, "1e-50")),
       Q("FLOAT32", Size(FALSE, "1.5")), Q("FLOAT32", Size(FALSE, "inf")),
       Q("FLOAT32", Size(TRUE, "NaN")),
       Q("NODE", [table |-> "", offset |-> 1]), Q("NODE", [table |-> "person", offset |-> 8191]),
       Q("NODE", [table |-> "person", offset |-> 8192]), Q("NODE", [table |-> "person", offset |-> -1]),
       Q("EDGE", [table |-> "", src |-> 1, dst |-> 1]),
       Q("EDGE", [table |-> "knows", src |-> 8191, dst |-> -1]),
       Q("EDGE", [table |-> "knows", src |-> 8192, dst |-> 0]),
       Spelled("BOOL", FALSE, TRUE), Spelled("BOOL", TRUE, TRUE),
       Spelled("STRING", FALSE, "a"), Q("STRING", "a"), Q("DECIMAL", "1"), Q("DATETIME", "1"),
       Q("INT64", [n |-> 7, canonical |-> FALSE]) >>
    \o FlattenSeq([t \in DOMAIN IntegerTypes |->
           [i \in DOMAIN IntegerEdges |->
               Spelled(IntegerTypes[t], IntegerTypes[t] \in Quoted, Plain(IntegerEdges[i]))]])

(***************************************************************************)
(* The two are checked side by side: one works while the other is idle.    *)
(***************************************************************************)
Init == ValuesInit /\ EncodingInit
Next ==
    \/ done = Idle /\ ValuesNext /\ UNCHANGED done
    \/ last = Nothing /\ read = 0 /\ EncodingNext /\ UNCHANGED valueVars
Spec == Init /\ [][Next]_<<valueVars, done>>
=============================================================================

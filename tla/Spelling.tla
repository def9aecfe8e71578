------------------------------ MODULE Spelling ------------------------------
(***************************************************************************)
(* How the conformance corpus spells a temporal value and reads one back,  *)
(* corpus/temporal.go.  A text is its fields: the numbers, how many digits *)
(* a fraction has, the units of a duration in the order they are written.  *)
(* The units of time are as long as the constants say, so that the whole   *)
(* range of an int64 is small.                                             *)
(***************************************************************************)
EXTENDS Integers, Sequences, SequencesExt

CONSTANTS
    Digits,    \* of the finest fraction of a second, 9
    Sixty,     \* seconds of a minute and minutes of an hour
    Hours,     \* of a day, 24
    MaxOffset, \* hours, 18
    Bits       \* of the integers nanoseconds and months are counted in, 64

ASSUME SpellingAssumption ==
    /\ {Digits, Sixty, Hours, Bits} \subseteq Nat \ {0}
    /\ MaxOffset \in 0 .. Hours - 1

\* What there is to know of the powers that are used: the provers do not.
ASSUME PowersAssumption ==
    /\ \A d \in 0 .. Digits :
          10 ^ d \in Nat \ {0} /\ 10 ^ d * 10 ^ (Digits - d) = 10 ^ Digits
    /\ 2 ^ (Bits - 1) \in Nat \ {0} /\ 2 ^ Bits = 2 * 2 ^ (Bits - 1)

nanosPerSecond == 10 ^ Digits
nanosPerMinute == Sixty * nanosPerSecond
nanosPerHour == Sixty * nanosPerMinute
nanosPerDay == Hours * nanosPerHour

Lowest == -(2 ^ (Bits - 1))
Int64(n) == ((n - Lowest) % 2 ^ Bits) + Lowest
Magnitude(n) == Int64(IF n < 0 THEN -n ELSE n)

\* The counts of an int64, the times of a day, the offsets there are.
Int64s == Lowest .. -Lowest - 1
Instants == 0 .. nanosPerDay - 1
Offsets == -(MaxOffset * Sixty) .. MaxOffset * Sixty

\* What a parser answers: the value, or that the text spells none.
Spells(v) == [ok |-> TRUE, is |-> v]
SpellsNone == [ok |-> FALSE, is |-> <<"none">>]

(***************************************************************************)
(* The calendar of package time: days from 1970-01-01, months past the     *)
(* twelfth and days past the last rolling over.                            *)
(***************************************************************************)
Leap(y) == (y % 4 = 0 /\ y % 100 # 0) \/ y % 400 = 0
YearStart(y) ==
    365 * (y - 1970) + ((y - 1) \div 4) - ((y - 1) \div 100) + ((y - 1) \div 400) - 477
MonthStart(y, m) ==
    <<0, 31, 59, 90, 120, 151, 181, 212, 243, 273, 304, 334>>[m]
        + (IF m > 2 /\ Leap(y) THEN 1 ELSE 0)
DaysOf(y, m, d) ==
    LET year == y + ((m - 1) \div 12) IN
    YearStart(year) + MonthStart(year, ((m - 1) % 12) + 1) + d - 1
YearOfDay(n) ==
    CHOOSE y \in (n \div (IF n < 0 THEN 365 ELSE 366)) + 1900 ..
                  (n \div (IF n < 0 THEN 366 ELSE 365)) + 2000 :
        YearStart(y) <= n /\ n < YearStart(y + 1)
MonthOfDay(n, y) ==
    CHOOSE m \in 1 .. 12 :
        /\ YearStart(y) + MonthStart(y, m) <= n
        /\ m = 12 \/ n < YearStart(y) + MonthStart(y, m + 1)
CivilOf(n) ==
    LET y == YearOfDay(n)
        m == MonthOfDay(n, y)
    IN [y |-> y, m |-> m, d |-> n - YearStart(y) - MonthStart(y, m) + 1]

(***************************************************************************)
(* Dates, times and stamps.                                                *)
(***************************************************************************)

\* Four digits, two and two, of a day the calendar has: it is built and read
\* back, so that one that rolled over is refused.
InFields(t) == t.y \in 0 .. 9999 /\ t.m \in 0 .. 99 /\ t.d \in 0 .. 99
DateRolls(t) ==
    IF InFields(t) THEN Spells(DaysOf(t.y, t.m, t.d)) ELSE SpellsNone
dateDays(t) ==
    LET days == DaysOf(t.y, t.m, t.d) IN
    IF InFields(t) /\ CivilOf(days) = t THEN Spells(days) ELSE SpellsNone
showDate(days) == CivilOf(days)

\* A fraction is its digits as a number and how many there are, none of them
\* for a text with no point; "12." has a point and no digits.
NoFrac == [digits |-> -1, n |-> 0]
fraction(frac) == IF frac.digits = -1 THEN 0 ELSE frac.n * 10 ^ (Digits - frac.digits)
IsFraction(frac) == frac.digits = -1 \/ frac.digits \in 1 .. Digits
showFraction(n) == IF n = 0 THEN NoFrac ELSE [digits |-> Digits, n |-> n]

clockNanos(t) ==
    IF /\ t.h < Hours /\ t.m < Sixty /\ t.s < Sixty
       /\ IsFraction(t.frac)
    THEN Spells(t.h * nanosPerHour + t.m * nanosPerMinute + t.s * nanosPerSecond
                    + fraction(t.frac))
    ELSE SpellsNone
showClock(nanos) ==
    [h |-> nanos \div nanosPerHour,
     m |-> (nanos % nanosPerHour) \div nanosPerMinute,
     s |-> (nanos % nanosPerMinute) \div nanosPerSecond,
     frac |-> showFraction(nanos % nanosPerSecond)]

stampNanos(t) ==
    LET days == dateDays(t.date)
        nanos == clockNanos(t.clock)
    IN IF days.ok /\ nanos.ok THEN Spells(Int64(days.is * nanosPerDay + nanos.is))
       ELSE SpellsNone

\* Go divides towards zero; floorDiv corrects it for an instant before 1970.
Quot(a, b) == IF a >= 0 THEN a \div b ELSE -((-a) \div b)
floorDiv(a, b) == IF a < 0 /\ Quot(a, b) * b # a THEN Quot(a, b) - 1 ELSE Quot(a, b)
showStamp(nanos) ==
    LET days == floorDiv(nanos, nanosPerDay)
    IN [date |-> showDate(days), clock |-> showClock(nanos - days * nanosPerDay)]

\* An offset is Z or a sign, hours and minutes; Z and +00:00 are one offset.
Zulu == [sign |-> "Z", h |-> 0, m |-> 0]
splitOffset(o) ==
    LET total == o.h * Sixty + o.m IN
    IF o.m < Sixty /\ total <= MaxOffset * Sixty
    THEN Spells(IF o.sign = "-" THEN -total ELSE total) ELSE SpellsNone
showOffset(offset) ==
    LET size == IF offset < 0 THEN -offset ELSE offset IN
    IF offset = 0 THEN Zulu
    ELSE [sign |-> IF offset < 0 THEN "-" ELSE "+", h |-> size \div Sixty, m |-> size % Sixty]

parseDate(t) == LET days == dateDays(t) IN
    IF days.ok THEN Spells(<<"Date", days.is>>) ELSE SpellsNone
parseLocalTime(t) == LET nanos == clockNanos(t) IN
    IF nanos.ok THEN Spells(<<"LocalTime", nanos.is>>) ELSE SpellsNone
parseLocalDateTime(t) == LET nanos == stampNanos(t) IN
    IF nanos.ok THEN Spells(<<"LocalDateTime", nanos.is>>) ELSE SpellsNone

\* A zoned time keeps the wall clock, a zoned datetime the instant, so the
\* stamp written is moved back by the offset.
parseZonedTime(t) ==
    LET offset == splitOffset(t.offset)
        nanos == clockNanos(t.clock)
    IN IF offset.ok /\ nanos.ok THEN Spells(<<"ZonedTime", nanos.is, offset.is>>)
       ELSE SpellsNone
parseZonedDateTime(t) ==
    LET offset == splitOffset(t.offset)
        nanos == stampNanos(t.stamp)
    IN IF offset.ok /\ nanos.ok
       THEN Spells(<<"ZonedDateTime", Int64(nanos.is - offset.is * nanosPerMinute), offset.is>>)
       ELSE SpellsNone
showZoned(nanos, offset) ==
    [stamp |-> showStamp(Int64(nanos + offset * nanosPerMinute)), offset |-> showOffset(offset)]

(***************************************************************************)
(* Durations: a sign, fields before the T and fields after it.  Months and *)
(* nanoseconds are two kinds; a text whose fields give both is refused.    *)
(***************************************************************************)
DayUnits == [W |-> 7 * nanosPerDay, D |-> nanosPerDay]
ClockUnits == [H |-> nanosPerHour, M |-> nanosPerMinute, S |-> nanosPerSecond]
MonthUnits == [Y |-> 12, M |-> 1]

Total(amounts) == FoldLeft(LAMBDA sum, n : sum + n, 0, amounts)
Sum(fields, units) ==
    Int64(Total([i \in DOMAIN fields |->
                    IF fields[i].unit \in DOMAIN units
                    THEN fields[i].whole * units[fields[i].unit] ELSE 0]))
Seconds(fields) == Total([i \in DOMAIN fields |-> fraction(fields[i].frac)])

\* pieces and the two loops over them: every field is digits with a unit of its
\* half, and only a second has a fraction that is not nothing.
WellFormed(t) ==
    /\ t.day # <<>> \/ t.clock # <<>>
    /\ t.dated => t.clock # <<>>
    /\ \A i \in DOMAIN t.day :
          /\ t.day[i].whole \in Nat
          /\ t.day[i].unit \in DOMAIN MonthUnits \union DOMAIN DayUnits
          /\ IsFraction(t.day[i].frac) /\ fraction(t.day[i].frac) = 0
    /\ \A i \in DOMAIN t.clock :
          /\ t.clock[i].whole \in Nat
          /\ t.clock[i].unit \in DOMAIN ClockUnits
          /\ IsFraction(t.clock[i].frac)
          /\ fraction(t.clock[i].frac) # 0 => t.clock[i].unit = "S"
parseDuration(t) ==
    LET months == Sum(t.day, MonthUnits)
        nanos == Int64(Sum(t.day, DayUnits) + Sum(t.clock, ClockUnits) + Seconds(t.clock))
        sawMonths == ~t.dated /\ \A i \in DOMAIN t.day : t.day[i].unit \in DOMAIN MonthUnits
        Signed(n) == IF t.sign = "-" THEN Int64(-n) ELSE n
    IN
    CASE ~WellFormed(t) \/ (months # 0 /\ nanos # 0) -> SpellsNone
      [] WellFormed(t) /\ nanos = 0 /\ (months # 0 \/ sawMonths) ->
            Spells(<<"YearMonth", Signed(months)>>)
      [] OTHER -> Spells(<<"time.Duration", Signed(nanos)>>)

\* A field that is nothing is left out, and a duration with nothing left in it
\* says 0 in its smallest unit.
Piece(whole, unit) == [whole |-> whole, unit |-> unit, frac |-> NoFrac]
Unless(nothing, fields) == IF nothing THEN <<>> ELSE fields
Sign(n) == IF n < 0 THEN "-" ELSE ""
showMonths(count) ==
    LET size == Magnitude(count)
        years == Quot(size, 12)
        months == size - 12 * years
    IN [sign |-> Sign(count), dated |-> FALSE, clock |-> <<>>,
        day |-> Unless(years = 0, <<Piece(years, "Y")>>)
                    \o Unless(months = 0 /\ years # 0, <<Piece(months, "M")>>)]
\* The units of what is left of a day, each towards zero.
Left(rest) ==
    LET h == Quot(rest, nanosPerHour)
        afterHours == rest - h * nanosPerHour
        m == Quot(afterHours, nanosPerMinute)
        afterMinutes == afterHours - m * nanosPerMinute
        s == Quot(afterMinutes, nanosPerSecond)
    IN [h |-> h, m |-> m, s |-> s, frac |-> showFraction(afterMinutes - s * nanosPerSecond)]
NanosNoZero(nanos) ==
    LET size == Magnitude(nanos)
        days == Quot(size, nanosPerDay)
        t == Left(size - days * nanosPerDay)
    IN [sign |-> Sign(nanos), dated |-> TRUE,
        day |-> Unless(days = 0, <<Piece(days, "D")>>),
        clock |-> Unless(t.h = 0, <<Piece(t.h, "H")>>) \o Unless(t.m = 0, <<Piece(t.m, "M")>>)
                      \o Unless(t.s = 0, <<[Piece(t.s, "S") EXCEPT !.frac = t.frac]>>)]
showNanos(nanos) ==
    LET size == Magnitude(nanos)
        days == Quot(size, nanosPerDay)
        rest == size - days * nanosPerDay
        t == Left(rest)
        whole == rest = 0 /\ days # 0
    IN [sign |-> Sign(nanos), dated |-> ~whole,
        day |-> Unless(days = 0, <<Piece(days, "D")>>),
        clock |-> Unless(whole,
            Unless(t.h = 0, <<Piece(t.h, "H")>>) \o Unless(t.m = 0, <<Piece(t.m, "M")>>)
                \o Unless(t.s = 0 /\ t.frac = NoFrac /\ (t.h # 0 \/ t.m # 0),
                          <<[Piece(t.s, "S") EXCEPT !.frac = t.frac]>>))]
=============================================================================

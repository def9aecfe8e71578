---------------------------- MODULE EncodingProofs ---------------------------
(***************************************************************************)
(* What a case of the corpus spells and what a report shows,               *)
(* corpus/temporal.go and values.go: what is shown reads back as the value *)
(* it shows, what is read is shown as it was written, and two values are   *)
(* the same exactly when they are shown alike. For values nested to any    *)
(* depth, units of every length and integers of every width, where the     *)
(* runs take a short day and a few values.                                 *)
(***************************************************************************)
EXTENDS Encoding, WellFoundedInduction, TLAPS

(***************************************************************************)
(* Division.                                                               *)
(***************************************************************************)

LEMMA Division ==
  ASSUME NEW n \in Int, NEW d \in Nat \ {0}
  PROVE  /\ n \div d \in Int /\ n % d \in Int
         /\ 0 <= n % d /\ n % d < d
         /\ n = d * (n \div d) + (n % d)
OBVIOUS

LEMMA DivisionUnique ==
  ASSUME NEW d \in Nat \ {0}, NEW q \in Int, NEW r \in Int, 0 <= r, r < d,
         NEW n \in Int, n = d * q + r
  PROVE  n \div d = q /\ n % d = r
OBVIOUS

LEMMA Cancel ==
  ASSUME NEW d \in Nat \ {0}, NEW a \in Int, NEW b \in Int, d * a < d * b
  PROVE  a < b
OBVIOUS

LEMMA Positive ==
  ASSUME NEW a \in Nat \ {0}, NEW b \in Nat \ {0}
  PROVE  a * b \in Nat \ {0}
OBVIOUS

LEMMA Digit ==
  ASSUME NEW a \in Nat \ {0}, NEW b \in Nat \ {0}, NEW r \in Int,
         0 <= r, r < a * b,
         NEW c \in Int, NEW f \in Int, 0 <= f, f < b, r = b * c + f
  PROVE  0 <= c /\ c < a
<1>1. a * b \in Int /\ b * c \in Int
  OBVIOUS
<1>2. b * c < b * a /\ b * (-1) < b * c
  BY <1>1
<1>3. c < a /\ -1 < c
  BY <1>2, Cancel
<1>4. QED
  BY <1>3

LEMMA Regroup ==
  ASSUME NEW a \in Int, NEW b \in Int, NEW q \in Int, NEW c \in Int,
         NEW f \in Int, NEW r \in Int, NEW n \in Int,
         n = (a * b) * q + r, r = b * c + f
  PROVE  n = b * (a * q + c) + f
OBVIOUS

(* A remainder by a unit is what the next unit counts in it and what is    *)
(* left of that.                                                           *)
LEMMA Nested ==
  ASSUME NEW n \in Int, NEW a \in Nat \ {0}, NEW b \in Nat \ {0}
  PROVE  /\ (n % (a * b)) \div b \in Int
         /\ 0 <= (n % (a * b)) \div b /\ (n % (a * b)) \div b < a
         /\ n % (a * b) = b * ((n % (a * b)) \div b) + (n % b)
<1> DEFINE u == a * b
           q == n \div u
           r == n % u
           c == r \div b
           f == r % b
<1>1. u \in Nat \ {0}
  BY Positive
<1> HIDE DEF u
<1>2. /\ q \in Int /\ r \in Int /\ 0 <= r /\ r < u
      /\ n = u * q + r
  BY <1>1, Division, Zenon
<1> HIDE DEF q, r
<1>3. /\ c \in Int /\ f \in Int /\ 0 <= f /\ f < b
      /\ r = b * c + f
  BY <1>2, Division, Zenon
<1> HIDE DEF c, f
<1>4. 0 <= c /\ c < a
  BY <1>2, <1>3, Digit DEF u
<1>5. n = b * (a * q + c) + f /\ a * q + c \in Int
  BY <1>2, <1>3, Regroup DEF u
<1>6. n % b = f
  BY <1>3, <1>5, DivisionUnique
<1>7. c \in Int /\ 0 <= c /\ c < a /\ r = b * c + (n % b)
  BY <1>3, <1>4, <1>6
<1>8. QED
  BY <1>7 DEF u, r, c

LEMMA Assemble ==
  ASSUME NEW H \in Int, NEW M \in Int, NEW S \in Int, NEW n \in Int,
         NEW h \in Int, NEW m \in Int, NEW s \in Int, NEW f \in Int,
         NEW p \in Int, NEW q \in Int,
         n = H * h + p, p = M * m + q, q = S * s + f
  PROVE  h * H + m * M + s * S + f = n
OBVIOUS

LEMMA FloorDivision ==
  ASSUME NEW a \in Int, NEW b \in Nat \ {0}
  PROVE  floorDiv(a, b) = a \div b
BY DEF floorDiv, Quot

LEMMA Units ==
  /\ nanosPerSecond \in Nat \ {0} /\ nanosPerMinute \in Nat \ {0}
  /\ nanosPerHour \in Nat \ {0} /\ nanosPerDay \in Nat \ {0}
  /\ Sixty \in Nat \ {0} /\ Hours \in Nat \ {0} /\ Digits \in Nat \ {0}
<1>1. Sixty \in Nat \ {0} /\ Hours \in Nat \ {0} /\ Digits \in Nat \ {0}
  BY SpellingAssumption
<1>2. nanosPerSecond \in Nat \ {0}
  BY <1>1, PowersAssumption DEF nanosPerSecond
<1>3. nanosPerMinute \in Nat \ {0}
  BY <1>1, <1>2, Positive DEF nanosPerMinute
<1>4. nanosPerHour \in Nat \ {0}
  BY <1>1, <1>3, Positive DEF nanosPerHour
<1>5. nanosPerDay \in Nat \ {0}
  BY <1>1, <1>4, Positive DEF nanosPerDay
<1>6. QED
  BY <1>1, <1>2, <1>3, <1>4, <1>5

LEMMA Int64Keeps ==
  ASSUME NEW n \in Lowest .. -Lowest - 1
  PROVE  Int64(n) = n /\ n \in Int
<1> DEFINE half == 2 ^ (Bits - 1)
<1>1. half \in Nat \ {0} /\ 2 ^ Bits = 2 * half
  BY PowersAssumption
<1>2. Lowest = -half
  BY DEF Lowest
<1> HIDE DEF half
<1>3. n + half \in 0 .. 2 * half - 1 /\ n \in Int
  BY <1>1, <1>2
<1>4. (n + half) % (2 * half) = n + half
  BY <1>1, <1>3
<1>5. n - Lowest = n + half
  BY <1>1, <1>2, <1>3
<1>6. Int64(n) = ((n + half) % (2 * half)) + Lowest
  BY <1>1, <1>5 DEF Int64
<1>7. QED
  BY <1>1, <1>2, <1>3, <1>4, <1>6

(***************************************************************************)
(* The calendar.                                                           *)
(***************************************************************************)

(* Years follow each other with no gap and no overlap.                     *)
LEMMA YearStarts ==
  ASSUME NEW y \in Int
  PROVE  /\ YearStart(y) \in Int
         /\ YearStart(y + 1) = YearStart(y) + (IF Leap(y) THEN 366 ELSE 365)
BY SMTT(60) DEF YearStart, Leap

\* A year starts on a day.
LEMMA YearStartsOn ==
  ASSUME NEW y \in Int
  PROVE  YearStart(y) \in Int
BY YearStarts

LEMMA YearsInOrder ==
  ASSUME NEW y \in Int, NEW z \in Int, y < z
  PROVE  YearStart(y + 1) <= YearStart(z)
BY SMTT(60) DEF YearStart

LEMMA YearsSince ==
  ASSUME NEW y \in Int, NEW z \in Int, z <= y
  PROVE  YearStart(z) <= YearStart(y)
<1>1. CASE z = y
  BY <1>1, YearStarts
<1>2. CASE z < y
  <2>1. YearStart(z + 1) <= YearStart(y)
    BY <1>2, YearsInOrder
  <2>2. YearStart(z) <= YearStart(z + 1) /\ YearStart(z) \in Int /\ YearStart(y) \in Int
        /\ YearStart(z + 1) \in Int
    <3>1. z + 1 \in Int
      OBVIOUS
    <3>2. YearStart(z + 1) \in Int
      BY <3>1, YearStarts, Zenon
    <3> QED
      BY <3>2, YearStarts
  <2> QED
    BY <2>1, <2>2
<1> QED
  BY <1>1, <1>2

LEMMA YearNear ==
  ASSUME NEW n \in Int
  PROVE  \E y \in Int : YearStart(y) <= n /\ n < YearStart(y + 3)
<1> DEFINE y == ((400 * (n + 719528)) \div 146097) - 1
<1>1. y \in Int
  OBVIOUS
<1>2. YearStart(y) <= n
  BY SMTT(60) DEF YearStart
<1>3. n < YearStart(y + 3)
  BY SMTT(60) DEF YearStart
<1>4. QED
  BY <1>1, <1>2, <1>3

LEMMA YearOf ==
  ASSUME NEW n \in Int
  PROVE  \E y \in Int : YearStart(y) <= n /\ n < YearStart(y + 1)
<1>1. PICK y \in Int : YearStart(y) <= n /\ n < YearStart(y + 3)
  BY YearNear
<1>2. /\ YearStart(y + 1) \in Int /\ YearStart(y + 2) \in Int
      /\ (y + 1) + 1 = y + 2 /\ (y + 2) + 1 = y + 3
      /\ y + 1 \in Int /\ y + 2 \in Int
  BY YearStarts
<1>3. CASE n < YearStart(y + 1)
  BY <1>1, <1>3
<1>4. CASE YearStart(y + 1) <= n /\ n < YearStart(y + 2)
  BY <1>2, <1>4
<1>5. CASE YearStart(y + 2) <= n
  BY <1>1, <1>2, <1>5
<1>6. QED
  BY <1>2, <1>3, <1>4, <1>5

LEMMA YearBounds ==
  ASSUME NEW n \in Int, NEW y \in Int,
         YearStart(y) <= n, n < YearStart(y + 1)
  PROVE  y \in (n \div (IF n < 0 THEN 365 ELSE 366)) + 1900 ..
               (n \div (IF n < 0 THEN 366 ELSE 365)) + 2000
<1>1. CASE n < 0
  <2>1. y >= (n \div 365) + 1900
    BY <1>1, SMTT(60) DEF YearStart
  <2>2. y <= (n \div 366) + 2000
    BY <1>1, SMTT(60) DEF YearStart
  <2> QED
    BY <1>1, <2>1, <2>2
<1>2. CASE n >= 0
  <2>1. y >= (n \div 366) + 1900
    BY <1>2, SMTT(60) DEF YearStart
  <2>2. y <= (n \div 365) + 2000
    BY <1>2, SMTT(60) DEF YearStart
  <2> QED
    BY <1>2, <2>1, <2>2
<1> QED
  BY <1>1, <1>2

LEMMA MonthStarts ==
  ASSUME NEW y, NEW leap, leap = IF Leap(y) THEN 1 ELSE 0
  PROVE  /\ leap \in {0, 1}
         /\ MonthStart(y, 1) = 0 /\ MonthStart(y, 2) = 31
         /\ MonthStart(y, 3) = 59 + leap /\ MonthStart(y, 4) = 90 + leap
         /\ MonthStart(y, 5) = 120 + leap /\ MonthStart(y, 6) = 151 + leap
         /\ MonthStart(y, 7) = 181 + leap /\ MonthStart(y, 8) = 212 + leap
         /\ MonthStart(y, 9) = 243 + leap /\ MonthStart(y, 10) = 273 + leap
         /\ MonthStart(y, 11) = 304 + leap /\ MonthStart(y, 12) = 334 + leap
BY DEF MonthStart

MonthHolds(y, m, k) ==
    MonthStart(y, m) <= k /\ (m = 12 \/ k < MonthStart(y, m + 1))

LEMMA MonthOf ==
  ASSUME NEW y, NEW k \in Nat
  PROVE  \E m \in 1 .. 12 : MonthHolds(y, m, k)
<1> DEFINE leap == IF Leap(y) THEN 1 ELSE 0
<1>1. leap \in {0, 1}
  OBVIOUS
<1> HIDE DEF leap
<1> QED
  BY <1>1, MonthStarts DEF MonthHolds, leap

LEMMA MonthOnly ==
  ASSUME NEW y, NEW k \in Nat, NEW m \in 1 .. 12, NEW w \in 1 .. 12,
         MonthHolds(y, m, k), MonthHolds(y, w, k)
  PROVE  m = w
  BY MonthStarts DEF MonthHolds

(* The dates there are: thirty days has September.                         *)
DaysIn(y, m) ==
    IF m = 2 THEN (IF Leap(y) THEN 29 ELSE 28)
    ELSE IF m \in {4, 6, 9, 11} THEN 30 ELSE 31
Calendar ==
    {t \in [y : Int, m : 1 .. 12, d : Nat \ {0}] : t.d <= DaysIn(t.y, t.m)}

LEMMA MonthLengths ==
  ASSUME NEW y \in Int, NEW m \in 1 .. 12
  PROVE  MonthStart(y, m) + DaysIn(y, m) =
            IF m = 12 THEN YearStart(y + 1) - YearStart(y) ELSE MonthStart(y, m + 1)
<1> DEFINE leap == IF Leap(y) THEN 1 ELSE 0
<1>1. leap \in {0, 1} /\ DaysIn(y, 2) = 28 + leap
  BY DEF DaysIn
<1>2. YearStart(y + 1) - YearStart(y) = 365 + leap
  BY YearStarts
<1>3. m # 2 => DaysIn(y, m) = IF m \in {4, 6, 9, 11} THEN 30 ELSE 31
  BY DEF DaysIn
<1> HIDE DEF leap
<1> QED
  BY <1>1, <1>2, <1>3, MonthStarts DEF leap

(* The first day of a year past a month.                                   *)
MonthEnd(y, m) == MonthStart(y, m) + DaysIn(y, m)

LEMMA DaysOfDate ==
  ASSUME NEW y \in Int, NEW m \in 1 .. 12, NEW d \in Int
  PROVE  DaysOf(y, m, d) = YearStart(y) + MonthStart(y, m) + d - 1
<1>1. (m - 1) \div 12 = 0 /\ ((m - 1) % 12) + 1 = m /\ y + 0 = y
  OBVIOUS
<1>2. QED
  BY <1>1 DEF DaysOf

LEMMA MonthTypes ==
  ASSUME NEW y \in Int, NEW m \in 1 .. 12
  PROVE  /\ MonthStart(y, m) \in Nat /\ MonthEnd(y, m) \in Nat
         /\ MonthEnd(y, m) <= YearStart(y + 1) - YearStart(y)
<1> DEFINE leap == IF Leap(y) THEN 1 ELSE 0
<1>1. leap \in {0, 1}
  OBVIOUS
<1>2. YearStart(y + 1) - YearStart(y) = 365 + leap
  BY YearStarts
<1> HIDE DEF leap
<1> QED
  BY <1>1, <1>2, MonthStarts, MonthLengths DEF leap, MonthEnd

LEMMA CivilIs ==
  ASSUME NEW n \in Int,
         NEW y \in Int, YearStart(y) <= n, n < YearStart(y + 1),
         NEW m \in 1 .. 12, MonthHolds(y, m, n - YearStart(y))
  PROVE  CivilOf(n) = [y |-> y, m |-> m, d |-> n - YearStart(y) - MonthStart(y, m) + 1]
<1> DEFINE Years == (n \div (IF n < 0 THEN 365 ELSE 366)) + 1900 ..
                    (n \div (IF n < 0 THEN 366 ELSE 365)) + 2000
           IsYear(w) == YearStart(w) <= n /\ n < YearStart(w + 1)
           IsMonth(w) == /\ YearStart(y) + MonthStart(y, w) <= n
                         /\ w = 12 \/ n < YearStart(y) + MonthStart(y, w + 1)
<1>1. y \in Years /\ IsYear(y)
  BY YearBounds
<1>2. ASSUME NEW w \in Years, IsYear(w) PROVE w = y
  <2>1. w \in Int
    OBVIOUS
  <2>2. ~(w < y) /\ ~(y < w)
    BY <1>2, <2>1, YearsInOrder, YearStarts
  <2>3. QED
    BY <2>1, <2>2
<1>3. YearOfDay(n) = y
  <2>1. YearOfDay(n) = CHOOSE w \in Years : IsYear(w)
    BY DEF YearOfDay
  <2> HIDE DEF Years, IsYear
  <2> QED
    BY <1>1, <1>2, <2>1
<1>4. ASSUME NEW w \in 1 .. 12
      PROVE  IsMonth(w) <=> MonthHolds(y, w, n - YearStart(y))
  <2>1. YearStart(y) \in Int /\ MonthStart(y, w) \in Int
        /\ (w # 12 => MonthStart(y, w + 1) \in Int)
    <3>1. w # 12 => w + 1 \in 1 .. 12
      OBVIOUS
    <3>2. MonthStart(y, w) \in Nat /\ (w # 12 => MonthStart(y, w + 1) \in Nat)
      BY <3>1, MonthTypes
    <3> QED
      BY <3>2, YearStarts
  <2> QED
    BY <2>1 DEF MonthHolds
<1>5. n - YearStart(y) \in Nat
  BY YearStarts
<1>6. ASSUME NEW w \in 1 .. 12, IsMonth(w) PROVE w = m
  BY <1>4, <1>5, <1>6, MonthOnly
<1>7. MonthOfDay(n, y) = m
  <2>1. IsMonth(m)
    BY <1>4
  <2>2. MonthOfDay(n, y) = CHOOSE w \in 1 .. 12 : IsMonth(w)
    BY DEF MonthOfDay
  <2> HIDE DEF IsMonth
  <2> QED
    BY <1>6, <2>1, <2>2
<1>8. QED
  BY <1>3, <1>7 DEF CivilOf

(* A day is one date of the calendar, and a date of the calendar one day.  *)
LEMMA DateOfDay ==
  ASSUME NEW n \in Int
  PROVE  /\ CivilOf(n) \in Calendar
         /\ DaysOf(CivilOf(n).y, CivilOf(n).m, CivilOf(n).d) = n
<1>1. PICK y \in Int : YearStart(y) <= n /\ n < YearStart(y + 1)
  BY YearOf
<1>3. YearStart(y) \in Int /\ YearStart(y + 1) \in Int
  BY YearStarts
<1>4. n - YearStart(y) \in Nat
  BY <1>1, <1>3
<1>5. PICK m \in 1 .. 12 : MonthHolds(y, m, n - YearStart(y))
  BY <1>4, MonthOf
<1> DEFINE d == n - YearStart(y) - MonthStart(y, m) + 1
<1>6. CivilOf(n) = [y |-> y, m |-> m, d |-> d]
  BY <1>1, <1>5, CivilIs
<1>7. MonthStart(y, m) \in Nat /\ MonthEnd(y, m) \in Nat
  BY MonthTypes
<1>8. d \in Nat \ {0} /\ MonthStart(y, m) + d <= MonthEnd(y, m)
  BY <1>1, <1>3, <1>4, <1>5, <1>7, MonthLengths DEF MonthHolds, MonthEnd
<1>9. DaysOf(y, m, d) = n
  <2>1. DaysOf(y, m, d) = YearStart(y) + MonthStart(y, m) + d - 1
    BY <1>8, DaysOfDate
  <2> QED
    BY <2>1, <1>3, <1>7
<1> HIDE DEF d
<1>10. d <= DaysIn(y, m)
  BY <1>7, <1>8 DEF MonthEnd, DaysIn
<1>11. QED
  BY <1>6, <1>8, <1>9, <1>10 DEF Calendar

LEMMA DayOfDate ==
  ASSUME NEW t \in Calendar
  PROVE  /\ DaysOf(t.y, t.m, t.d) \in Int
         /\ DaysOf(t.y, t.m, t.d) >= YearStart(t.y)
         /\ DaysOf(t.y, t.m, t.d) < YearStart(t.y + 1)
         /\ CivilOf(DaysOf(t.y, t.m, t.d)) = t
<1> DEFINE y == t.y
           m == t.m
           d == t.d
           n == DaysOf(y, m, d)
<1>1. /\ y \in Int /\ m \in 1 .. 12 /\ d \in Nat \ {0}
      /\ t = [y |-> y, m |-> m, d |-> d]
      /\ d <= DaysIn(y, m)
  BY DEF Calendar
<1> HIDE DEF y, m, d
<1>2. n = YearStart(y) + MonthStart(y, m) + d - 1
  BY <1>1, DaysOfDate
<1>3. YearStart(y) \in Int /\ YearStart(y + 1) \in Int
  BY <1>1, YearStarts
<1>4. /\ MonthStart(y, m) \in Nat /\ MonthEnd(y, m) \in Nat
      /\ MonthEnd(y, m) <= YearStart(y + 1) - YearStart(y)
  BY <1>1, MonthTypes, Zenon
<1>5. MonthStart(y, m) + d <= MonthEnd(y, m)
  BY <1>1, <1>4 DEF MonthEnd, DaysIn
<1>6. n \in Int /\ YearStart(y) <= n /\ n < YearStart(y + 1)
  BY <1>1, <1>2, <1>3, <1>4, <1>5
<1>7. MonthHolds(y, m, n - YearStart(y))
  <2>1. n - YearStart(y) = MonthStart(y, m) + d - 1
    BY <1>1, <1>2, <1>3, <1>4
  <2> QED
    <3>1. n - YearStart(y) < MonthEnd(y, m)
      BY <1>1, <1>4, <1>5, <2>1
    <3>2. m # 12 => MonthEnd(y, m) = MonthStart(y, m + 1)
      BY <1>1, MonthLengths DEF MonthEnd
    <3> QED
      BY <1>1, <1>4, <2>1, <3>1, <3>2 DEF MonthHolds
<1>8. n - YearStart(y) - MonthStart(y, m) + 1 = d
  BY <1>1, <1>2, <1>3, <1>4
<1>9. CivilOf(n) = [y |-> y, m |-> m, d |-> n - YearStart(y) - MonthStart(y, m) + 1]
  <2> HIDE DEF n
  <2> QED
    BY <1>1, <1>6, <1>7, CivilIs
<1>10. QED
  BY <1>1, <1>6, <1>8, <1>9 DEF y, m, d

(***************************************************************************)
(* The clock.                                                              *)
(***************************************************************************)

LEMMA FractionReadsBack ==
  ASSUME NEW n \in 0 .. nanosPerSecond - 1
  PROVE  IsFraction(showFraction(n)) /\ fraction(showFraction(n)) = n
<1>1. 10 ^ (Digits - Digits) = 1 /\ Digits \in Nat \ {0}
  BY Units
<1>2. n \in Int
  BY Units
<1>3. n * 10 ^ (Digits - Digits) = n
  BY <1>1, <1>2
<1>4. QED
  BY <1>1, <1>2, <1>3 DEF IsFraction, fraction, showFraction, NoFrac

LEMMA ClockReadsBack ==
  ASSUME NEW n \in Instants
  PROVE  clockNanos(showClock(n)) = Spells(n)
<1> DEFINE h == n \div nanosPerHour
           m == (n % nanosPerHour) \div nanosPerMinute
           s == (n % nanosPerMinute) \div nanosPerSecond
           f == n % nanosPerSecond
           p == n % nanosPerHour
           q == n % nanosPerMinute
<1>1. n \in Int /\ n >= 0 /\ n < nanosPerDay
  BY Units DEF Instants
<1>2. /\ h \in Int /\ p \in Int /\ 0 <= p
      /\ n = nanosPerHour * h + p
  BY Units, <1>1, Division, Zenon
<1>3. /\ m \in Int /\ m < Sixty
      /\ p = nanosPerMinute * m + q
  BY Units, <1>1, Nested, Zenon DEF nanosPerHour
<1>4. /\ s \in Int /\ s < Sixty
      /\ q = nanosPerSecond * s + f
  BY Units, <1>1, Nested, Zenon DEF nanosPerMinute
<1>5. f \in Int /\ 0 <= f /\ f < nanosPerSecond
  BY Units, <1>1, Division, Zenon
<1>6. q \in Int
  BY Units, <1>1, Division, Zenon
<1>7. showClock(n) = [h |-> h, m |-> m, s |-> s, frac |-> showFraction(f)]
  BY DEF showClock
<1>8. nanosPerHour \in Int /\ nanosPerMinute \in Int /\ nanosPerSecond \in Int
  BY Units
<1> HIDE DEF h, m, s, f, p, q
<1>9. h * nanosPerHour + m * nanosPerMinute + s * nanosPerSecond + f = n
  <2>1. n = nanosPerHour * h + p /\ p = nanosPerMinute * m + q /\ q = nanosPerSecond * s + f
    BY <1>2, <1>3, <1>4
  <2>2. /\ h \in Int /\ m \in Int /\ s \in Int /\ f \in Int
        /\ p \in Int /\ q \in Int /\ n \in Int
    BY <1>1, <1>2, <1>3, <1>4, <1>5, <1>6
  <2>3. QED
    BY <1>8, <2>1, <2>2, Assemble
<1>10. h < Hours
  <2>1. nanosPerDay = nanosPerHour * Hours
    BY Units DEF nanosPerDay
  <2>2. nanosPerHour * h \in Int /\ nanosPerHour * h <= n
    BY Units, <1>1, <1>2
  <2>3. nanosPerHour * h < nanosPerHour * Hours
    BY Units, <1>1, <2>1, <2>2
  <2>4. QED
    BY Units, <1>2, <2>3, Cancel
<1>11. IsFraction(showFraction(f)) /\ fraction(showFraction(f)) = f
  BY <1>5, <1>8, FractionReadsBack
<1>12. QED
  BY <1>3, <1>4, <1>7, <1>9, <1>10, <1>11 DEF clockNanos

(* A clock that is read is a time of the day, and is shown as it was       *)
(* written but for its fraction, of which all the digits are shown.        *)
LEMMA FractionBelowSecond ==
  ASSUME NEW frac \in Fractions, IsFraction(frac)
  PROVE  fraction(frac) \in 0 .. nanosPerSecond - 1
<1>1. CASE frac = NoFrac
  BY <1>1, Units DEF fraction, NoFrac
<1>2. CASE frac # NoFrac
  <2> DEFINE d == frac.digits
             k == frac.n
             whole == 10 ^ d
             unit == 10 ^ (Digits - d)
  <2>1. d \in Nat /\ k \in Nat /\ (d <= Digits => k < whole)
    BY <1>2 DEF Fractions
  <2>2. d \in 1 .. Digits /\ k < whole
    BY <2>1, Units DEF IsFraction
  <2>3. whole \in Nat \ {0} /\ whole * unit = nanosPerSecond
    BY <2>2, Units, PowersAssumption DEF nanosPerSecond
  <2>4. unit \in Nat \ {0}
    <3>1. Digits - d \in 0 .. Digits
      BY <2>2, Units
    <3> QED
      BY <3>1, PowersAssumption
  <2>5. fraction(frac) = k * unit
    BY <2>1 DEF fraction
  <2> HIDE DEF whole, unit
  <2>7. 0 <= k * unit /\ k * unit < whole * unit /\ k * unit \in Int
    BY <2>1, <2>2, <2>3, <2>4
  <2> QED
    BY <2>3, <2>5, <2>7, Units
<1> QED
  BY <1>1, <1>2

LEMMA Place ==
  ASSUME NEW a \in Nat \ {0}, NEW b \in Nat \ {0}, NEW c \in Nat, c < a,
         NEW f \in Nat, f < b
  PROVE  c * b + f \in Nat /\ c * b + f < a * b
<1>1. (c + 1) * b <= a * b /\ (c + 1) * b = c * b + b /\ c * b \in Nat /\ a * b \in Nat
  OBVIOUS
<1> QED
  BY <1>1

LEMMA ClockParts ==
  ASSUME NEW h \in Nat, NEW m \in Nat, NEW s \in Nat, NEW f \in Nat,
         h < Hours, m < Sixty, s < Sixty, f < nanosPerSecond
  PROVE  LET n == h * nanosPerHour + m * nanosPerMinute + s * nanosPerSecond + f
         IN /\ n \in Instants
            /\ n \div nanosPerHour = h
            /\ (n % nanosPerHour) \div nanosPerMinute = m
            /\ (n % nanosPerMinute) \div nanosPerSecond = s
            /\ n % nanosPerSecond = f
<1> DEFINE n == h * nanosPerHour + m * nanosPerMinute + s * nanosPerSecond + f
           q == s * nanosPerSecond + f
           p == m * nanosPerMinute + q
<1>1. q \in Nat /\ q < nanosPerMinute
  BY Units, Place DEF nanosPerMinute
<1>2. p \in Nat /\ p < nanosPerHour
  <2> HIDE DEF q
  <2> QED
    BY <1>1, Units, Place DEF nanosPerHour
<1>3. n = h * nanosPerHour + p
  <2>1. h * nanosPerHour \in Int /\ m * nanosPerMinute \in Int /\ s * nanosPerSecond \in Int
    BY Units
  <2> QED
    BY <2>1
<1> HIDE DEF n
<1>4. n \in Nat /\ n < nanosPerDay
  <2> HIDE DEF p
  <2> QED
    BY <1>2, <1>3, Units, Place DEF nanosPerDay
<1>5. n \div nanosPerHour = h /\ n % nanosPerHour = p
  <2> HIDE DEF p
  <2>1. n = nanosPerHour * h + p
    BY <1>2, <1>3, Units
  <2> QED
    BY <1>2, <1>4, <2>1, Units, DivisionUnique
<1>6. p \div nanosPerMinute = m /\ p % nanosPerMinute = q
  <2> HIDE DEF q
  <2>1. p = nanosPerMinute * m + q /\ p \in Int /\ q \in Int
    BY <1>1, Units
  <2> HIDE DEF p
  <2> QED
    BY <1>1, <2>1, Units, DivisionUnique
<1>7. q \div nanosPerSecond = s /\ q % nanosPerSecond = f
  <2>1. q = nanosPerSecond * s + f /\ q \in Int
    BY <1>1, Units
  <2> HIDE DEF q
  <2> QED
    BY <2>1, Units, DivisionUnique
<1>8. n % nanosPerMinute = p % nanosPerMinute
  <2>1. n = nanosPerMinute * (Sixty * h + m) + q /\ Sixty * h + m \in Int
    <3>1. n = (Sixty * nanosPerMinute) * h + p /\ p = nanosPerMinute * m + q
      BY <1>3, Units DEF nanosPerHour
    <3>2. p \in Int /\ q \in Int /\ n \in Int
      BY <1>1, <1>2, <1>4
    <3> HIDE DEF p, q
    <3> QED
      BY <3>1, <3>2, Units, Regroup
  <2> HIDE DEF q, p
  <2>2. n % nanosPerMinute = q
    BY <1>1, <1>4, <2>1, Units, DivisionUnique
  <2> QED
    BY <1>6, <2>2
<1>9. n % nanosPerSecond = q % nanosPerSecond
  <2>1. n = nanosPerSecond * (Sixty * (Sixty * h + m) + s) + f
        /\ Sixty * (Sixty * h + m) + s \in Int
    <3> DEFINE j == Sixty * h + m
    <3>1. n = (Sixty * nanosPerSecond) * j + q /\ q = nanosPerSecond * s + f /\ j \in Int
      <4>1. n = (Sixty * nanosPerMinute) * h + p /\ p = nanosPerMinute * m + q
        BY <1>3, Units DEF nanosPerHour
      <4>2. p \in Int /\ q \in Int /\ n \in Int
        BY <1>1, <1>2, <1>4
      <4>3. q = nanosPerSecond * s + f
        BY Units
      <4> HIDE DEF p, q
      <4>4. n = nanosPerMinute * j + q /\ j \in Int
        BY <4>1, <4>2, Units, Regroup
      <4> QED
        BY <4>3, <4>4 DEF nanosPerMinute
    <3>2. q \in Int /\ n \in Int
      BY <1>1, <1>4
    <3> HIDE DEF q, j
    <3>3. n = nanosPerSecond * (Sixty * j + s) + f /\ Sixty * j + s \in Int
      BY <3>1, <3>2, Units, Regroup
    <3> QED
      BY <3>3 DEF j
  <2> DEFINE k == Sixty * (Sixty * h + m) + s
  <2> HIDE DEF q, k
  <2>2. n = nanosPerSecond * k + f /\ k \in Int
    BY <2>1 DEF k
  <2>3. n % nanosPerSecond = f
    BY <1>4, <2>2, Units, DivisionUnique
  <2> QED
    BY <1>7, <2>3
<1> HIDE DEF p, q
<1>10. n \in Instants
  BY <1>4, Units DEF Instants
<1> QED
  BY <1>5, <1>6, <1>7, <1>8, <1>9, <1>10 DEF n

\* A clock that is read is a time of the day, and showing that time shows the
\* clock again, with all the digits of its fraction or with none
\* (temporal.go, clockNanos and showClock).
THEOREM ClockShownAgain ==
  ASSUME NEW t \in Clocks, clockNanos(t).ok
  PROVE  /\ clockNanos(t).is \in Instants
         /\ showClock(clockNanos(t).is) = [t EXCEPT !.frac = showFraction(fraction(t.frac))]
<1> DEFINE f == fraction(t.frac)
           n == t.h * nanosPerHour + t.m * nanosPerMinute + t.s * nanosPerSecond + f
<1>1. /\ t.h \in Nat /\ t.m \in Nat /\ t.s \in Nat
      /\ t = [h |-> t.h, m |-> t.m, s |-> t.s, frac |-> t.frac]
  BY DEF Clocks
<1>2. t.h < Hours /\ t.m < Sixty /\ t.s < Sixty /\ IsFraction(t.frac)
      /\ clockNanos(t).is = n
  BY DEF clockNanos, Spells, SpellsNone
<1>3. f \in Nat /\ f < nanosPerSecond
  <2>1. t.frac \in Fractions
    BY DEF Clocks
  <2> QED
    BY <1>2, <2>1, FractionBelowSecond, Units
<1> HIDE DEF f
<1>4. /\ n \in Instants
      /\ n \div nanosPerHour = t.h
      /\ (n % nanosPerHour) \div nanosPerMinute = t.m
      /\ (n % nanosPerMinute) \div nanosPerSecond = t.s
      /\ n % nanosPerSecond = f
  BY <1>1, <1>2, <1>3, ClockParts
<1> HIDE DEF n
<1>5. showClock(n) = [h |-> t.h, m |-> t.m, s |-> t.s, frac |-> showFraction(f)]
  BY <1>4 DEF showClock
<1>6. QED
  BY <1>1, <1>2, <1>4, <1>5 DEF f

\* Every time of the day reads back from what a report shows of it
\* (temporal.go, parseLocalTime and showClock).
THEOREM TimeReadsBack ==
  ASSUME NEW n \in Instants
  PROVE  parseLocalTime(showClock(n)) = Spells(<<"LocalTime", n>>)
<1>1. clockNanos(showClock(n)) = Spells(n)
  BY ClockReadsBack
<1>2. Spells(n).ok /\ Spells(n).is = n
  BY DEF Spells
<1>3. QED
  BY <1>1, <1>2, Zenon DEF parseLocalTime

(***************************************************************************)
(* Dates.                                                                  *)
(***************************************************************************)

DayOf(t) == DaysOf(t.y, t.m, t.d)
Most == 9999
FourDigits == 0 .. Most
TwoDigits == 0 .. 99

\* A text of a date has as many digits as its fields are long.
LEMMA FieldsAre ==
  ASSUME NEW t
  PROVE  InFields(t) <=> t.y \in FourDigits /\ t.m \in TwoDigits /\ t.d \in TwoDigits
BY DEF InFields, Most, FourDigits, TwoDigits

LEMMA DateAnswers ==
  ASSUME NEW t
  PROVE  /\ dateDays(t).ok <=> InFields(t) /\ CivilOf(DayOf(t)) = t
         /\ dateDays(t).ok => dateDays(t) = Spells(DayOf(t)) /\ dateDays(t).is = DayOf(t)
<1> DEFINE Reads == InFields(t) /\ CivilOf(DayOf(t)) = t
<1>1. Spells(DayOf(t)).ok /\ Spells(DayOf(t)).is = DayOf(t) /\ ~SpellsNone.ok
  BY DEF Spells, SpellsNone
<1>2. CASE Reads
  <2>1. dateDays(t) = Spells(DayOf(t))
    BY <1>2, Zenon DEF dateDays, DayOf
  <2>2. QED
    BY <1>1, <1>2, <2>1, Zenon
<1>3. CASE ~Reads
  <2>1. dateDays(t) = SpellsNone
    BY <1>3, Zenon DEF dateDays, DayOf
  <2>2. QED
    BY <1>1, <1>3, <2>1, Zenon
<1>4. QED
  BY <1>2, <1>3, Zenon

\* A date reads exactly when the calendar has it and its year is one of the
\* four digits written: a day or a month that would roll over, in whatever
\* year, is refused.  What it reads as is shown as it was written
\* (temporal.go, dateDays).
THEOREM CalendarOnly ==
  ASSUME NEW t \in [y : Int, m : Int, d : Int]
  PROVE  /\ dateDays(t).ok <=> t \in Calendar /\ t.y \in FourDigits
         /\ dateDays(t).ok => showDate(dateDays(t).is) = t
<1> DEFINE y == t.y
           m == t.m
           d == t.d
           days == DaysOf(y, m, d)
<1>1. y \in Int /\ m \in Int /\ d \in Int
  OBVIOUS
<1>2. dateDays(t).ok <=> InFields(t) /\ CivilOf(DayOf(t)) = t
  BY DateAnswers, Zenon
<1>3. dateDays(t).ok => dateDays(t).is = DayOf(t)
  BY DateAnswers, Zenon
<1>4. DayOf(t) = days
  BY DEF DayOf
<1>5. ASSUME InFields(t)
      PROVE  days \in Int
  <2>1. y \in Int /\ m \in Int /\ d \in Int
    BY <1>1, Zenon
  <2> DEFINE w == y + ((m - 1) \div 12)
             k == ((m - 1) % 12) + 1
  <2>2. w \in Int /\ k \in 1 .. 12
    <3> HIDE DEF y, m
    <3>1. y \in Int /\ m \in Int
      BY <2>1
    <3>2. (m - 1) \div 12 \in Int /\ (m - 1) % 12 \in 0 .. 11
      BY <3>1
    <3> QED
      BY <3>1, <3>2
  <2>3. days = YearStart(w) + MonthStart(w, k) + d - 1
    BY DEF DaysOf
  <2> HIDE DEF w, k
  <2>4. YearStart(w) \in Int /\ MonthStart(w, k) \in Nat
    BY <2>2, YearStarts, MonthTypes
  <2> HIDE DEF days
  <2> QED
    BY <2>1, <2>3, <2>4
<1>6. ASSUME dateDays(t).ok PROVE t \in Calendar /\ t.y \in FourDigits
  <2>1. InFields(t) /\ CivilOf(DayOf(t)) = t
    BY <1>2, <1>6, Zenon
  <2>2. InFields(t) /\ CivilOf(days) = t
    BY <1>4, <2>1, Zenon
  <2>3. days \in Int
    BY <1>5, <2>2, Zenon
  <2> HIDE DEF days
  <2>4. t \in Calendar
    BY <2>2, <2>3, DateOfDay
  <2>5. t.y \in FourDigits
    BY <2>2, FieldsAre, Zenon
  <2> QED
    BY <2>4, <2>5
<1>7. ASSUME t \in Calendar, t.y \in FourDigits PROVE dateDays(t).ok
  <2>1. CivilOf(DayOf(t)) = t
    BY <1>7, DayOfDate DEF DayOf
  <2>2. m \in 1 .. 12 /\ d \in Nat \ {0} /\ d <= DaysIn(y, m)
    BY <1>7 DEF Calendar
  <2>3. DaysIn(y, m) \in 28 .. 31
    BY DEF DaysIn
  <2>4. d \in TwoDigits /\ m \in TwoDigits
    <3> HIDE DEF y, m, d, days
    <3> QED
      BY <2>2, <2>3 DEF TwoDigits
  <2>5. InFields(t)
    BY <1>7, <2>4, FieldsAre, Zenon
  <2> QED
    BY <1>2, <2>1, <2>5, Zenon
<1>8. dateDays(t).ok => showDate(dateDays(t).is) = t
  BY <1>2, <1>3, Zenon DEF showDate
<1>9. QED
  BY <1>6, <1>7, <1>8, Zenon

\* The days four digits of a year reach.
Days == YearStart(0) .. YearStart(10000) - 1

LEMMA DayReadsBack ==
  ASSUME NEW n \in Days
  PROVE  dateDays(showDate(n)) = Spells(n)
<1> DEFINE t == CivilOf(n)
<1>1. n \in Int /\ YearStart(0) <= n /\ n < YearStart(10000)
  <2>1. YearStart(0) \in Int /\ YearStart(10000) \in Int
    BY YearStarts
  <2> QED
    BY <2>1 DEF Days
<1>3. t \in Calendar /\ DaysOf(t.y, t.m, t.d) = n
  BY <1>1, DateOfDay
<1> HIDE DEF t
<1>4. t.y \in Int /\ YearStart(t.y) <= n /\ n < YearStart(t.y + 1)
  <2>1. t.y \in Int
    BY <1>3 DEF Calendar
  <2> QED
    BY <1>3, <2>1, DayOfDate
<1>5. t.y \in FourDigits
  <2> DEFINE y == t.y
  <2>1. y \in Int /\ YearStart(y) <= n /\ n < YearStart(y + 1)
    BY <1>4
  <2> HIDE DEF y
  <2> DEFINE first == 0
             past == 10000
  <2>2. /\ first \in Int /\ past \in Int /\ y + 1 \in Int
        /\ YearStart(first) <= n /\ n < YearStart(past)
    BY <1>1, <2>1
  <2>3. (y < 0 => y + 1 <= first) /\ Most \in Int /\ (y > Most => past <= y)
    <3>1. (y < 0 => y + 1 <= first) /\ Most \in Int
      BY <2>1 DEF Most
    <3>2. y > Most => past <= y
      BY <2>1 DEF Most
    <3> QED BY <3>1, <3>2
  <2> HIDE DEF first, past
  <2>4. /\ YearStart(first) \in Int /\ YearStart(past) \in Int
        /\ YearStart(y) \in Int /\ YearStart(y + 1) \in Int
    BY <2>1, <2>2, YearStartsOn, Zenon
  <2>5. /\ y + 1 <= first => YearStart(y + 1) <= YearStart(first)
        /\ past <= y => YearStart(past) <= YearStart(y)
    BY <2>1, <2>2, YearsSince, Zenon
  <2>6. y >= 0 /\ y <= Most
    BY <1>1, <2>1, <2>2, <2>3, <2>4, <2>5
  <2>7. y \in 0 .. Most
    BY <2>1, <2>3, <2>6
  <2> QED
    BY <2>7, Zenon DEF y, FourDigits
<1>6. t \in [y : Int, m : Int, d : Int]
  BY <1>3 DEF Calendar
<1>7. dateDays(t).ok
  <2>1. dateDays(t).ok <=> t \in Calendar /\ t.y \in FourDigits
    BY <1>6, CalendarOnly, Zenon
  <2> QED
    BY <1>3, <1>5, <2>1, Zenon
<1>8. dateDays(t) = Spells(n)
  BY <1>3, <1>7, DateAnswers, Zenon DEF DayOf
<1>9. QED
  BY <1>8 DEF showDate, t

\* Every day of the years 0 to 9999 reads back from what a report shows of it
\* (temporal.go, parseDate).
THEOREM DateReadsBack ==
  ASSUME NEW n \in Days
  PROVE  parseDate(showDate(n)) = Spells(<<"Date", n>>)
<1>1. dateDays(showDate(n)) = Spells(n)
  BY DayReadsBack
<1>2. Spells(n).ok /\ Spells(n).is = n
  BY DEF Spells
<1>3. QED
  BY <1>1, <1>2, Zenon DEF parseDate

(***************************************************************************)
(* Offsets and stamps.                                                     *)
(***************************************************************************)

LEMMA OffsetReadsBack ==
  ASSUME NEW o \in Offsets
  PROVE  splitOffset(showOffset(o)) = Spells(o)
<1> DEFINE size == IF o < 0 THEN -o ELSE o
           most == MaxOffset * Sixty
           h == size \div Sixty
           m == size % Sixty
<1>1. most \in Nat /\ MaxOffset \in Nat
  BY Units, SpellingAssumption
<1>2. o \in Int /\ size \in Nat /\ size <= most
  BY <1>1 DEF Offsets
<1>3. size = Sixty * h + m /\ m < Sixty /\ h \in Int /\ m \in Int
  BY <1>2, Units, Division
<1>4. CASE o = 0
  <2>1. Zulu.h * Sixty + Zulu.m = 0 /\ 0 < Sixty
    BY Units DEF Zulu
  <2>2. splitOffset(Zulu) = Spells(0)
    BY <1>1, <2>1 DEF splitOffset, Zulu
  <2> QED
    BY <1>4, <2>2 DEF showOffset
<1>5. CASE o # 0
  <2> DEFINE t == [sign |-> IF o < 0 THEN "-" ELSE "+", h |-> h, m |-> m]
  <2>1. showOffset(o) = t
    BY <1>5 DEF showOffset
  <2> HIDE DEF h, m
  <2>2. t.h * Sixty + t.m = size /\ t.m < Sixty
    BY <1>3, Units
  <2>3. t.sign = "-" <=> o < 0
    OBVIOUS
  <2> HIDE DEF t
  <2>4. splitOffset(t) = Spells(IF o < 0 THEN -size ELSE size)
    BY <1>2, <2>2, <2>3 DEF splitOffset
  <2>5. (IF o < 0 THEN -size ELSE size) = o
    BY <1>2
  <2> QED
    BY <2>1, <2>4, <2>5
<1>6. QED
  BY <1>4, <1>5

LEMMA StampShownReads ==
  ASSUME NEW n \in Int64s, n \div nanosPerDay \in Days
  PROVE  stampNanos(showStamp(n)) = Spells(n)
<1> DEFINE d == n \div nanosPerDay
           f == n % nanosPerDay
<1>1. Int64(n) = n /\ n \in Int
  BY Int64Keeps DEF Int64s
<1>2. d \in Int /\ f \in Int /\ 0 <= f /\ f < nanosPerDay /\ n = nanosPerDay * d + f
  BY <1>1, Units, Division
<1>3. floorDiv(n, nanosPerDay) = d
  BY <1>1, Units, FloorDivision
<1>4. d \in Days
  OBVIOUS
<1> HIDE DEF d, f
<1>5. n - d * nanosPerDay = f
  <2>1. nanosPerDay * d \in Int /\ d * nanosPerDay = nanosPerDay * d
    BY <1>2, Units
  <2> QED
    BY <1>1, <1>2, <2>1
<1>6. showStamp(n) = [date |-> showDate(d), clock |-> showClock(f)]
  BY <1>3, <1>5 DEF showStamp
<1>7. f \in Instants
  BY <1>2, Units DEF Instants
<1>8. dateDays(showDate(d)) = Spells(d) /\ clockNanos(showClock(f)) = Spells(f)
  BY <1>4, <1>7, DayReadsBack, ClockReadsBack
<1>9. d * nanosPerDay + f = n
  BY <1>2, Units
<1>10. /\ Spells(d).ok /\ Spells(d).is = d
       /\ Spells(f).ok /\ Spells(f).is = f
  BY DEF Spells
<1>11. stampNanos(showStamp(n)) = Spells(Int64(d * nanosPerDay + f))
  BY <1>6, <1>8, <1>10 DEF stampNanos
<1>12. QED
  BY <1>1, <1>9, <1>11

(* Counts of so many bits are a circle, and the way there and back on it   *)
(* is no way at all.                                                       *)
LEMMA Turn ==
  ASSUME NEW a \in Int, NEW b \in Int, NEW d \in Nat \ {0}
  PROVE  (((a + b) % d) - b) % d = a % d
<1> DEFINE q == (a + b) \div d
           r == (a + b) % d
           k == a \div d
           f == a % d
<1>1. q \in Int /\ r \in Int /\ a + b = d * q + r /\ a + b \in Int
  BY Division
<1>2. k \in Int /\ f \in Int /\ 0 <= f /\ f < d /\ a = d * k + f
  BY Division
<1> HIDE DEF q, r, k, f
<1>3. r - b = d * (k - q) + f /\ k - q \in Int /\ r - b \in Int
  <2>1. d * (k - q) = d * k - d * q /\ d * k \in Int /\ d * q \in Int
    BY <1>1, <1>2
  <2> QED
    BY <1>1, <1>2, <2>1
<1>4. (r - b) % d = f
  <2> DEFINE n == r - b
             j == k - q
  <2>1. n = d * j + f /\ n \in Int /\ j \in Int
    BY <1>3
  <2> HIDE DEF n, j
  <2>2. n % d = f
    BY <1>2, <2>1, DivisionUnique
  <2> QED
    BY <2>2 DEF n
<1>5. QED
  BY <1>4 DEF r, f

LEMMA Int64Turn ==
  ASSUME NEW n \in Int64s, NEW b \in Int
  PROVE  Int64(n + b) \in Int64s /\ Int64(Int64(n + b) - b) = n
<1> DEFINE low == Lowest
           all == 2 ^ Bits
           a == n - low
           r == (a + b) % all
<1>1. all \in Nat \ {0} /\ low \in Int /\ all = -2 * low
  <2> DEFINE half == 2 ^ (Bits - 1)
  <2>1. half \in Nat \ {0} /\ all = 2 * half /\ low = -half
    BY PowersAssumption DEF Lowest
  <2> HIDE DEF half, all, low
  <2> QED
    BY <2>1
<1>2. n \in Int /\ a \in Int /\ 0 <= a /\ a < all
  <2> HIDE DEF all
  <2> QED
    BY <1>1 DEF Int64s
<1>3. Int64(n + b) = r + low
  <2>1. (n + b) - low = a + b
    BY <1>1, <1>2
  <2> QED
    BY <2>1 DEF Int64
<1>4. r \in Int /\ 0 <= r /\ r < all
  <2> HIDE DEF a, all
  <2> QED
    BY <1>1, <1>2, Division
<1>5. Int64(n + b) \in Int64s
  <2> HIDE DEF r, all
  <2> QED
    BY <1>1, <1>3, <1>4 DEF Int64s
<1>6. Int64(r + low - b) = ((r - b) % all) + low
  <2>1. (r + low - b) - low = r - b
    <3> HIDE DEF r, low
    <3> QED
      BY <1>1, <1>4
  <2> QED
    BY <2>1 DEF Int64
<1>7. (r - b) % all = a % all
  <2> HIDE DEF a, all
  <2> QED
    BY <1>1, <1>2, Turn
<1>8. a % all = a
  <2> HIDE DEF a, all
  <2> QED
    BY <1>1, <1>2
<1> HIDE DEF r, all
<1>9. a + low = n
  BY <1>1, <1>2
<1> HIDE DEF a, low
<1>10. Int64(Int64(n + b) - b) = n
  <2> DEFINE v == Int64(n + b)
  <2>1. v = r + low
    BY <1>3
  <2>2. Int64(r + low - b) = n
    BY <1>6, <1>7, <1>8, <1>9
  <2> HIDE DEF v
  <2>3. Int64(v - b) = n
    <3>1. v - b = r + low - b
      BY <1>1, <1>4, <2>1
    <3> QED
      BY <2>2, <3>1
  <2> QED
    BY <2>3 DEF v
<1>11. QED
  BY <1>5, <1>10

(* The counts do not leave the years of four digits.                       *)
LEMMA DaysOfCounts ==
  ASSUME NEW n \in Int64s
  PROVE  n \div nanosPerDay \in Days
<1> DEFINE day == nanosPerDay
           low == Lowest
           first == YearStart(0)
           last == YearStart(10000)
<1>1. day \in Nat \ {0} /\ low \in Int
  BY Units, PowersAssumption DEF Lowest
<1>2. first <= low \div day /\ (-low - 1) \div day < last
  BY CalendarAssumption
<1>3. first \in Int /\ last \in Int
  BY YearStarts
<1>4. n \in Int /\ low <= n /\ n <= -low - 1
  BY <1>1 DEF Int64s
<1> HIDE DEF day, low, first, last
<1>5. ASSUME NEW a \in Int, NEW b \in Int, a <= b
      PROVE  a \div day <= b \div day /\ a \div day \in Int
  <2> DEFINE p == a \div day
             q == b \div day
             r == a % day
             t == b % day
  <2>1. /\ p \in Int /\ r \in Int /\ 0 <= r /\ r < day /\ a = day * p + r
        /\ q \in Int /\ t \in Int /\ 0 <= t /\ t < day /\ b = day * q + t
    BY <1>1, Division
  <2> HIDE DEF p, q, r, t
  <2>2. day * p < day * (q + 1)
    <3>1. day * (q + 1) = day * q + day /\ day * p \in Int /\ day * q \in Int
      BY <1>1, <2>1
    <3> QED
      BY <1>1, <1>5, <2>1, <3>1
  <2>3. p < q + 1
    BY <1>1, <2>1, <2>2, Cancel
  <2> QED
    BY <2>1, <2>3 DEF p, q
<1>6. low \div day <= n \div day /\ n \div day <= (-low - 1) \div day
      /\ n \div day \in Int /\ (-low - 1) \div day \in Int /\ low \div day \in Int
  BY <1>1, <1>4, <1>5
<1> QED
  BY <1>2, <1>3, <1>6 DEF Days, day, first, last

\* Every stamp, before 1970 and after, reads back from what a report shows of
\* it (temporal.go, parseLocalDateTime and showStamp).
THEOREM StampReadsBack ==
  ASSUME NEW n \in Int64s
  PROVE  parseLocalDateTime(showStamp(n)) = Spells(<<"LocalDateTime", n>>)
<1>1. stampNanos(showStamp(n)) = Spells(n)
  BY StampShownReads, DaysOfCounts
<1>2. Spells(n).ok /\ Spells(n).is = n
  BY DEF Spells
<1>3. QED
  BY <1>1, <1>2, Zenon DEF parseLocalDateTime

\* Every instant at every offset reads back, even where the wall clock at the
\* offset is past the last count and goes round to the first (temporal.go,
\* parseZonedDateTime and showOffset, and Show of values.go:664).
THEOREM ZonedReadsBack ==
  ASSUME NEW n \in Int64s, NEW o \in Offsets
  PROVE  parseZonedDateTime(showZoned(n, o)) = Spells(<<"ZonedDateTime", n, o>>)
<1> DEFINE away == o * nanosPerMinute
           wall == Int64(n + away)
           t == showZoned(n, o)
<1>1. away \in Int
  <2>1. MaxOffset * Sixty \in Int
    BY Units, SpellingAssumption
  <2> QED
    BY <2>1, Units DEF Offsets
<1> HIDE DEF away
<1>2. wall \in Int64s /\ Int64(wall - away) = n
  BY <1>1, Int64Turn
<1>3. t.stamp = showStamp(wall) /\ t.offset = showOffset(o)
  BY DEF showZoned, away
<1> HIDE DEF wall, t
<1>4. stampNanos(t.stamp) = Spells(wall)
  BY <1>2, <1>3, StampShownReads, DaysOfCounts
<1>5. splitOffset(t.offset) = Spells(o)
  BY <1>3, OffsetReadsBack
<1>6. /\ Spells(wall).ok /\ Spells(wall).is = wall
      /\ Spells(o).ok /\ Spells(o).is = o
  BY DEF Spells
<1>7. parseZonedDateTime(t) = Spells(<<"ZonedDateTime", Int64(wall - away), o>>)
  BY <1>4, <1>5, <1>6, Zenon DEF parseZonedDateTime, away
<1>8. QED
  BY <1>2, <1>7, Zenon DEF t

\* Every time of the day at every offset reads back, the wall clock and not the
\* instant (temporal.go, parseZonedTime).
THEOREM ZonedTimeReadsBack ==
  ASSUME NEW n \in Instants, NEW o \in Offsets
  PROVE  parseZonedTime([clock |-> showClock(n), offset |-> showOffset(o)])
             = Spells(<<"ZonedTime", n, o>>)
<1> DEFINE t == [clock |-> showClock(n), offset |-> showOffset(o)]
<1>1. t.clock = showClock(n) /\ t.offset = showOffset(o)
  OBVIOUS
<1> HIDE DEF t
<1>2. clockNanos(t.clock) = Spells(n) /\ splitOffset(t.offset) = Spells(o)
  BY <1>1, ClockReadsBack, OffsetReadsBack
<1>3. /\ Spells(n).ok /\ Spells(n).is = n
      /\ Spells(o).ok /\ Spells(o).is = o
  BY DEF Spells
<1>4. parseZonedTime(t) = Spells(<<"ZonedTime", n, o>>)
  BY <1>2, <1>3, Zenon DEF parseZonedTime
<1>5. QED
  BY <1>4 DEF t

(***************************************************************************)
(* Sums. A fold is the last of its partial sums, and a field that is left  *)
(* out of a duration because it is nothing leaves the sum as it was.       *)
(***************************************************************************)

\* Induction, said of a set.
LEMMA Induction ==
    ASSUME NEW S \in SUBSET Nat, 0 \in S, \A n \in S : n + 1 \in S
    PROVE  \A n \in Nat : n \in S
<1> SUFFICES ASSUME NEW m \in Nat \ S PROVE FALSE
  OBVIOUS
<1> DEFINE R == OpToRel(<, Nat)
<1>1. PICK n \in Nat \ S : \A k \in Nat \ S : ~ (<<k, n>> \in R)
  <2>1. IsWellFoundedOn(R, Nat)
    BY NatLessThanWellFounded
  <2> HIDE DEF R
  <2> QED BY <2>1, WFMin
<1>2. \A k \in Nat \ S : ~ (k < n)
  BY <1>1 DEF OpToRel
<1>3. n - 1 \in Nat /\ n - 1 \in S
  <2>1. n # 0 /\ n - 1 \in Nat /\ n - 1 < n
    OBVIOUS
  <2> QED BY <1>2, <2>1
<1>4. n \in S
  BY <1>3, (n - 1) + 1 = n
<1> QED BY <1>4

(* A sum is that of all but the last, and the last.                        *)
Summed(t, h, s) ==
    IF s = {} THEN 0
    ELSE LET x == CHOOSE x \in s : \A y \in s : x >= y IN h[s \ {x}] + t[x]

\* A sum that is folded is one of a function on the sets of its places.
LEMMA SummedIs ==
  ASSUME NEW N \in Nat, NEW t, DOMAIN t = 1 .. N
  PROVE  \E h : /\ h = [s \in SUBSET (1 .. N) |-> Summed(t, h, s)]
                /\ Total(t) = h[1 .. N]
<1> DEFINE Is(h, n) == h = [s \in SUBSET (1 .. n) |-> Summed(t, h, s)]
           S == {n \in Nat : \E h : Is(h, n)}
<1>1. 0 \in S
  <2> DEFINE h == [s \in SUBSET (1 .. 0) |-> 0]
  <2>1. \A s \in SUBSET (1 .. 0) : Summed(t, h, s) = 0
    BY DEF Summed
  <2>2. Is(h, 0)
    <3> HIDE DEF Summed
    <3> QED BY <2>1
  <2> QED BY <2>2
<1>2. ASSUME NEW n \in S PROVE n + 1 \in S
  <2>0. n \in Nat /\ n + 1 \in Nat
    OBVIOUS
  <2>1. PICK g : Is(g, n)
    OBVIOUS
  <2> DEFINE m == n + 1
             h == [s \in SUBSET (1 .. m) |-> IF m \in s THEN g[s \ {m}] + t[m] ELSE g[s]]
  <2>2. ASSUME NEW s \in SUBSET (1 .. m) PROVE h[s] = Summed(t, h, s)
    <3>1. CASE m \in s
      <4> DEFINE x == CHOOSE x \in s : \A y \in s : x >= y
      <4>1. x = m
        <5>1. \A y \in s : m >= y
          BY <2>0
        <5>2. x \in s /\ \A y \in s : x >= y
          BY <3>1, <5>1
        <5> HIDE DEF x
        <5> QED BY <2>0, <3>1, <5>1, <5>2
      <4>2. s \ {m} \in SUBSET (1 .. m) /\ m \notin s \ {m} /\ s # {}
        BY <3>1
      <4>3. h[s \ {m}] = g[s \ {m}]
        BY <4>2
      <4>4. h[s] = g[s \ {m}] + t[m]
        BY <3>1
      <4>5. Summed(t, h, s) = h[s \ {x}] + t[x]
        <5> HIDE DEF h
        <5> QED BY <4>2 DEF Summed
      <4> HIDE DEF h, x
      <4> QED BY <4>1, <4>3, <4>4, <4>5
    <3>2. CASE m \notin s
      <4>1. s \in SUBSET (1 .. n)
        BY <2>0, <3>2
      <4>2. h[s] = g[s] /\ g[s] = Summed(t, g, s)
        <5>1. h[s] = g[s]
          BY <3>2
        <5> HIDE DEF h
        <5> QED BY <2>1, <4>1, <5>1
      <4>3. Summed(t, g, s) = Summed(t, h, s)
        <5>1. CASE s = {}
          BY <5>1 DEF Summed
        <5>2. CASE s # {}
          <6> DEFINE x == CHOOSE x \in s : \A y \in s : x >= y
          <6>1. s \ {x} \in SUBSET (1 .. m) /\ m \notin s \ {x}
            BY <3>2
          <6>2. h[s \ {x}] = g[s \ {x}]
            <7> HIDE DEF x
            <7> QED BY <6>1
          <6> HIDE DEF h
          <6>3. /\ Summed(t, h, s) = h[s \ {x}] + t[x]
                /\ Summed(t, g, s) = g[s \ {x}] + t[x]
            BY <5>2 DEF Summed
          <6> HIDE DEF x
          <6> QED BY <6>2, <6>3
        <5> QED BY <5>1, <5>2
      <4> QED BY <4>2, <4>3
    <3> QED BY <3>1, <3>2
  <2>3. Is(h, m)
    <3>1. h = [s \in SUBSET (1 .. m) |-> h[s]]
      OBVIOUS
    <3> HIDE DEF h
    <3> QED BY <2>2, <3>1
  <2> QED BY <2>0, <2>3
<1>3. \E h : Is(h, N)
  <2> HIDE DEF Is
  <2>1. S \in SUBSET Nat
    OBVIOUS
  <2>2. \A n \in Nat : n \in S
    <3> HIDE DEF S
    <3> QED BY <1>1, <1>2, <2>1, Induction
  <2> QED BY <2>2
<1> DEFINE h == CHOOSE h : h = [s \in SUBSET (1 .. N) |-> Summed(t, h, s)]
<1>4. Is(h, N)
  BY <1>3
<1>5. Total(t) = h[1 .. N]
  BY DEF Total, FoldLeft, MapThenFoldSet, Summed, Max
<1> QED BY <1>4, <1>5

\* Every sum is one of partial sums, each the one before and a term.
LEMMA SummedUpTo ==
  ASSUME NEW N \in Nat, NEW t, DOMAIN t = 1 .. N, \A i \in 1 .. N : t[i] \in Int
  PROVE  \E g : /\ g[0] = 0 /\ Total(t) = g[N]
                /\ \A i \in 1 .. N : g[i] = g[i - 1] + t[i]
                /\ \A i \in 0 .. N : g[i] \in Int
<1>1. PICK h : /\ h = [s \in SUBSET (1 .. N) |-> Summed(t, h, s)]
               /\ Total(t) = h[1 .. N]
  BY SummedIs
<1> DEFINE g == [i \in 0 .. N |-> h[1 .. i]]
<1>2. \A s \in SUBSET (1 .. N) : h[s] = Summed(t, h, s)
  <2> TAKE s \in SUBSET (1 .. N)
  <2> QED BY <1>1, Zenon
<1>3. g[0] = 0
  <2>1. 1 .. 0 = {} /\ 1 .. 0 \in SUBSET (1 .. N)
    OBVIOUS
  <2>2. h[1 .. 0] = 0
    BY <1>2, <2>1 DEF Summed
  <2> QED BY <2>2
<1>4. Total(t) = g[N]
  BY <1>1
<1>5. ASSUME NEW i \in 1 .. N PROVE g[i] = g[i - 1] + t[i]
  <2> DEFINE s == 1 .. i
             x == CHOOSE x \in s : \A y \in s : x >= y
  <2>1. x = i
    <3>1. i \in s /\ \A y \in s : i >= y
      OBVIOUS
    <3>2. x \in s /\ \A y \in s : x >= y
      BY <3>1
    <3> HIDE DEF x
    <3> QED BY <3>1, <3>2
  <2>2. s \in SUBSET (1 .. N) /\ s # {} /\ s \ {i} = 1 .. i - 1
    OBVIOUS
  <2>3. Summed(t, h, s) = h[s \ {x}] + t[x]
    <3> HIDE DEF s
    <3> QED BY <2>2 DEF Summed
  <2>4. h[s] = h[1 .. i - 1] + t[i]
    <3> HIDE DEF x
    <3>1. h[s] = Summed(t, h, s)
      BY <1>2, <2>2
    <3> QED BY <2>1, <2>2, <2>3, <3>1
  <2> HIDE DEF s
  <2>5. i \in 0 .. N /\ i - 1 \in 0 .. N
    OBVIOUS
  <2> QED BY <2>4, <2>5 DEF s
<1>6. \A i \in 0 .. N : g[i] \in Int
  <2> HIDE DEF g
  <2> DEFINE S == {i \in Nat : i <= N => g[i] \in Int}
  <2>1. 0 \in S /\ S \in SUBSET Nat
    BY <1>3
  <2>2. ASSUME NEW i \in S PROVE i + 1 \in S
    <3>1. CASE i + 1 <= N
      <4>1. i + 1 \in 1 .. N /\ (i + 1) - 1 = i /\ g[i] \in Int
        BY <3>1
      <4> QED BY <1>5, <4>1
    <3> QED BY <3>1
  <2>3. \A n \in Nat : n \in S
    <3> HIDE DEF S
    <3> QED BY <2>1, <2>2, Induction
  <2> QED BY <2>3
<1> HIDE DEF g
<1> QED BY <1>3, <1>4, <1>5, <1>6

\* Integers add up to one.
LEMMA TotalIsInt ==
  ASSUME NEW N \in Nat, NEW t, DOMAIN t = 1 .. N, \A i \in 1 .. N : t[i] \in Int
  PROVE  Total(t) \in Int
<1>1. PICK g : Total(t) = g[N] /\ \A i \in 0 .. N : g[i] \in Int
  BY SummedUpTo
<1> QED BY <1>1

\* What three terms or fewer add up to.
LEMMA TotalOfThree ==
  ASSUME NEW N \in Nat, N <= 3, NEW t, DOMAIN t = 1 .. N, \A i \in 1 .. N : t[i] \in Int
  PROVE  Total(t) = (IF N >= 1 THEN t[1] ELSE 0) + (IF N >= 2 THEN t[2] ELSE 0)
                        + (IF N >= 3 THEN t[3] ELSE 0)
<1>1. PICK g : /\ g[0] = 0 /\ Total(t) = g[N]
               /\ \A i \in 1 .. N : g[i] = g[i - 1] + t[i]
               /\ \A i \in 0 .. N : g[i] \in Int
  BY SummedUpTo
<1>2. N >= 1 => g[1] = t[1]
  <2>1. N >= 1 => 1 \in 1 .. N /\ 1 - 1 = 0
    OBVIOUS
  <2> QED BY <1>1, <2>1
<1>3. N >= 2 => g[2] = g[1] + t[2]
  <2>1. N >= 2 => 2 \in 1 .. N /\ 2 - 1 = 1
    OBVIOUS
  <2> QED BY <1>1, <2>1
<1>4. N >= 3 => g[3] = g[2] + t[3]
  <2>1. N >= 3 => 3 \in 1 .. N /\ 3 - 1 = 2
    OBVIOUS
  <2> QED BY <1>1, <2>1
<1>5. /\ N >= 1 => t[1] \in Int
      /\ N >= 2 => t[2] \in Int
      /\ N >= 3 => t[3] \in Int
  OBVIOUS
<1>6. CASE N = 0
  BY <1>1, <1>6
<1>7. CASE N = 1
  BY <1>1, <1>2, <1>5, <1>7
<1>8. CASE N = 2
  BY <1>1, <1>2, <1>3, <1>5, <1>8
<1>9. CASE N = 3
  BY <1>1, <1>2, <1>3, <1>4, <1>5, <1>9
<1> QED BY <1>6, <1>7, <1>8, <1>9

\* Short sequences, joined.
LEMMA Joined ==
  ASSUME NEW x, NEW y, NEW z
  PROVE  /\ <<>> \o <<>> = <<>>
         /\ <<x>> \o <<>> = <<x>> /\ <<>> \o <<x>> = <<x>>
         /\ <<x>> \o <<y>> = <<x, y>>
         /\ <<x, y>> \o <<>> = <<x, y>> /\ <<x, y>> \o <<z>> = <<x, y, z>>
<1>1. <<>> \o <<>> = <<>>
  OBVIOUS
<1>2. <<x>> \o <<>> = <<x>>
  OBVIOUS
<1>3. <<>> \o <<x>> = <<x>>
  OBVIOUS
<1>5. <<x, y>> \o <<>> = <<x, y>>
  OBVIOUS
<1> DEFINE S == {x, y, z}
<1>6. <<x, y>> \o <<z>> = <<x, y, z>>
  <2> DEFINE s == <<x, y>> \o <<z>>
             u == <<x, y, z>>
  <2>1. <<x, y>> \in Seq(S) /\ <<z>> \in Seq(S) /\ u \in Seq(S)
    OBVIOUS
  <2>2. s \in Seq(S) /\ Len(s) = 3
    BY <2>1
  <2>3. s[1] = x /\ s[2] = y /\ s[3] = z
    BY <2>1
  <2> HIDE DEF s
  <2>4. DOMAIN s = 1 .. 3 /\ DOMAIN u = 1 .. 3 /\ s = [i \in 1 .. 3 |-> s[i]] /\ u = [i \in 1 .. 3 |-> u[i]]
    BY <2>1, <2>2
  <2>5. \A i \in 1 .. 3 : s[i] = u[i]
    BY <2>3
  <2> HIDE DEF u
  <2> QED BY <2>4, <2>5 DEF s, u
<1>4. <<x>> \o <<y>> = <<x, y>>
  <2> DEFINE s == <<x>> \o <<y>>
             u == <<x, y>>
  <2>1. <<x>> \in Seq(S) /\ <<y>> \in Seq(S) /\ u \in Seq(S)
    OBVIOUS
  <2>2. s \in Seq(S) /\ Len(s) = 2
    BY <2>1
  <2>3. s[1] = x /\ s[2] = y
    BY <2>1
  <2> HIDE DEF s
  <2>4. DOMAIN s = 1 .. 2 /\ DOMAIN u = 1 .. 2 /\ s = [i \in 1 .. 2 |-> s[i]] /\ u = [i \in 1 .. 2 |-> u[i]]
    BY <2>1, <2>2
  <2>5. \A i \in 1 .. 2 : s[i] = u[i]
    BY <2>3
  <2> HIDE DEF u
  <2> QED BY <2>4, <2>5 DEF s, u
<1> QED BY <1>1, <1>2, <1>3, <1>4, <1>5, <1>6

(* Up to three fields, of which some are kept.                             *)
Kept(K, x, y, z) ==
    (IF 1 \in K THEN <<x>> ELSE <<>>) \o (IF 2 \in K THEN <<y>> ELSE <<>>)
        \o (IF 3 \in K THEN <<z>> ELSE <<>>)

\* How many fields are kept, and which.
LEMMA KeptIs ==
  ASSUME NEW K, NEW x, NEW y, NEW z
  PROVE  Kept(K, x, y, z) =
            IF 1 \in K
            THEN IF 2 \in K THEN IF 3 \in K THEN <<x, y, z>> ELSE <<x, y>>
                 ELSE IF 3 \in K THEN <<x, z>> ELSE <<x>>
            ELSE IF 2 \in K THEN IF 3 \in K THEN <<y, z>> ELSE <<y>>
                 ELSE IF 3 \in K THEN <<z>> ELSE <<>>
<1>1. CASE 1 \notin K
  BY <1>1, Joined, Zenon DEF Kept
<1>2. CASE 1 \in K
  <2>1. CASE 2 \notin K
    <3>1. <<x>> \o <<>> = <<x>> /\ <<x>> \o <<z>> = <<x, z>>
      BY Joined
    <3> QED BY <1>2, <2>1, <3>1, Zenon DEF Kept
  <2>2. CASE 2 \in K
    BY <1>2, <2>2, Joined, Zenon DEF Kept
  <2> QED BY <2>1, <2>2
<1> QED BY <1>1, <1>2

\* A field that is kept is one of those there were.
LEMMA KeptFields ==
  ASSUME NEW K, NEW x, NEW y, NEW z, NEW fs, fs = Kept(K, x, y, z)
  PROVE  /\ \E N \in Nat : DOMAIN fs = 1 .. N
         /\ \A i \in DOMAIN fs :
               (1 \in K /\ fs[i] = x) \/ (2 \in K /\ fs[i] = y) \/ (3 \in K /\ fs[i] = z)
<1> DEFINE Some == \E N \in Nat : DOMAIN fs = 1 .. N
           Each == \A i \in DOMAIN fs :
               (1 \in K /\ fs[i] = x) \/ (2 \in K /\ fs[i] = y) \/ (3 \in K /\ fs[i] = z)
<1>9. fs = IF 1 \in K
           THEN IF 2 \in K THEN IF 3 \in K THEN <<x, y, z>> ELSE <<x, y>>
                ELSE IF 3 \in K THEN <<x, z>> ELSE <<x>>
           ELSE IF 2 \in K THEN IF 3 \in K THEN <<y, z>> ELSE <<y>>
                ELSE IF 3 \in K THEN <<z>> ELSE <<>>
  BY KeptIs, Zenon
<1>1. CASE 1 \notin K /\ 2 \notin K /\ 3 \notin K
  <2>1. fs = <<>>
    BY <1>1, <1>9, Zenon
  <2>2. DOMAIN fs = 1 .. 0 /\ DOMAIN fs = {}
    BY <2>1
  <2>3. Some
    BY <2>2
  <2>4. Each
    BY <1>1, <2>2, Zenon
  <2> QED BY <2>3, <2>4
<1>2. CASE 1 \notin K /\ 2 \notin K /\ 3 \in K
  <2>1. fs = <<z>>
    BY <1>2, <1>9, Zenon
  <2>2. DOMAIN fs = 1 .. 1 /\ \A i \in 1 .. 1 : fs[i] = z
    BY <2>1
  <2>3. Some
    BY <2>2
  <2>4. Each
    BY <1>2, <2>2, Zenon
  <2> QED BY <2>3, <2>4
<1>3. CASE 1 \notin K /\ 2 \in K /\ 3 \notin K
  <2>1. fs = <<y>>
    BY <1>3, <1>9, Zenon
  <2>2. DOMAIN fs = 1 .. 1 /\ \A i \in 1 .. 1 : fs[i] = y
    BY <2>1
  <2>3. Some
    BY <2>2
  <2>4. Each
    BY <1>3, <2>2, Zenon
  <2> QED BY <2>3, <2>4
<1>4. CASE 1 \notin K /\ 2 \in K /\ 3 \in K
  <2>1. fs = <<y, z>>
    BY <1>4, <1>9, Zenon
  <2>2. DOMAIN fs = 1 .. 2 /\ \A i \in 1 .. 2 : fs[i] = y \/ fs[i] = z
    BY <2>1
  <2>3. Some
    BY <2>2
  <2>4. Each
    BY <1>4, <2>2, Zenon
  <2> QED BY <2>3, <2>4
<1>5. CASE 1 \in K /\ 2 \notin K /\ 3 \notin K
  <2>1. fs = <<x>>
    BY <1>5, <1>9, Zenon
  <2>2. DOMAIN fs = 1 .. 1 /\ \A i \in 1 .. 1 : fs[i] = x
    BY <2>1
  <2>3. Some
    BY <2>2
  <2>4. Each
    BY <1>5, <2>2, Zenon
  <2> QED BY <2>3, <2>4
<1>6. CASE 1 \in K /\ 2 \notin K /\ 3 \in K
  <2>1. fs = <<x, z>>
    BY <1>6, <1>9, Zenon
  <2>2. DOMAIN fs = 1 .. 2 /\ \A i \in 1 .. 2 : fs[i] = x \/ fs[i] = z
    BY <2>1
  <2>3. Some
    BY <2>2
  <2>4. Each
    BY <1>6, <2>2, Zenon
  <2> QED BY <2>3, <2>4
<1>7. CASE 1 \in K /\ 2 \in K /\ 3 \notin K
  <2>1. fs = <<x, y>>
    BY <1>7, <1>9, Zenon
  <2>2. DOMAIN fs = 1 .. 2 /\ \A i \in 1 .. 2 : fs[i] = x \/ fs[i] = y
    BY <2>1
  <2>3. Some
    BY <2>2
  <2>4. Each
    BY <1>7, <2>2, Zenon
  <2> QED BY <2>3, <2>4
<1>8. CASE 1 \in K /\ 2 \in K /\ 3 \in K
  <2>1. fs = <<x, y, z>>
    BY <1>8, <1>9, Zenon
  <2>2. DOMAIN fs = 1 .. 3 /\ \A i \in 1 .. 3 : fs[i] = x \/ fs[i] = y \/ fs[i] = z
    BY <2>1
  <2>3. Some
    BY <2>2
  <2>4. Each
    BY <1>8, <2>2, Zenon
  <2> QED BY <2>3, <2>4
<1> QED BY <1>1, <1>2, <1>3, <1>4, <1>5, <1>6, <1>7, <1>8, Zenon

(* What a field that may be left out counts for.                          *)
IfKept(i, K, T, x) == IF i \in K THEN T[x] ELSE 0

\* A field that is left out is nothing, and a sum over all the fields is
\* the sum of the terms of those kept.
LEMMA TotalOfKept ==
  ASSUME NEW K,
         NEW x, NEW y, NEW z, NEW T,
         T[x] \in Int, T[y] \in Int, T[z] \in Int,
         NEW fs, fs = Kept(K, x, y, z),
         NEW t, DOMAIN t = DOMAIN fs, \A i \in DOMAIN fs : t[i] = T[fs[i]]
  PROVE  Total(t) =
            IfKept(1, K, T, x) + IfKept(2, K, T, y) + IfKept(3, K, T, z)
<1>0. ASSUME NEW N \in Nat, N <= 3, DOMAIN fs = 1 .. N, \A i \in 1 .. N : fs[i] \in {x, y, z}
      PROVE  Total(t) = (IF N >= 1 THEN T[fs[1]] ELSE 0) + (IF N >= 2 THEN T[fs[2]] ELSE 0)
                          + (IF N >= 3 THEN T[fs[3]] ELSE 0)
  <2>1. DOMAIN t = 1 .. N /\ \A i \in 1 .. N : t[i] = T[fs[i]] /\ t[i] \in Int
    BY <1>0
  <2>2. Total(t) = (IF N >= 1 THEN t[1] ELSE 0) + (IF N >= 2 THEN t[2] ELSE 0)
                          + (IF N >= 3 THEN t[3] ELSE 0)
    BY <1>0, <2>1, TotalOfThree
  <2>3. (N >= 1 => 1 \in 1 .. N) /\ (N >= 2 => 2 \in 1 .. N) /\ (N >= 3 => 3 \in 1 .. N)
    BY <1>0
  <2> QED BY <2>1, <2>2, <2>3
<1>9. fs = IF 1 \in K
           THEN IF 2 \in K THEN IF 3 \in K THEN <<x, y, z>> ELSE <<x, y>>
                ELSE IF 3 \in K THEN <<x, z>> ELSE <<x>>
           ELSE IF 2 \in K THEN IF 3 \in K THEN <<y, z>> ELSE <<y>>
                ELSE IF 3 \in K THEN <<z>> ELSE <<>>
  BY KeptIs, Zenon
<1>1. CASE 1 \notin K /\ 2 \notin K /\ 3 \notin K
  <2>1. fs = <<>>
    BY <1>1, <1>9, Zenon
  <2>2. 0 \in Nat /\ 0 <= 3 /\ DOMAIN fs = 1 .. 0 /\ 1 .. 0 = {}
    BY <2>1
  <2>3. Total(t) = 0
    <3>1. \A i \in 1 .. 0 : fs[i] \in {x, y, z}
      BY <2>2
    <3>3. Total(t) = (IF 0 >= 1 THEN T[fs[1]] ELSE 0) + (IF 0 >= 2 THEN T[fs[2]] ELSE 0)
                          + (IF 0 >= 3 THEN T[fs[3]] ELSE 0)
      BY <1>0, <2>2, <3>1, Zenon
    <3> QED BY <3>3
  <2>6. Total(t) = (IF 1 \in K THEN T[x] ELSE 0) + (IF 2 \in K THEN T[y] ELSE 0) + (IF 3 \in K THEN T[z] ELSE 0)
    BY <1>1, <2>3
  <2> QED BY <2>6 DEF IfKept
<1>2. CASE 1 \notin K /\ 2 \notin K /\ 3 \in K
  <2>1. fs = <<z>>
    BY <1>2, <1>9, Zenon
  <2>2. 1 \in Nat /\ DOMAIN fs = 1 .. 1 /\ fs[1] = z /\ \A i \in 1 .. 1 : fs[i] = z
    BY <2>1
  <2>3. Total(t) = T[z]
    BY <1>0, <2>2
  <2>6. Total(t) = (IF 1 \in K THEN T[x] ELSE 0) + (IF 2 \in K THEN T[y] ELSE 0) + (IF 3 \in K THEN T[z] ELSE 0)
    BY <1>2, <2>3
  <2> QED BY <2>6 DEF IfKept
<1>3. CASE 1 \notin K /\ 2 \in K /\ 3 \notin K
  <2>1. fs = <<y>>
    BY <1>3, <1>9, Zenon
  <2>2. 1 \in Nat /\ DOMAIN fs = 1 .. 1 /\ fs[1] = y /\ \A i \in 1 .. 1 : fs[i] = y
    BY <2>1
  <2>3. Total(t) = T[y]
    BY <1>0, <2>2
  <2>6. Total(t) = (IF 1 \in K THEN T[x] ELSE 0) + (IF 2 \in K THEN T[y] ELSE 0) + (IF 3 \in K THEN T[z] ELSE 0)
    BY <1>3, <2>3
  <2> QED BY <2>6 DEF IfKept
<1>4. CASE 1 \notin K /\ 2 \in K /\ 3 \in K
  <2>1. fs = <<y, z>>
    BY <1>4, <1>9, Zenon
  <2>2. /\ 2 \in Nat /\ DOMAIN fs = 1 .. 2 /\ fs[1] = y /\ fs[2] = z
        /\ \A i \in 1 .. 2 : fs[i] = y \/ fs[i] = z
    BY <2>1
  <2>3. Total(t) = T[y] + T[z]
    BY <1>0, <2>2
  <2>6. Total(t) = (IF 1 \in K THEN T[x] ELSE 0) + (IF 2 \in K THEN T[y] ELSE 0) + (IF 3 \in K THEN T[z] ELSE 0)
    BY <1>4, <2>3
  <2> QED BY <2>6 DEF IfKept
<1>5. CASE 1 \in K /\ 2 \notin K /\ 3 \notin K
  <2>1. fs = <<x>>
    BY <1>5, <1>9, Zenon
  <2>2. 1 \in Nat /\ DOMAIN fs = 1 .. 1 /\ fs[1] = x /\ \A i \in 1 .. 1 : fs[i] = x
    BY <2>1
  <2>3. Total(t) = T[x]
    BY <1>0, <2>2
  <2>6. Total(t) = (IF 1 \in K THEN T[x] ELSE 0) + (IF 2 \in K THEN T[y] ELSE 0) + (IF 3 \in K THEN T[z] ELSE 0)
    BY <1>5, <2>3
  <2> QED BY <2>6 DEF IfKept
<1>6. CASE 1 \in K /\ 2 \notin K /\ 3 \in K
  <2>1. fs = <<x, z>>
    BY <1>6, <1>9, Zenon
  <2>2. /\ 2 \in Nat /\ DOMAIN fs = 1 .. 2 /\ fs[1] = x /\ fs[2] = z
        /\ \A i \in 1 .. 2 : fs[i] = x \/ fs[i] = z
    BY <2>1
  <2>3. Total(t) = T[x] + T[z]
    BY <1>0, <2>2
  <2>6. Total(t) = (IF 1 \in K THEN T[x] ELSE 0) + (IF 2 \in K THEN T[y] ELSE 0) + (IF 3 \in K THEN T[z] ELSE 0)
    BY <1>6, <2>3
  <2> QED BY <2>6 DEF IfKept
<1>7. CASE 1 \in K /\ 2 \in K /\ 3 \notin K
  <2>1. fs = <<x, y>>
    BY <1>7, <1>9, Zenon
  <2>2. /\ 2 \in Nat /\ DOMAIN fs = 1 .. 2 /\ fs[1] = x /\ fs[2] = y
        /\ \A i \in 1 .. 2 : fs[i] = x \/ fs[i] = y
    BY <2>1
  <2>3. Total(t) = T[x] + T[y]
    BY <1>0, <2>2
  <2>6. Total(t) = (IF 1 \in K THEN T[x] ELSE 0) + (IF 2 \in K THEN T[y] ELSE 0) + (IF 3 \in K THEN T[z] ELSE 0)
    BY <1>7, <2>3
  <2> QED BY <2>6 DEF IfKept
<1>8. CASE 1 \in K /\ 2 \in K /\ 3 \in K
  <2>1. fs = <<x, y, z>>
    BY <1>8, <1>9, Zenon
  <2>2. /\ 3 \in Nat /\ DOMAIN fs = 1 .. 3 /\ fs[1] = x /\ fs[2] = y /\ fs[3] = z
        /\ \A i \in 1 .. 3 : fs[i] = x \/ fs[i] = y \/ fs[i] = z
    BY <2>1
  <2>3. Total(t) = T[x] + T[y] + T[z]
    BY <1>0, <2>2
  <2>6. Total(t) = (IF 1 \in K THEN T[x] ELSE 0) + (IF 2 \in K THEN T[y] ELSE 0) + (IF 3 \in K THEN T[z] ELSE 0)
    BY <1>8, <2>3
  <2> QED BY <2>6 DEF IfKept
<1> QED BY <1>1, <1>2, <1>3, <1>4, <1>5, <1>6, <1>7, <1>8, Zenon

(***************************************************************************)
(* Counts of so many bits, their sizes and their signs.                    *)
(***************************************************************************)

\* The counts there are, said with no powers.
LEMMA Counts ==
  /\ Lowest \in Int /\ Lowest < 0
  /\ 0 \in Int64s /\ Int64s \subseteq Int
  /\ \A n \in Int : n \in Int64s <=> Lowest <= n /\ n < -Lowest
<1> DEFINE half == 2 ^ (Bits - 1)
<1>1. half \in Nat \ {0} /\ Lowest = -half
  BY PowersAssumption DEF Lowest
<1> HIDE DEF half
<1> QED BY <1>1 DEF Int64s

\* Whatever goes round is a count.
LEMMA Int64Type ==
  ASSUME NEW n \in Int
  PROVE  Int64(n) \in Int64s
<1>1. 0 \in Int64s
  BY Counts
<1>2. Int64(0 + n) \in Int64s
  BY <1>1, Int64Turn, Zenon
<1> QED BY <1>2

\* A count does not go round.
LEMMA Int64Same ==
  ASSUME NEW n \in Int64s
  PROVE  Int64(n) = n
BY Int64Keeps DEF Int64s

(* All counts but the lowest have a size, and the size and the sign of a   *)
(* count are the count.                                                    *)
LEMMA MagnitudeIs ==
  ASSUME NEW n \in Int64s
  PROVE  /\ Magnitude(n) \in Int64s
         /\ n = Lowest => Magnitude(n) = Lowest
         /\ n # Lowest => Magnitude(n) = (IF n < 0 THEN -n ELSE n) /\ Magnitude(n) \in Nat
<1> DEFINE size == IF n < 0 THEN -n ELSE n
<1>1. n \in Int /\ Lowest \in Int /\ Lowest < 0 /\ Lowest <= n /\ n < -Lowest
  BY Counts
<1>2. Magnitude(n) = Int64(size)
  BY DEF Magnitude
<1>3. CASE n = Lowest
  <2>1. size = -Lowest
    BY <1>1, <1>3
  <2> DEFINE half == 2 ^ (Bits - 1)
  <2>2. half \in Nat \ {0} /\ Lowest = -half /\ 2 ^ Bits = 2 * half
    BY PowersAssumption DEF Lowest
  <2> HIDE DEF half
  <2>3. ((-Lowest) - Lowest) % 2 ^ Bits = 0
    <3>1. (-Lowest) - Lowest = 2 * half
      BY <2>2
    <3>2. (2 * half) % (2 * half) = 0
      BY <2>2
    <3> QED BY <2>2, <3>1, <3>2
  <2>4. Int64(-Lowest) = Lowest
    BY <1>1, <2>3 DEF Int64
  <2> QED BY <1>1, <1>2, <1>3, <2>1, <2>4, Counts
<1>4. CASE n # Lowest
  <2>1. size \in Int64s /\ size \in Nat
    <3>1. size \in Int /\ Lowest <= size /\ size < -Lowest /\ size >= 0
      BY <1>1, <1>4
    <3> HIDE DEF size
    <3> QED BY <3>1, Counts
  <2>2. Int64(size) = size
    BY <2>1, Int64Same
  <2> QED BY <1>2, <1>4, <2>1, <2>2
<1> QED BY <1>3, <1>4

\* Counts of one size and one sign are one count.
LEMMA SizeAndSign ==
  ASSUME NEW n \in Int64s, NEW k \in Int64s,
         Magnitude(n) = Magnitude(k), Sign(n) = Sign(k)
  PROVE  n = k
<1>1. n \in Int /\ k \in Int /\ Lowest \in Int /\ Lowest < 0
  BY Counts
<1>2. n < 0 <=> k < 0
  BY <1>1 DEF Sign
<1> QED BY <1>1, <1>2, MagnitudeIs

(* The part of a count that is whole units of so much, and the rest.       *)
Whole(a, b) == Quot(a, b) * b
Rest(a, b) == a - Whole(a, b)

\* Division towards zero and what it leaves, by the sign of what is
\* divided.
LEMMA Towards ==
  ASSUME NEW a \in Int, NEW b \in Nat \ {0}
  PROVE  /\ Quot(a, b) \in Int /\ Whole(a, b) \in Int /\ Rest(a, b) \in Int
         /\ a >= 0 => Quot(a, b) \in Nat /\ Whole(a, b) >= 0 /\ Rest(a, b) \in 0 .. b - 1
         /\ a <= 0 => Whole(a, b) <= 0 /\ Rest(a, b) \in 1 - b .. 0
<1> DEFINE k == Quot(a, b)
           w == k * b
           r == a - w
<1> DEFINE Goal == /\ k \in Int /\ w \in Int /\ r \in Int
                   /\ a >= 0 => k \in Nat /\ w >= 0 /\ r \in 0 .. b - 1
                   /\ a <= 0 => w <= 0 /\ r \in 1 - b .. 0
           c == IF a >= 0 THEN a ELSE -a
           q == c \div b
           f == c % b
<1>1. c \in Int /\ c >= 0
  OBVIOUS
<1>2. q \in Int /\ f \in Int /\ 0 <= f /\ f < b /\ c = b * q + f
  BY <1>1, Division
<1>3. k = IF a >= 0 THEN q ELSE -q
  BY DEF Quot
<1> HIDE DEF k
<1>4. (a >= 0 => c = a) /\ (~(a >= 0) => c = -a)
  OBVIOUS
<1> HIDE DEF q, f, c
<1>5. q >= 0
  <2>1. q < 0 => q <= -1
    BY <1>2
  <2>2. q <= -1 => b * q <= -b
    BY <1>2
  <2> QED BY <1>1, <1>2, <2>1, <2>2
<1>6. b * q \in Int /\ b * q >= 0 /\ q * b = b * q /\ (-q) * b = -(b * q)
  BY <1>2, <1>5
<1>7. c = 0 => q = 0
  <2>1. q >= 1 => b * q >= b
    BY <1>2
  <2> QED BY <1>2, <1>5, <2>1
<1>8. ASSUME a >= 0 PROVE Goal
  <2>1. k = q /\ w = b * q /\ r = f /\ a = c
    BY <1>2, <1>3, <1>4, <1>6, <1>8
  <2>2. a <= 0 => q = 0 /\ b * q = 0 /\ f = 0
    BY <1>2, <1>7, <1>8, <2>1
  <2>3. k \in Nat /\ w \in Int /\ w >= 0 /\ r \in 0 .. b - 1
    BY <1>2, <1>5, <1>6, <2>1
  <2>4. a <= 0 => w = 0 /\ r = 0
    BY <2>1, <2>2
  <2>5. 0 \in 1 - b .. 0
    OBVIOUS
  <2> QED BY <1>2, <2>1, <2>3, <2>4, <2>5
<1>9. ASSUME ~(a >= 0) PROVE Goal
  <2>1. k = -q /\ w = -(b * q) /\ r = -f
    BY <1>2, <1>3, <1>4, <1>6, <1>9
  <2>2. r \in Int /\ r \in 1 - b .. 0
    BY <1>2, <2>1
  <2> QED BY <1>2, <1>6, <1>9, <2>1, <2>2
<1>10. Goal
  <2> HIDE DEF Goal
  <2> QED BY <1>8, <1>9
<1> QED BY <1>10 DEF k, Rest, Whole

\* Nothing joined to two fields or fewer changes nothing.
LEMMA KeptTwo ==
  ASSUME NEW K, NEW x, NEW y
  PROVE  LET P == (IF 1 \in K THEN <<x>> ELSE <<>>) \o (IF 2 \in K THEN <<y>> ELSE <<>>)
         IN P \o <<>> = P
<1>1. CASE 1 \in K
  BY <1>1, Joined, Zenon
<1>2. CASE 1 \notin K
  BY <1>2, Joined, Zenon
<1> QED BY <1>1, <1>2

(* The fields of a duration of months add up to its size.                  *)
LEMMA MonthsAdd ==
  ASSUME NEW n \in Int64s
  PROVE  /\ Sum(showMonths(n).day, MonthUnits) = Magnitude(n)
         /\ \E N \in Nat : DOMAIN showMonths(n).day = 1 .. N
         /\ showMonths(n).day # <<>>
         /\ \A i \in DOMAIN showMonths(n).day :
               LET f == showMonths(n).day[i] IN
               /\ f.unit \in {"Y", "M"} /\ f.frac = NoFrac
               /\ n # Lowest => f.whole \in Nat
         /\ showMonths(n).clock = <<>> /\ ~showMonths(n).dated
         /\ showMonths(n).sign = Sign(n)
<1> DEFINE size == Magnitude(n)
           years == Quot(size, 12)
           months == size - 12 * years
           x == Piece(years, "Y")
           y == Piece(months, "M")
           K == {i \in {1, 2} : (i = 1 => years # 0) /\ (i = 2 => ~(months = 0 /\ years # 0))}
           fs == showMonths(n).day
           T == [f \in {x, y} |-> IF f.unit \in DOMAIN MonthUnits
                                  THEN f.whole * MonthUnits[f.unit] ELSE 0]
           t == [i \in DOMAIN fs |-> T[fs[i]]]
<1>1. size \in Int64s /\ size \in Int /\ (n # Lowest => size \in Nat)
  BY MagnitudeIs, Counts
<1>2. /\ fs = Unless(years = 0, <<x>>) \o Unless(months = 0 /\ years # 0, <<y>>)
      /\ showMonths(n).clock = <<>> /\ ~showMonths(n).dated
      /\ showMonths(n).sign = Sign(n)
  BY DEF showMonths
<1> HIDE DEF size, fs
<1>3. /\ years \in Int /\ 12 * years = years * 12 /\ months \in Int
      /\ n # Lowest => years \in Nat /\ months \in Nat
  <2>1. 12 \in Nat \ {0}
    OBVIOUS
  <2>2. /\ years \in Int /\ Whole(size, 12) \in Int
        /\ size >= 0 => years \in Nat /\ Rest(size, 12) \in 0 .. 12 - 1
    BY <1>1, <2>1, Towards
  <2>3. Whole(size, 12) = years * 12 /\ Rest(size, 12) = size - years * 12
    BY DEF Whole, Rest
  <2> HIDE DEF years
  <2> QED BY <1>1, <2>2, <2>3
<1>4. x.unit = "Y" /\ x.whole = years /\ x.frac = NoFrac
      /\ y.unit = "M" /\ y.whole = months /\ y.frac = NoFrac
  BY DEF Piece
<1> HIDE DEF x, y
<1>5. T[x] = years * 12 /\ T[y] = months
  <2> HIDE DEF years, months
  <2> QED BY <1>3, <1>4 DEF MonthUnits
<1> HIDE DEF T
<1>13. /\ 1 \in K <=> ~(years = 0)
       /\ 2 \in K <=> ~(months = 0 /\ years # 0)
       /\ 3 \notin K
  <2> HIDE DEF years, months
  <2> QED OBVIOUS
<1> HIDE DEF K
<1>6. fs = Kept(K, x, y, y)
  <2>1. fs = (IF 1 \in K THEN <<x>> ELSE <<>>) \o (IF 2 \in K THEN <<y>> ELSE <<>>)
    <3> HIDE DEF years, months
    <3> QED BY <1>2, <1>13, Zenon DEF Unless
  <2>2. fs \o <<>> = fs
    BY <2>1, KeptTwo, Zenon
  <2> QED BY <1>13, <2>1, <2>2, Zenon DEF Kept
<1>7. /\ \E N \in Nat : DOMAIN fs = 1 .. N
      /\ \A i \in DOMAIN fs : fs[i] \in {x, y}
      /\ Total(t) =
             (IF 1 \in K THEN T[x] ELSE 0) + (IF 2 \in K THEN T[y] ELSE 0) + 0
  <2>1. T[x] \in Int /\ T[y] \in Int
    BY <1>3, <1>5
  <2> HIDE DEF years, months
  <2>2. DOMAIN t = DOMAIN fs /\ \A i \in DOMAIN fs : t[i] = T[fs[i]]
    OBVIOUS
  <2> HIDE DEF t
  <2>3. \E N \in Nat : DOMAIN fs = 1 .. N
    BY ONLY <1>6, KeptFields
  <2>4. \A i \in DOMAIN fs :
            (1 \in K /\ fs[i] = x) \/ (2 \in K /\ fs[i] = y) \/ (3 \in K /\ fs[i] = y)
    BY ONLY <1>6, KeptFields
  <2>5. Total(t) = IfKept(1, K, T, x) + IfKept(2, K, T, y) + IfKept(3, K, T, y)
    BY <1>6, <2>1, <2>2, TotalOfKept
  <2> QED BY <1>13, <2>3, <2>4, <2>5, Zenon DEF IfKept
<1> HIDE DEF t
<1>8. Total(t) = size
  <2>1. 1 \notin K => T[x] = 0
    BY <1>3, <1>5, <1>13
  <2>2. 2 \notin K => T[y] = 0
    BY <1>5, <1>13
  <2> QED BY <1>1, <1>3, <1>5, <1>7, <2>1, <2>2
<1>9. Sum(fs, MonthUnits) = Int64(Total(t))
  <2>1. \A i \in DOMAIN fs : T[fs[i]] = IF fs[i].unit \in DOMAIN MonthUnits
                                THEN fs[i].whole * MonthUnits[fs[i].unit] ELSE 0
    BY <1>7, Zenon DEF T
  <2> QED BY <2>1 DEF Sum, t
<1>10. Sum(fs, MonthUnits) = size
  BY <1>1, <1>8, <1>9, Int64Same
<1>11. fs # <<>>
  <2>1. 1 \in K \/ 2 \in K
    BY <1>13
  <2>2. /\ fs \in {<<x, y>>, <<x>>, <<y>>}
    BY <1>6, <1>13, <2>1, KeptIs, Zenon
  <2> QED BY <2>2
<1>12. \A i \in DOMAIN fs : /\ fs[i].unit \in {"Y", "M"} /\ fs[i].frac = NoFrac
                            /\ n # Lowest => fs[i].whole \in Nat
  BY <1>3, <1>4, <1>7
<1> QED BY <1>2, <1>7, <1>10, <1>11, <1>12 DEF fs, size

(***************************************************************************)
(* Durations. The fields shown of a count are those of its size that are   *)
(* not nothing, so that they add up to it.                                 *)
(***************************************************************************)

\* The length of the fields kept is the sum of the terms of those kept.
LEMMA SumOfKept ==
  ASSUME NEW K, NEW x, NEW y, NEW z, NEW units, NEW T,
         \A f \in {x, y, z} :
            /\ T[f] \in Int
            /\ T[f] = IF f.unit \in DOMAIN units THEN f.whole * units[f.unit] ELSE 0,
         NEW fs, fs = Kept(K, x, y, z)
  PROVE  Sum(fs, units) = Int64(IfKept(1, K, T, x) + IfKept(2, K, T, y) + IfKept(3, K, T, z))
<1> DEFINE t == [i \in DOMAIN fs |-> IF fs[i].unit \in DOMAIN units
                                     THEN fs[i].whole * units[fs[i].unit] ELSE 0]
<1>1. Sum(fs, units) = Int64(Total(t))
  BY DEF Sum
<1>2. \A i \in DOMAIN fs : fs[i] \in {x, y, z}
  BY KeptFields
<1>3. DOMAIN t = DOMAIN fs /\ \A i \in DOMAIN fs : t[i] = T[fs[i]]
  BY <1>2
<1> HIDE DEF t
<1>4. T[x] \in Int /\ T[y] \in Int /\ T[z] \in Int
  OBVIOUS
<1>5. Total(t) = IfKept(1, K, T, x) + IfKept(2, K, T, y) + IfKept(3, K, T, z)
  BY <1>3, <1>4, TotalOfKept
<1> QED BY <1>1, <1>5

\* So is the fraction of their seconds.
LEMMA SecondsOfKept ==
  ASSUME NEW K, NEW x, NEW y, NEW z, NEW T,
         \A f \in {x, y, z} : T[f] \in Int /\ T[f] = fraction(f.frac),
         NEW fs, fs = Kept(K, x, y, z)
  PROVE  Seconds(fs) = IfKept(1, K, T, x) + IfKept(2, K, T, y) + IfKept(3, K, T, z)
<1> DEFINE t == [i \in DOMAIN fs |-> fraction(fs[i].frac)]
<1>1. Seconds(fs) = Total(t)
  BY DEF Seconds
<1>2. \A i \in DOMAIN fs : fs[i] \in {x, y, z}
  BY KeptFields
<1>3. DOMAIN t = DOMAIN fs /\ \A i \in DOMAIN fs : t[i] = T[fs[i]]
  BY <1>2
<1> HIDE DEF t
<1>4. T[x] \in Int /\ T[y] \in Int /\ T[z] \in Int
  OBVIOUS
<1>5. Total(t) = IfKept(1, K, T, x) + IfKept(2, K, T, y) + IfKept(3, K, T, z)
  BY <1>3, <1>4, TotalOfKept
<1> QED BY <1>1, <1>5

\* A fraction that is shown is of the finest digits, or is nothing.
LEMMA ShownFraction ==
  ASSUME NEW n \in Int
  PROVE  /\ fraction(showFraction(n)) = n
         /\ IsFraction(showFraction(n))
         /\ showFraction(n) = NoFrac <=> n = 0
<1>1. 10 ^ (Digits - Digits) = 1 /\ Digits \in Nat \ {0}
  BY Units
<1>2. n * 10 ^ (Digits - Digits) = n
  BY <1>1
<1> QED BY <1>1, <1>2 DEF IsFraction, fraction, showFraction, NoFrac

(* What is left of a day is its units, none of another sign than its own.  *)
LEMMA LeftIs ==
  ASSUME NEW rest \in Int, NEW t, t = Left(rest)
  PROVE  \E f \in Int :
         /\ t.h \in Int /\ t.m \in Int /\ t.s \in Int
         /\ t.frac = showFraction(f)
         /\ t.h * nanosPerHour + t.m * nanosPerMinute + t.s * nanosPerSecond \in Int
         /\ t.h * nanosPerHour + t.m * nanosPerMinute + t.s * nanosPerSecond + f = rest
         /\ rest >= 0 => /\ t.h \in Nat /\ t.m \in Nat /\ t.s \in Nat /\ f \in Nat
                         /\ t.h * nanosPerHour + t.m * nanosPerMinute + t.s * nanosPerSecond >= 0
         /\ rest <= 0 => /\ f <= 0
                         /\ t.h * nanosPerHour + t.m * nanosPerMinute + t.s * nanosPerSecond <= 0
<1> DEFINE H == nanosPerHour
           M == nanosPerMinute
           S == nanosPerSecond
           h == Quot(rest, H)
           wh == Whole(rest, H)
           p == Rest(rest, H)
           m == Quot(p, M)
           wm == Whole(p, M)
           q == Rest(p, M)
           s == Quot(q, S)
           ws == Whole(q, S)
           f == Rest(q, S)
<1>1. H \in Nat \ {0} /\ M \in Nat \ {0} /\ S \in Nat \ {0}
  BY Units
<1>2. t = [h |-> h, m |-> m, s |-> s, frac |-> showFraction(f)]
  BY DEF Left, Whole, Rest
<1> HIDE DEF H, M, S
<1>3. /\ h \in Int /\ p \in Int /\ wh \in Int
      /\ rest >= 0 => h \in Nat /\ p >= 0 /\ wh >= 0
      /\ rest <= 0 => p <= 0 /\ wh <= 0
      /\ p = rest - wh /\ wh = h * H
  <2>1. wh = h * H /\ p = rest - wh
    BY DEF Whole, Rest
  <2>2. /\ h \in Int /\ wh \in Int /\ p \in Int
        /\ rest >= 0 => h \in Nat /\ wh >= 0 /\ p \in 0 .. H - 1
        /\ rest <= 0 => wh <= 0 /\ p \in 1 - H .. 0
    BY <1>1, Towards
  <2> HIDE DEF h, wh, p
  <2> QED BY <1>1, <2>1, <2>2
<1> HIDE DEF h, wh, p
<1>5. /\ m \in Int /\ q \in Int /\ wm \in Int
      /\ p >= 0 => m \in Nat /\ q >= 0 /\ wm >= 0
      /\ p <= 0 => q <= 0 /\ wm <= 0
      /\ q = p - wm /\ wm = m * M
  <2>1. wm = m * M /\ q = p - wm
    BY DEF Whole, Rest
  <2>2. /\ m \in Int /\ wm \in Int /\ q \in Int
        /\ p >= 0 => m \in Nat /\ wm >= 0 /\ q \in 0 .. M - 1
        /\ p <= 0 => wm <= 0 /\ q \in 1 - M .. 0
    BY <1>1, <1>3, Towards
  <2> HIDE DEF m, wm, q
  <2> QED BY <1>1, <2>1, <2>2
<1> HIDE DEF m, wm, q
<1>7. /\ s \in Int /\ f \in Int /\ ws \in Int
      /\ q >= 0 => s \in Nat /\ f >= 0 /\ ws >= 0
      /\ q <= 0 => f <= 0 /\ ws <= 0
      /\ f = q - ws /\ ws = s * S
  <2>1. ws = s * S /\ f = q - ws
    BY DEF Whole, Rest
  <2>2. /\ s \in Int /\ ws \in Int /\ f \in Int
        /\ q >= 0 => s \in Nat /\ ws >= 0 /\ f \in 0 .. S - 1
        /\ q <= 0 => ws <= 0 /\ f \in 1 - S .. 0
    BY <1>1, <1>5, Towards
  <2> HIDE DEF s, ws, f
  <2> QED BY <1>1, <2>1, <2>2
<1> HIDE DEF s, ws, f
<1>9. t.h = h /\ t.m = m /\ t.s = s /\ t.frac = showFraction(f)
  BY <1>2
<1>10. /\ h * H + m * M + s * S \in Int /\ h * H + m * M + s * S + f = rest
       /\ rest >= 0 => /\ h \in Nat /\ m \in Nat /\ s \in Nat /\ f \in Nat
                       /\ h * H + m * M + s * S >= 0
       /\ rest <= 0 => f <= 0 /\ h * H + m * M + s * S <= 0
  <2>1. /\ wh + wm + ws \in Int /\ wh + wm + ws + f = rest
        /\ rest >= 0 => /\ h \in Nat /\ m \in Nat /\ s \in Nat /\ f \in Nat
                        /\ wh + wm + ws >= 0
        /\ rest <= 0 => f <= 0 /\ wh + wm + ws <= 0
    BY <1>3, <1>5, <1>7
  <2>2. h * H + m * M + s * S = wh + wm + ws
    BY <1>3, <1>5, <1>7
  <2> QED BY <2>1, <2>2
<1> QED BY <1>7, <1>3, <1>5, <1>9, <1>10 DEF H, M, S

\* No fields, no sum.
LEMMA EmptySums ==
  ASSUME NEW units
  PROVE  Sum(<<>>, units) = 0 /\ Seconds(<<>>) = 0
<1>1. ASSUME NEW t, DOMAIN t = {} PROVE Total(t) = 0
  <2>1. 0 \in Nat /\ 0 <= 3 /\ DOMAIN t = 1 .. 0 /\ 1 .. 0 = {}
    BY <1>1
  <2>2. \A i \in 1 .. 0 : t[i] \in Int
    BY <2>1
  <2>3. Total(t) = (IF 0 >= 1 THEN t[1] ELSE 0) + (IF 0 >= 2 THEN t[2] ELSE 0)
                        + (IF 0 >= 3 THEN t[3] ELSE 0)
    BY <2>1, <2>2, TotalOfThree, Zenon
  <2> QED BY <2>3
<1>2. DOMAIN <<>> = {}
  OBVIOUS
<1>3. Sum(<<>>, units) = Int64(0)
  BY <1>1, <1>2 DEF Sum
<1>4. Seconds(<<>>) = 0
  BY <1>1, <1>2 DEF Seconds
<1> QED BY <1>3, <1>4, Counts, Int64Same

(* The parts a duration of nanoseconds is shown in: so many days, the      *)
(* units t of what is left and a fraction f, of which those of J are kept  *)
(* before the T and those of K after it.                                   *)
NanosParts(n, days, t, f, J, K) ==
    LET d == Piece(days, "D")
        clock == t.h * nanosPerHour + t.m * nanosPerMinute + t.s * nanosPerSecond
    IN
    /\ days \in Int /\ f \in Int
    /\ t.h \in Int /\ t.m \in Int /\ t.s \in Int /\ t.frac = showFraction(f)
    /\ days * nanosPerDay \in Int64s /\ clock \in Int64s
    /\ days * nanosPerDay + clock + f = Magnitude(n)
    /\ n # Lowest => days \in Nat /\ t.h \in Nat /\ t.m \in Nat /\ t.s \in Nat
    /\ showNanos(n).day = Kept(J, d, d, d) /\ 2 \notin J /\ 3 \notin J
    /\ showNanos(n).clock = Kept(K, Piece(t.h, "H"), Piece(t.m, "M"),
                                 [Piece(t.s, "S") EXCEPT !.frac = t.frac])
    /\ 1 \notin J => days = 0
    /\ 1 \notin K => t.h = 0
    /\ 2 \notin K => t.m = 0
    /\ 3 \notin K => t.s = 0 /\ f = 0
    /\ showNanos(n).sign = Sign(n)
    /\ showNanos(n).dated => 1 \in K \/ 2 \in K \/ 3 \in K
    /\ ~showNanos(n).dated => 1 \in J /\ showNanos(n).clock = <<>>

\* What is shown of nanoseconds, part by part.
LEMMA NanosShown ==
  ASSUME NEW n \in Int64s
  PROVE  \E days, t, f, J, K : NanosParts(n, days, t, f, J, K)
<1> DEFINE size == Magnitude(n)
           days == Quot(size, nanosPerDay)
           rest == Rest(size, nanosPerDay)
           t == Left(rest)
           whole == rest = 0 /\ days # 0
           tiny == t.s = 0 /\ t.frac = NoFrac /\ (t.h # 0 \/ t.m # 0)
           d == Piece(days, "D")
           h == Piece(t.h, "H")
           m == Piece(t.m, "M")
           s == [Piece(t.s, "S") EXCEPT !.frac = t.frac]
           clock == t.h * nanosPerHour + t.m * nanosPerMinute + t.s * nanosPerSecond
           J == {i \in {1} : days # 0}
           K == IF whole THEN {} ELSE {i \in {1, 2, 3} : /\ i = 1 => t.h # 0
                                                         /\ i = 2 => t.m # 0
                                                         /\ i = 3 => ~tiny}
<1>1. size \in Int64s /\ size \in Int /\ (n # Lowest => size >= 0)
  BY MagnitudeIs, Counts
<1>2. showNanos(n) = [sign |-> Sign(n), dated |-> ~whole,
        day |-> Unless(days = 0, <<d>>),
        clock |-> Unless(whole, Unless(t.h = 0, <<h>>) \o Unless(t.m = 0, <<m>>)
                                    \o Unless(tiny, <<s>>))]
  BY DEF showNanos, Rest, Whole
<1> HIDE DEF size
<1>3. /\ days \in Int /\ Whole(size, nanosPerDay) \in Int /\ rest \in Int
      /\ size >= 0 => days \in Nat /\ Whole(size, nanosPerDay) >= 0 /\ rest >= 0
      /\ size <= 0 => Whole(size, nanosPerDay) <= 0 /\ rest <= 0
      /\ Whole(size, nanosPerDay) = days * nanosPerDay
      /\ rest = size - Whole(size, nanosPerDay)
  <2>1. /\ days \in Int /\ Whole(size, nanosPerDay) \in Int /\ rest \in Int
        /\ size >= 0 => days \in Nat /\ Whole(size, nanosPerDay) >= 0
                            /\ rest \in 0 .. nanosPerDay - 1
        /\ size <= 0 => Whole(size, nanosPerDay) <= 0 /\ rest \in 1 - nanosPerDay .. 0
    BY <1>1, Units, Towards
  <2>2. /\ Whole(size, nanosPerDay) = days * nanosPerDay
        /\ rest = size - Whole(size, nanosPerDay)
    BY DEF Whole, Rest
  <2> HIDE DEF days, rest
  <2> QED BY <2>1, <2>2, Units
<1> HIDE DEF days, rest
<1>4. PICK f \in Int :
         /\ t.h \in Int /\ t.m \in Int /\ t.s \in Int
         /\ t.frac = showFraction(f)
         /\ clock \in Int
         /\ clock + f = rest
         /\ rest >= 0 => t.h \in Nat /\ t.m \in Nat /\ t.s \in Nat /\ f \in Nat /\ clock >= 0
         /\ rest <= 0 => f <= 0 /\ clock <= 0
  BY <1>3, LeftIs
<1> HIDE DEF t
<1>5. t.frac = NoFrac <=> f = 0
  BY <1>4, ShownFraction
<1>6. days * nanosPerDay \in Int64s /\ clock \in Int64s /\ days * nanosPerDay + clock + f = size
  <2> DEFINE w == Whole(size, nanosPerDay)
  <2>1. /\ w \in Int /\ clock \in Int /\ f \in Int /\ w + clock + f = size
        /\ size >= 0 => w >= 0 /\ clock >= 0 /\ f >= 0
        /\ size <= 0 => w <= 0 /\ clock <= 0 /\ f <= 0
    <3> HIDE DEF w, clock
    <3> QED BY <1>1, <1>3, <1>4 DEF w
  <2>2. /\ Lowest \in Int /\ Lowest <= size /\ size < -Lowest /\ Lowest < 0
    BY <1>1, Counts
  <2> HIDE DEF w, clock
  <2>3. w \in Int64s /\ clock \in Int64s
    <3>1. Lowest <= w /\ w < -Lowest /\ Lowest <= clock /\ clock < -Lowest
      BY <1>1, <2>1, <2>2
    <3> QED BY <2>1, <3>1, Counts
  <2> QED BY <1>3, <2>1, <2>3 DEF w
<1>7. n # Lowest => days \in Nat /\ t.h \in Nat /\ t.m \in Nat /\ t.s \in Nat
  BY <1>1, <1>3, <1>4
<1>8. /\ 1 \in J <=> days # 0
      /\ 2 \notin J /\ 3 \notin J
  OBVIOUS
<1>9. whole => K = {}
  OBVIOUS
<1>10. ~whole => /\ 1 \in K <=> t.h # 0
                 /\ 2 \in K <=> t.m # 0
                 /\ 3 \in K <=> ~tiny
  <2> HIDE DEF whole, tiny
  <2> QED OBVIOUS
<1>11. showNanos(n).day = Kept(J, d, d, d)
  <2> HIDE DEF d, J
  <2>1. showNanos(n).day = (IF 1 \in J THEN <<d>> ELSE <<>>)
    BY <1>2, <1>8 DEF Unless
  <2>2. Kept(J, d, d, d) = IF 1 \in J THEN <<d>> ELSE <<>>
    BY <1>8, KeptIs, Zenon
  <2> QED BY <2>1, <2>2
<1>12. showNanos(n).clock = Kept(K, h, m, s)
  <2>1. CASE whole
    <3>1. showNanos(n).clock = <<>>
      BY <1>2, <2>1 DEF Unless
    <3>2. 1 \notin K /\ 2 \notin K /\ 3 \notin K
      BY <1>9, <2>1
    <3> HIDE DEF K, h, m, s
    <3>3. Kept(K, h, m, s) = <<>>
      BY <3>2, KeptIs, Zenon
    <3> QED BY <3>1, <3>3
  <2>2. CASE ~whole
    <3>1. showNanos(n).clock = Unless(t.h = 0, <<h>>) \o Unless(t.m = 0, <<m>>) \o Unless(tiny, <<s>>)
      <4> HIDE DEF h, m, s, tiny, whole
      <4> QED BY <1>2, <2>2 DEF Unless
    <3> HIDE DEF K, h, m, s, whole
    <3>2. /\ 1 \in K <=> t.h # 0
          /\ 2 \in K <=> t.m # 0
          /\ 3 \in K <=> ~tiny
      BY <1>10, <2>2
    <3> HIDE DEF tiny
    <3> QED BY <3>1, <3>2, Zenon DEF Kept, Unless
  <2> QED BY <2>1, <2>2
<1>13. whole => t.h = 0 /\ t.m = 0 /\ t.s = 0 /\ f = 0
  <2> SUFFICES ASSUME rest = 0 PROVE t.h = 0 /\ t.m = 0 /\ t.s = 0 /\ f = 0
    OBVIOUS
  <2>1. /\ t.h \in Nat /\ t.m \in Nat /\ t.s \in Nat /\ f = 0 /\ clock = 0
    <3> HIDE DEF clock
    <3> QED BY <1>4
  <2> DEFINE a == t.h * nanosPerHour
             b == t.m * nanosPerMinute
             c == t.s * nanosPerSecond
  <2>4. ASSUME NEW i \in Nat, NEW u \in Nat \ {0}
        PROVE  i * u \in Int /\ i * u >= 0 /\ (i > 0 => i * u > 0)
    OBVIOUS
  <2>2. /\ a >= 0 /\ b >= 0 /\ c >= 0 /\ a \in Int /\ b \in Int /\ c \in Int
        /\ t.h > 0 => a > 0
        /\ t.m > 0 => b > 0
        /\ t.s > 0 => c > 0
    BY <2>1, <2>4, Units, Zenon
  <2>3. a + b + c = 0
    BY <2>1
  <2> HIDE DEF a, b, c
  <2> QED BY <2>1, <2>2, <2>3
<1>14. /\ 1 \notin K => t.h = 0
       /\ 2 \notin K => t.m = 0
       /\ 3 \notin K => t.s = 0 /\ f = 0
  <2> HIDE DEF K, whole
  <2> QED BY <1>5, <1>10, <1>13
<1>15. showNanos(n).sign = Sign(n) /\ (showNanos(n).dated <=> ~whole)
  <2> HIDE DEF d, h, m, s, tiny
  <2>1. showNanos(n).sign = Sign(n)
    BY <1>2
  <2> DEFINE dated == ~whole
  <2>3. showNanos(n).dated = dated
    <3> DEFINE sign == Sign(n)
               day == Unless(days = 0, <<d>>)
               times == Unless(whole, Unless(t.h = 0, <<h>>) \o Unless(t.m = 0, <<m>>)
                                          \o Unless(tiny, <<s>>))
    <3>1. showNanos(n) = [sign |-> sign, dated |-> dated, day |-> day, clock |-> times]
      BY <1>2
    <3> HIDE DEF sign, day, times
    <3> HIDE DEF dated
    <3> QED BY <3>1
  <2>2. showNanos(n).dated <=> ~whole
    BY <2>3, Zenon
  <2> QED BY <2>1, <2>2
<1>16. ~whole => 1 \in K \/ 2 \in K \/ 3 \in K
  <2> HIDE DEF K, whole
  <2> QED BY <1>10
<1>17. whole => 1 \in J /\ showNanos(n).clock = <<>>
  <2>1. whole => showNanos(n).clock = <<>>
    <3> HIDE DEF d, h, m, s, tiny, J
    <3> QED BY <1>2 DEF Unless
  <2> QED BY <1>8, <2>1
<1> HIDE DEF K, J, whole
<1>18. NanosParts(n, days, t, f, J, K)
  BY <1>3, <1>4, <1>6, <1>7, <1>8, <1>11, <1>12, <1>14, <1>15, <1>16, <1>17, Zenon DEF size,
     NanosParts
<1> QED BY <1>18, Zenon

\* Nothing and nothing is nothing, however often.
LEMMA ZerosAdd ==
  ASSUME NEW N \in Nat, NEW t, DOMAIN t = 1 .. N, \A i \in 1 .. N : t[i] = 0
  PROVE  Total(t) = 0
<1>1. PICK g : /\ g[0] = 0 /\ Total(t) = g[N]
               /\ \A i \in 1 .. N : g[i] = g[i - 1] + t[i]
               /\ \A i \in 0 .. N : g[i] \in Int
  <2>1. \A i \in 1 .. N : t[i] \in Int
    OBVIOUS
  <2> QED BY <2>1, SummedUpTo
<1> DEFINE S == {i \in Nat : i <= N => g[i] = 0}
<1>2. 0 \in S
  BY <1>1
<1>3. ASSUME NEW i \in S PROVE i + 1 \in S
  <2> SUFFICES ASSUME i + 1 <= N PROVE g[i + 1] = 0
    OBVIOUS
  <2>1. i + 1 \in 1 .. N /\ (i + 1) - 1 = i /\ g[i] = 0
    OBVIOUS
  <2>2. t[i + 1] = 0
    BY <2>1
  <2> DEFINE k == i + 1
  <2>3. g[k] = g[k - 1] + t[k]
    BY <1>1, <2>1
  <2> QED BY <2>1, <2>2, <2>3
<1>4. S \in SUBSET Nat
  OBVIOUS
<1> HIDE DEF S
<1>5. N \in S
  BY <1>2, <1>3, <1>4, Induction
<1> QED BY <1>1, <1>5 DEF S

\* Fields of other units count for nothing.
LEMMA OtherUnits ==
  ASSUME NEW N \in Nat, NEW fs, DOMAIN fs = 1 .. N, NEW units,
         \A i \in DOMAIN fs : fs[i].unit \notin DOMAIN units
  PROVE  Sum(fs, units) = 0
<1> DEFINE t == [i \in DOMAIN fs |-> IF fs[i].unit \in DOMAIN units
                                     THEN fs[i].whole * units[fs[i].unit] ELSE 0]
<1>1. Sum(fs, units) = Int64(Total(t))
  BY DEF Sum
<1>2. DOMAIN t = 1 .. N /\ \A i \in 1 .. N : t[i] = 0
  OBVIOUS
<1> HIDE DEF t
<1>3. Total(t) = 0
  BY <1>2, ZerosAdd
<1> QED BY <1>1, <1>3, Counts, Int64Same

\* What parseDuration makes of the sums.
Signed(t, n) == IF t.sign = "-" THEN Int64(-n) ELSE n
SawMonths(t) == ~t.dated /\ \A i \in DOMAIN t.day : t.day[i].unit \in DOMAIN MonthUnits
NanosOf(t) == Int64(Sum(t.day, DayUnits) + Sum(t.clock, ClockUnits) + Seconds(t.clock))

\* The three answers, each under what it is given for.
LEMMA DurationIs ==
  ASSUME NEW t
  PROVE  LET months == Sum(t.day, MonthUnits)
             nanos == NanosOf(t)
         IN
         /\ ~WellFormed(t) \/ (months # 0 /\ nanos # 0) => parseDuration(t) = SpellsNone
         /\ WellFormed(t) /\ nanos = 0 /\ (months # 0 \/ SawMonths(t)) =>
               parseDuration(t) = Spells(<<"YearMonth", Signed(t, months)>>)
         /\ WellFormed(t) /\ months = 0 /\ ~(nanos = 0 /\ SawMonths(t)) =>
               parseDuration(t) = Spells(<<"time.Duration", Signed(t, nanos)>>)
<1> DEFINE months == Sum(t.day, MonthUnits)
           nanos == NanosOf(t)
           p == WellFormed(t)
           saw == SawMonths(t)
           a == Spells(<<"YearMonth", Signed(t, months)>>)
           b == Spells(<<"time.Duration", Signed(t, nanos)>>)
<1>1. parseDuration(t) = CASE ~p \/ (months # 0 /\ nanos # 0) -> SpellsNone
                           [] p /\ nanos = 0 /\ (months # 0 \/ saw) -> a
                           [] OTHER -> b
  BY DEF parseDuration, Signed, SawMonths, NanosOf
<1> HIDE DEF months, nanos, p, saw, a, b
<1>2. /\ ~p \/ (months # 0 /\ nanos # 0) => parseDuration(t) = SpellsNone
      /\ p /\ nanos = 0 /\ (months # 0 \/ saw) => parseDuration(t) = a
      /\ p /\ months = 0 /\ ~(nanos = 0 /\ saw) => parseDuration(t) = b
  BY <1>1
<1> QED BY <1>2 DEF months, nanos, p, saw, a, b

\* No digits are a fraction that is nothing.
LEMMA NothingIsAFraction == IsFraction(NoFrac) /\ fraction(NoFrac) = 0
BY DEF IsFraction, fraction, NoFrac

\* A size with the sign of its count is the count, but for the lowest.
LEMMA Turned ==
  ASSUME NEW n \in Int64s, n # Lowest, NEW t, t.sign = Sign(n)
  PROVE  Signed(t, Magnitude(n)) = n
<1>1. n \in Int
  BY Counts
<1>2. Magnitude(n) = IF n < 0 THEN -n ELSE n
  BY MagnitudeIs
<1>3. t.sign = "-" <=> n < 0
  BY <1>1 DEF Sign
<1>4. CASE n < 0
  <2>1. -Magnitude(n) = n
    BY <1>1, <1>2, <1>4
  <2> QED BY <1>3, <1>4, <2>1, Int64Same DEF Signed
<1>5. CASE ~(n < 0)
  BY <1>2, <1>3, <1>5 DEF Signed
<1> QED BY <1>4, <1>5

\* A duration of months reads back, but for the lowest, whose size is no
\* number of months (temporal.go, parseDuration and showMonths).
THEOREM MonthsReadBack ==
  ASSUME NEW n \in Int64s, n # Lowest
  PROVE  parseDuration(showMonths(n)) = Spells(<<"YearMonth", n>>)
<1> DEFINE t == showMonths(n)
<1>1. /\ Sum(t.day, MonthUnits) = Magnitude(n)
      /\ \E N \in Nat : DOMAIN t.day = 1 .. N
      /\ t.day # <<>> /\ t.clock = <<>> /\ ~t.dated /\ t.sign = Sign(n)
      /\ \A i \in DOMAIN t.day : /\ t.day[i].unit \in {"Y", "M"} /\ t.day[i].frac = NoFrac
                                 /\ t.day[i].whole \in Nat
  BY MonthsAdd
<1> HIDE DEF t
<1>2. DOMAIN MonthUnits = {"Y", "M"} /\ DOMAIN DayUnits = {"W", "D"}
  BY DEF MonthUnits, DayUnits
<1>3. WellFormed(t)
  <2>1. \A i \in DOMAIN t.day :
          /\ t.day[i].whole \in Nat
          /\ t.day[i].unit \in DOMAIN MonthUnits \union DOMAIN DayUnits
          /\ IsFraction(t.day[i].frac) /\ fraction(t.day[i].frac) = 0
    BY <1>1, <1>2, NothingIsAFraction
  <2>2. DOMAIN t.clock = {}
    BY <1>1
  <2> QED BY <1>1, <2>1, <2>2 DEF WellFormed
<1>4. NanosOf(t) = 0
  <2>1. \A i \in DOMAIN t.day : t.day[i].unit \notin DOMAIN DayUnits
    BY <1>1, <1>2
  <2>2. Sum(t.day, DayUnits) = 0
    BY <1>1, <2>1, OtherUnits
  <2>3. Sum(t.clock, ClockUnits) = 0 /\ Seconds(t.clock) = 0
    BY <1>1, EmptySums
  <2> QED BY <2>2, <2>3, Counts, Int64Same DEF NanosOf
<1>5. SawMonths(t)
  BY <1>1, <1>2 DEF SawMonths
<1> QED BY <1>1, <1>3, <1>4, <1>5, DurationIs, Turned DEF t

\* The fields shown of nanoseconds are well formed and add up to their
\* size.
LEMMA NanosAdd ==
  ASSUME NEW n \in Int64s
  PROVE  /\ NanosOf(showNanos(n)) = Magnitude(n)
         /\ Sum(showNanos(n).day, MonthUnits) = 0
         /\ ~SawMonths(showNanos(n))
         /\ showNanos(n).sign = Sign(n)
         /\ n # Lowest => WellFormed(showNanos(n))
<1>1. PICK days, t, f, J, K : NanosParts(n, days, t, f, J, K)
  BY NanosShown
<1> DEFINE x == showNanos(n)
           d == Piece(days, "D")
           h == Piece(t.h, "H")
           m == Piece(t.m, "M")
           s == [Piece(t.s, "S") EXCEPT !.frac = t.frac]
           a == days * nanosPerDay
           b == t.h * nanosPerHour
           c == t.m * nanosPerMinute
           e == t.s * nanosPerSecond
<1>2. /\ days \in Int /\ f \in Int
      /\ t.h \in Int /\ t.m \in Int /\ t.s \in Int /\ t.frac = showFraction(f)
      /\ a \in Int64s /\ b + c + e \in Int64s /\ a + (b + c + e) + f = Magnitude(n)
      /\ n # Lowest => days \in Nat /\ t.h \in Nat /\ t.m \in Nat /\ t.s \in Nat
      /\ x.day = Kept(J, d, d, d) /\ 2 \notin J /\ 3 \notin J
      /\ x.clock = Kept(K, h, m, s)
      /\ 1 \notin J => days = 0
      /\ 1 \notin K => t.h = 0
      /\ 2 \notin K => t.m = 0
      /\ 3 \notin K => t.s = 0 /\ f = 0
      /\ x.sign = Sign(n)
      /\ x.dated => 1 \in K \/ 2 \in K \/ 3 \in K
      /\ ~x.dated => 1 \in J /\ x.clock = <<>>
  BY <1>1 DEF NanosParts
<1> HIDE DEF x
<1>3. /\ a \in Int /\ b \in Int /\ c \in Int /\ e \in Int
      /\ days = 0 => a = 0
      /\ t.h = 0 => b = 0
      /\ t.m = 0 => c = 0
      /\ t.s = 0 => e = 0
  <2>1. ASSUME NEW i \in Int, NEW u \in Nat \ {0}
        PROVE  i * u \in Int /\ (i = 0 => i * u = 0)
    OBVIOUS
  <2> QED BY <1>2, <2>1, Units, Zenon
<1>4. /\ d.unit = "D" /\ d.whole = days /\ d.frac = NoFrac
      /\ h.unit = "H" /\ h.whole = t.h /\ h.frac = NoFrac
      /\ m.unit = "M" /\ m.whole = t.m /\ m.frac = NoFrac
      /\ s.unit = "S" /\ s.whole = t.s /\ s.frac = t.frac
  BY DEF Piece
<1> HIDE DEF d, h, m, s
<1>5. /\ DOMAIN DayUnits = {"W", "D"} /\ DayUnits["D"] = nanosPerDay
      /\ DOMAIN ClockUnits = {"H", "M", "S"} /\ ClockUnits["H"] = nanosPerHour
      /\ ClockUnits["M"] = nanosPerMinute /\ ClockUnits["S"] = nanosPerSecond
      /\ DOMAIN MonthUnits = {"Y", "M"}
  BY DEF DayUnits, ClockUnits, MonthUnits
<1>6. /\ \A i \in DOMAIN x.day : x.day[i] = d
      /\ \A i \in DOMAIN x.clock : x.clock[i] \in {h, m, s}
      /\ \E N \in Nat : DOMAIN x.day = 1 .. N
  <2>1. \A i \in DOMAIN x.day : (1 \in J /\ x.day[i] = d) \/ (2 \in J /\ x.day[i] = d) \/ (3 \in J /\ x.day[i] = d)
    BY <1>2, KeptFields
  <2>2. \A i \in DOMAIN x.clock :
            (1 \in K /\ x.clock[i] = h) \/ (2 \in K /\ x.clock[i] = m) \/ (3 \in K /\ x.clock[i] = s)
    BY <1>2, KeptFields
  <2>3. \E N \in Nat : DOMAIN x.day = 1 .. N
    BY <1>2, KeptFields
  <2> QED BY <2>1, <2>2, <2>3
<1>7. Sum(x.day, DayUnits) = a
  <2> DEFINE T == [y \in {d} |-> a]
  <2>1. T[d] = a
    OBVIOUS
  <2> HIDE DEF T
  <2>2. T[d] \in Int /\ T[d] = IF d.unit \in DOMAIN DayUnits THEN d.whole * DayUnits[d.unit] ELSE 0
    BY <1>3, <1>4, <1>5, <2>1
  <2> HIDE DEF a
  <2>3. \A y \in {d, d, d} :
            /\ T[y] \in Int
            /\ T[y] = IF y.unit \in DOMAIN DayUnits THEN y.whole * DayUnits[y.unit] ELSE 0
    BY <2>2
  <2>4. Sum(x.day, DayUnits) = Int64(IfKept(1, J, T, d) + IfKept(2, J, T, d) + IfKept(3, J, T, d))
    BY <1>2, <2>3, SumOfKept
  <2>5. IfKept(1, J, T, d) = a /\ IfKept(2, J, T, d) = 0 /\ IfKept(3, J, T, d) = 0
    BY <1>2, <1>3, <2>1 DEF IfKept
  <2>6. a + 0 + 0 = a
    BY <1>3
  <2> QED BY <1>2, <2>4, <2>5, <2>6, Int64Same
<1>8. h # m /\ h # s /\ m # s
  BY <1>4
<1>9. Sum(x.clock, ClockUnits) = b + c + e
  <2> DEFINE T == [y \in {h, m, s} |-> IF y = h THEN b ELSE IF y = m THEN c ELSE e]
  <2>1. T[h] = b /\ T[m] = c /\ T[s] = e
    <3> HIDE DEF b, c, e
    <3> QED BY <1>8
  <2> HIDE DEF T
  <2>2. /\ T[h] \in Int /\ T[h] = IF h.unit \in DOMAIN ClockUnits THEN h.whole * ClockUnits[h.unit] ELSE 0
        /\ T[m] \in Int /\ T[m] = IF m.unit \in DOMAIN ClockUnits THEN m.whole * ClockUnits[m.unit] ELSE 0
        /\ T[s] \in Int /\ T[s] = IF s.unit \in DOMAIN ClockUnits THEN s.whole * ClockUnits[s.unit] ELSE 0
    BY <1>3, <1>4, <1>5, <2>1
  <2> HIDE DEF b, c, e
  <2>3. \A y \in {h, m, s} :
            /\ T[y] \in Int
            /\ T[y] = IF y.unit \in DOMAIN ClockUnits THEN y.whole * ClockUnits[y.unit] ELSE 0
    BY <2>2
  <2>4. Sum(x.clock, ClockUnits) = Int64(IfKept(1, K, T, h) + IfKept(2, K, T, m) + IfKept(3, K, T, s))
    BY <1>2, <2>3, SumOfKept
  <2>5. IfKept(1, K, T, h) = b /\ IfKept(2, K, T, m) = c /\ IfKept(3, K, T, s) = e
    BY <1>2, <1>3, <2>1 DEF IfKept
  <2> QED BY <1>2, <2>4, <2>5, Int64Same
<1>10. Seconds(x.clock) = f
  <2> DEFINE T == [y \in {h, m, s} |-> IF y = s THEN f ELSE 0]
  <2>1. T[h] = 0 /\ T[m] = 0 /\ T[s] = f
    BY <1>8
  <2> HIDE DEF T
  <2>2. /\ T[h] \in Int /\ T[h] = fraction(h.frac)
        /\ T[m] \in Int /\ T[m] = fraction(m.frac)
        /\ T[s] \in Int /\ T[s] = fraction(s.frac)
    BY <1>2, <1>4, <2>1, ShownFraction, NothingIsAFraction
  <2>3. \A y \in {h, m, s} : T[y] \in Int /\ T[y] = fraction(y.frac)
    BY <2>2
  <2>4. Seconds(x.clock) = IfKept(1, K, T, h) + IfKept(2, K, T, m) + IfKept(3, K, T, s)
    BY <1>2, <2>3, SecondsOfKept
  <2>5. IfKept(1, K, T, h) = 0 /\ IfKept(2, K, T, m) = 0 /\ IfKept(3, K, T, s) = f
    BY <1>2, <2>1 DEF IfKept
  <2> QED BY <1>2, <2>4, <2>5
<1>11. NanosOf(x) = Magnitude(n)
  BY <1>2, <1>7, <1>9, <1>10, MagnitudeIs, Int64Same DEF NanosOf
<1>12. Sum(x.day, MonthUnits) = 0
  <2>1. \A i \in DOMAIN x.day : x.day[i].unit \notin DOMAIN MonthUnits
    BY <1>4, <1>5, <1>6
  <2> QED BY <1>6, <2>1, OtherUnits
<1>13. 1 \in J => x.day = <<d>>
  BY <1>2, KeptIs, Zenon
<1>14. ~SawMonths(x)
  <2> SUFFICES ASSUME ~x.dated PROVE ~ \A i \in DOMAIN x.day : x.day[i].unit \in DOMAIN MonthUnits
    BY DEF SawMonths
  <2>1. 1 \in DOMAIN x.day /\ x.day[1] = d
    BY <1>2, <1>13
  <2> QED BY <1>4, <1>5, <2>1
<1>15. ASSUME n # Lowest PROVE WellFormed(x)
  <2>1. x.dated => x.clock # <<>>
    <3>1. 1 \in K \/ 2 \in K \/ 3 \in K =>
            x.clock \in {<<h, m, s>>, <<h, m>>, <<h, s>>, <<h>>, <<m, s>>, <<m>>, <<s>>}
      BY <1>2, KeptIs, Zenon
    <3>2. x.dated => 1 \in K \/ 2 \in K \/ 3 \in K
      BY <1>2
    <3>3. <<>> \notin {<<h, m, s>>, <<h, m>>, <<h, s>>, <<h>>, <<m, s>>, <<m>>, <<s>>}
      OBVIOUS
    <3> QED BY <3>1, <3>2, <3>3, Zenon
  <2>2. ~x.dated => x.day # <<>>
    <3>1. ~x.dated => 1 \in J
      BY <1>2
    <3>2. <<d>> # <<>>
      OBVIOUS
    <3> QED BY <1>13, <3>1, <3>2, Zenon
  <2>3. \A i \in DOMAIN x.day :
          /\ x.day[i].whole \in Nat
          /\ x.day[i].unit \in DOMAIN MonthUnits \union DOMAIN DayUnits
          /\ IsFraction(x.day[i].frac) /\ fraction(x.day[i].frac) = 0
    BY <1>2, <1>4, <1>5, <1>6, <1>15, NothingIsAFraction
  <2>4. \A y \in {h, m, s} :
          /\ y.whole \in Nat
          /\ y.unit \in DOMAIN ClockUnits
          /\ IsFraction(y.frac)
          /\ fraction(y.frac) # 0 => y.unit = "S"
    BY <1>2, <1>4, <1>5, <1>15, NothingIsAFraction, ShownFraction
  <2>5. \A i \in DOMAIN x.clock :
          /\ x.clock[i].whole \in Nat
          /\ x.clock[i].unit \in DOMAIN ClockUnits
          /\ IsFraction(x.clock[i].frac)
          /\ fraction(x.clock[i].frac) # 0 => x.clock[i].unit = "S"
    BY <1>6, <2>4, Zenon
  <2> QED BY <2>1, <2>2, <2>3, <2>5 DEF WellFormed
<1> QED BY <1>2, <1>11, <1>12, <1>14, <1>15 DEF x

\* A duration of nanoseconds reads back, but for the lowest, whose fields have
\* signs of their own (temporal.go, parseDuration and showNanos).
THEOREM NanosReadBack ==
  ASSUME NEW n \in Int64s, n # Lowest
  PROVE  parseDuration(showNanos(n)) = Spells(<<"time.Duration", n>>)
<1> DEFINE t == showNanos(n)
<1>1. /\ NanosOf(t) = Magnitude(n) /\ Sum(t.day, MonthUnits) = 0 /\ ~SawMonths(t)
      /\ t.sign = Sign(n) /\ WellFormed(t)
  BY NanosAdd
<1> HIDE DEF t
<1> QED BY <1>1, DurationIs, Turned DEF t

(* The fields are a count's and no other's, and months' or nanoseconds'.   *)
LEMMA DurationsApart ==
  ASSUME NEW n \in Int64s, NEW k \in Int64s
  PROVE  /\ showMonths(n) = showMonths(k) => n = k
         /\ showNanos(n) = showNanos(k) => n = k
         /\ showMonths(n) # showNanos(k)
<1>1. ASSUME showMonths(n) = showMonths(k) PROVE n = k
  BY <1>1, MonthsAdd, SizeAndSign
<1>2. ASSUME showNanos(n) = showNanos(k) PROVE n = k
  BY <1>2, NanosAdd, SizeAndSign
<1>3. SawMonths(showMonths(n))
  <2>1. ~showMonths(n).dated /\ \A i \in DOMAIN showMonths(n).day : showMonths(n).day[i].unit \in {"Y", "M"}
    BY MonthsAdd
  <2>2. DOMAIN MonthUnits = {"Y", "M"}
    BY DEF MonthUnits
  <2> QED BY <2>1, <2>2 DEF SawMonths
<1> QED BY <1>1, <1>2, <1>3, NanosAdd

(***************************************************************************)
(* Bytes.                                                                  *)
(***************************************************************************)

\* A sequence is its elements.
LEMMA Elements ==
  ASSUME NEW S, NEW s \in Seq(S)
  PROVE  /\ Len(s) \in Nat /\ DOMAIN s = 1 .. Len(s) /\ s = [i \in 1 .. Len(s) |-> s[i]]
         /\ \A i \in 1 .. Len(s) : s[i] \in S
OBVIOUS

\* A function on the places up to some number is a sequence of that many.
LEMMA SequenceOf ==
  ASSUME NEW S, NEW n \in Nat, NEW s, s = [i \in 1 .. n |-> s[i]],
         \A i \in 1 .. n : s[i] \in S
  PROVE  s \in Seq(S) /\ Len(s) = n
OBVIOUS

\* A byte is its two halves.
LEMMA Halves ==
  ASSUME NEW j \in Int
  PROVE  /\ (2 * j) \div 2 = j /\ (2 * j) % 2 = 0
         /\ (2 * j - 1) % 2 = 1 /\ ((2 * j - 1) + 1) \div 2 = j
<1>1. (2 * j - 1) + 1 = 2 * j
  OBVIOUS
<1>2. (2 * j) \div 2 = j
  OBVIOUS
<1>3. (2 * j) % 2 = 0
  OBVIOUS
<1>4. (2 * j - 1) % 2 = 1
  OBVIOUS
<1> QED BY <1>1, <1>2, <1>3, <1>4

\* The two digits of a byte are at its two places.
LEMMA Hexits ==
  ASSUME NEW raw \in Seq(0 .. 255)
  PROVE  /\ hexits(raw) \in Seq(0 .. 15) /\ Len(hexits(raw)) = 2 * Len(raw)
         /\ \A j \in 1 .. Len(raw) : /\ hexits(raw)[2 * j - 1] = raw[j] \div 16
                                     /\ hexits(raw)[2 * j] = raw[j] % 16
<1> DEFINE n == Len(raw)
           x == hexits(raw)
<1>1. n \in Nat /\ \A j \in 1 .. n : raw[j] \in 0 .. 255
  BY Elements
<1>2. x = [i \in 1 .. 2 * n |-> IF i % 2 = 1 THEN raw[(i + 1) \div 2] \div 16
                                ELSE raw[i \div 2] % 16]
  BY DEF hexits
<1> HIDE DEF n, x
<1>3. ASSUME NEW i \in 1 .. 2 * n
      PROVE  x[i] \in 0 .. 15
  <2> DEFINE B == 0 .. 255
             H == 0 .. 15
  <2>1. ASSUME NEW b \in B PROVE b \div 16 \in H /\ b % 16 \in H
    OBVIOUS
  <2> HIDE DEF B, H
  <2>2. i % 2 = 1 => (i + 1) \div 2 \in 1 .. n
    BY <1>1
  <2>3. i % 2 # 1 => i \div 2 \in 1 .. n
    BY <1>1
  <2>4. x[i] = IF i % 2 = 1 THEN raw[(i + 1) \div 2] \div 16 ELSE raw[i \div 2] % 16
    BY <1>2
  <2> DEFINE k == (i + 1) \div 2
             l == i \div 2
  <2> HIDE DEF k, l
  <2>5. CASE i % 2 = 1
    <3>1. raw[k] \in B
      BY <1>1, <2>2, <2>5, Zenon DEF k, B
    <3>2. x[i] = raw[k] \div 16
      BY <2>4, <2>5 DEF k
    <3> QED BY <2>1, <3>1, <3>2, Zenon DEF H
  <2>6. CASE i % 2 # 1
    <3>1. raw[l] \in B
      BY <1>1, <2>3, <2>6, Zenon DEF l, B
    <3>2. x[i] = raw[l] % 16
      BY <2>4, <2>6 DEF l
    <3> QED BY <2>1, <3>1, <3>2, Zenon DEF H
  <2> QED BY <2>5, <2>6
<1>4. ASSUME NEW j \in 1 .. n
      PROVE  x[2 * j - 1] = raw[j] \div 16 /\ x[2 * j] = raw[j] % 16
  <2>1. 2 * j - 1 \in 1 .. 2 * n /\ 2 * j \in 1 .. 2 * n
    BY <1>1
  <2>2. j \in Int /\ 0 # 1
    BY <1>1
  <2>3. /\ (2 * j) \div 2 = j /\ (2 * j) % 2 = 0
        /\ (2 * j - 1) % 2 = 1 /\ ((2 * j - 1) + 1) \div 2 = j
    BY <2>2, Halves
  <2> QED BY <1>2, <2>1, <2>2, <2>3, Zenon
<1>5. x \in Seq(0 .. 15) /\ Len(x) = 2 * n
  <2>1. 2 * n \in Nat /\ DOMAIN x = 1 .. 2 * n
    BY <1>1, <1>2
  <2>2. x = [i \in 1 .. 2 * n |-> x[i]]
    BY <1>2
  <2> DEFINE k == 2 * n
  <2>3. k \in Nat /\ x = [i \in 1 .. k |-> x[i]] /\ \A i \in 1 .. k : x[i] \in 0 .. 15
    BY <1>3, <2>1, <2>2
  <2> HIDE DEF k
  <2> DEFINE H == 0 .. 15
  <2> HIDE DEF H
  <2>5. \A i \in 1 .. k : x[i] \in H
    BY <2>3, Zenon DEF H
  <2>6. x \in Seq(H) /\ Len(x) = k
    BY <2>3, <2>5, SequenceOf, Zenon
  <2>4. x \in Seq(0 .. 15) /\ Len(x) = k
    BY <2>6, Zenon DEF H
  <2> QED BY <2>4 DEF k
<1> QED BY <1>4, <1>5 DEF n, x

\* Bytes read back (values.go, fromHexits and showValue of a []byte).
THEOREM BytesReadBack ==
  ASSUME NEW raw \in Seq(0 .. 255)
  PROVE  fromHexits(hexits(raw)) = Spells(<<"[]byte", raw>>)
<1> DEFINE n == Len(raw)
           x == hexits(raw)
           b == [i \in 1 .. Len(x) \div 2 |-> 16 * x[2 * i - 1] + x[2 * i]]
<1>1. n \in Nat /\ raw = [j \in 1 .. n |-> raw[j]] /\ \A j \in 1 .. n : raw[j] \in 0 .. 255
  BY Elements
<1>2. Len(x) = 2 * n /\ \A j \in 1 .. n : x[2 * j - 1] = raw[j] \div 16 /\ x[2 * j] = raw[j] % 16
  BY Hexits
<1>3. fromHexits(x) = IF Len(x) % 2 = 0 THEN Spells(<<"[]byte", b>>) ELSE SpellsNone
  BY DEF fromHexits
<1> HIDE DEF n, x
<1>4. (2 * n) \div 2 = n /\ (2 * n) % 2 = 0
  BY <1>1, Halves
<1>5. b = raw
  <2>1. \A j \in 1 .. n : 16 * x[2 * j - 1] + x[2 * j] = raw[j]
    <3> DEFINE B == 0 .. 255
    <3>1. ASSUME NEW k \in B PROVE 16 * (k \div 16) + (k % 16) = k
      OBVIOUS
    <3>2. \A j \in 1 .. n : raw[j] \in B
      BY <1>1, Zenon
    <3> HIDE DEF B
    <3>3. ASSUME NEW j \in 1 .. n PROVE 16 * x[2 * j - 1] + x[2 * j] = raw[j]
      <4>1. 16 * (raw[j] \div 16) + (raw[j] % 16) = raw[j]
        BY <3>1, <3>2, Zenon
      <4>2. x[2 * j - 1] = raw[j] \div 16 /\ x[2 * j] = raw[j] % 16
        BY <1>2, Zenon
      <4> QED BY <4>1, <4>2, Zenon
    <3> QED BY <3>3, Zenon
  <2>2. b = [i \in 1 .. n |-> 16 * x[2 * i - 1] + x[2 * i]]
    BY <1>2, <1>4
  <2> QED BY <1>1, <2>1, <2>2
<1> HIDE DEF b
<1> QED BY <1>2, <1>3, <1>4, <1>5 DEF x

\* What is read as bytes is shown as it was written.
LEMMA BytesShownAgain ==
  ASSUME NEW x \in Seq(0 .. 15), fromHexits(x).ok
  PROVE  /\ fromHexits(x).is[1] = "[]byte" /\ fromHexits(x).is[2] \in Seq(0 .. 255)
         /\ fromHexits(x).is = <<"[]byte", fromHexits(x).is[2]>>
         /\ hexits(fromHexits(x).is[2]) = x
<1> DEFINE n == Len(x) \div 2
           b == [i \in 1 .. n |-> 16 * x[2 * i - 1] + x[2 * i]]
<1>1. Len(x) % 2 = 0 /\ fromHexits(x) = Spells(<<"[]byte", b>>)
  BY DEF fromHexits, SpellsNone
<1>2. Len(x) \in Nat /\ \A i \in 1 .. Len(x) : x[i] \in 0 .. 15
  OBVIOUS
<1>3. n \in Nat /\ Len(x) = 2 * n
  BY <1>1, <1>2
<1>4. fromHexits(x).is = <<"[]byte", b>>
  <2> HIDE DEF b
  <2> QED BY <1>1 DEF Spells
<1>5. ASSUME NEW i \in 1 .. n
      PROVE  /\ 16 * x[2 * i - 1] + x[2 * i] \in 0 .. 255
             /\ (16 * x[2 * i - 1] + x[2 * i]) \div 16 = x[2 * i - 1]
             /\ (16 * x[2 * i - 1] + x[2 * i]) % 16 = x[2 * i]
  <2> HIDE DEF n
  <2>1. 2 * i - 1 \in 1 .. Len(x) /\ 2 * i \in 1 .. Len(x)
    BY <1>2, <1>3
  <2>2. x[2 * i - 1] \in 0 .. 15 /\ x[2 * i] \in 0 .. 15
    BY <1>2, <2>1
  <2> DEFINE H == 0 .. 15
             B == 0 .. 255
  <2>3. ASSUME NEW c \in H, NEW d \in H
        PROVE  16 * c + d \in B /\ (16 * c + d) \div 16 = c /\ (16 * c + d) % 16 = d
    OBVIOUS
  <2> DEFINE c == x[2 * i - 1]
             d == x[2 * i]
  <2>4. c \in H /\ d \in H
    BY <2>2, Zenon
  <2> HIDE DEF c, d, H, B
  <2>5. 16 * c + d \in B /\ (16 * c + d) \div 16 = c /\ (16 * c + d) % 16 = d
    BY <2>3, <2>4, Zenon
  <2> QED BY <2>5, Zenon DEF c, d, B
<1>6. b \in Seq(0 .. 255) /\ Len(b) = n /\ \A i \in 1 .. n : b[i] = 16 * x[2 * i - 1] + x[2 * i]
  <2> HIDE DEF n
  <2> QED BY <1>3, <1>5
<1> HIDE DEF b, n
<1>7. hexits(b) = x
  <2>1. Len(hexits(b)) = 2 * n /\ hexits(b) \in Seq(0 .. 15)
    BY <1>6, Hexits
  <2>2. ASSUME NEW i \in 1 .. n
        PROVE  hexits(b)[2 * i - 1] = x[2 * i - 1] /\ hexits(b)[2 * i] = x[2 * i]
    <3>1. hexits(b)[2 * i - 1] = b[i] \div 16 /\ hexits(b)[2 * i] = b[i] % 16
      BY <1>6, Hexits, Zenon
    <3>2. b[i] \div 16 = x[2 * i - 1] /\ b[i] % 16 = x[2 * i]
      BY <1>5, <1>6, Zenon
    <3> QED BY <3>1, <3>2, Zenon
  <2>3. ASSUME NEW k \in 1 .. 2 * n PROVE hexits(b)[k] = x[k]
    <3>1. \E i \in 1 .. n : k = 2 * i - 1 \/ k = 2 * i
      <4>1. (k + 1) \div 2 \in 1 .. n /\ (k = 2 * ((k + 1) \div 2) - 1 \/ k = 2 * ((k + 1) \div 2))
        BY <1>3
      <4> QED BY <4>1
    <3> QED BY <2>2, <3>1
  <2> QED BY <1>3, <2>1, <2>3
<1> QED BY <1>4, <1>6, <1>7

(***************************************************************************)
(* Recursion. A function that is defined by itself is its definition,      *)
(* because what it needs is of a lower rank.                               *)
(***************************************************************************)

(* A predicate that is its own on things of lower rank has a function.     *)
Recurs(f, X, base, needs) == f = [x \in X |-> base[x] /\ \A y \in needs[x] : f[y]]

\* A predicate that is its own on things of lower rank has a function.
LEMMA Recursion ==
  ASSUME NEW X, NEW base, NEW needs, NEW rank, NEW most \in Nat,
         \A x \in X : rank[x] \in 0 .. most,
         \A x \in X : \A y \in needs[x] : y \in X /\ rank[y] < rank[x]
  PROVE  \E f : Recurs(f, X, base, needs)
<1> DEFINE Below(n) == {x \in X : rank[x] < n}
           Is(f, n) == f = [x \in Below(n) |-> base[x] /\ \A y \in needs[x] : f[y]]
           S == {n \in Nat : \E f : Is(f, n)}
<1>1. 0 \in S
  <2>1. Below(0) = {}
    OBVIOUS
  <2>2. Is([x \in Below(0) |-> 0], 0)
    BY <2>1
  <2> QED BY <2>2
<1>2. ASSUME NEW n \in S PROVE n + 1 \in S
  <2>1. PICK f : Is(f, n)
    OBVIOUS
  <2> DEFINE h == [x \in Below(n + 1) |-> base[x] /\ \A y \in needs[x] : f[y]]
  <2>2. ASSUME NEW x \in Below(n + 1), NEW y \in needs[x]
        PROVE  y \in Below(n) /\ y \in Below(n + 1)
    OBVIOUS
  <2>3. ASSUME NEW x \in Below(n) PROVE x \in Below(n + 1) /\ h[x] = f[x]
    <3>1. x \in Below(n + 1)
      OBVIOUS
    <3> HIDE DEF Below
    <3>2. f[x] = (base[x] /\ \A y \in needs[x] : f[y])
      BY <2>1, Zenon
    <3>3. h[x] = (base[x] /\ \A y \in needs[x] : f[y])
      BY <3>1, Zenon
    <3> QED BY <3>1, <3>2, <3>3, Zenon
  <2>4. ASSUME NEW x \in Below(n + 1)
        PROVE  h[x] = (base[x] /\ \A y \in needs[x] : h[y])
    <3>1. \A y \in needs[x] : h[y] = f[y]
      <4> HIDE DEF Below, h
      <4> QED BY <2>2, <2>3, Zenon
    <3> HIDE DEF Below
    <3>2. h[x] = (base[x] /\ \A y \in needs[x] : f[y])
      BY Zenon
    <3> HIDE DEF h
    <3> QED BY <3>1, <3>2, Zenon
  <2>5. Is(h, n + 1)
    <3> HIDE DEF Below
    <3>1. h = [x \in Below(n + 1) |-> h[x]]
      BY Zenon
    <3> HIDE DEF h
    <3> QED BY <2>4, <3>1, Zenon
  <2> HIDE DEF Is, h
  <2> QED BY <2>5
<1>3. S \in SUBSET Nat
  OBVIOUS
<1>4. most + 1 \in S
  <2> HIDE DEF S
  <2> QED BY <1>1, <1>2, <1>3, Induction
<1>5. Below(most + 1) = X
  OBVIOUS
<1>6. PICK f : Is(f, most + 1)
  <2> HIDE DEF Is
  <2> QED BY <1>4
<1> HIDE DEF Below
<1> QED BY <1>5, <1>6, Zenon DEF Recurs

(***************************************************************************)
(* Values that came back, in the shape of a case.                          *)
(***************************************************************************)

(* What there is in the shape of a case: a value on its own, or one whose  *)
(* members are before it.                                                  *)
One(w, x) ==
    /\ w = <<w[1], x>>
    /\ \/ w[1] = "bool" /\ x \in BOOLEAN
       \/ w[1] \in {"int64", "LocalDateTime", "YearMonth", "time.Duration"} /\ x \in Int64s
       \/ w[1] = "string" /\ x \in STRING
       \/ w[1] = "[]byte" /\ x \in Seq(0 .. 255)
       \/ w[1] = "Date" /\ x \in Int
       \/ w[1] = "LocalTime" /\ x \in Instants
Two(w, x, y) ==
    /\ w = <<w[1], x, y>>
    /\ \/ w[1] = "float64" /\ x \in BOOLEAN /\ y \in STRING /\ y # "beyond"
       \/ w[1] = "Decimal"
       \/ w[1] = "ZonedTime" /\ x \in Instants /\ y \in Offsets
       \/ w[1] = "ZonedDateTime" /\ x \in Int64s /\ y \in Offsets
       \/ w[1] = "NodeAt" /\ x # "" /\ y \in Rows
Three(w, x, y, z) == w = <<"EdgeAt", x, y, z>> /\ x # "" /\ y \in Rows /\ z \in Rows
Flat(w) ==
    \/ w \in {<<"nil">>, <<"graph">>, <<"binding table">>}
    \/ \E x : One(w, x)
    \/ \E x, y : Two(w, x, y)
    \/ \E x, y, z : Three(w, x, y, z)
Composite(w, places) ==
    \E x : /\ w[1] \in Walked /\ w = <<w[1], x>>
           /\ \A i \in DOMAIN x : x[i] \in places
           /\ w[1] # "map" => x \in Seq(places)

\* A value on its own is one in the shape of a case too.
LEMMA ScalarCells ==
  ASSUME NEW v \in Scalars
  PROVE  Flat(Cell(v)) /\ Cell(v)[1] \notin Walked
<1>1. CASE v \in {<<"nil">>, <<"graph">>, <<"binding table">>}
  <2>1. v[1] \in {"nil", "graph", "binding table"}
    <3>1. <<"nil">>[1] = "nil" /\ <<"graph">>[1] = "graph" /\ <<"binding table">>[1] = "binding table"
      OBVIOUS
    <3> QED BY <1>1, <3>1, Zenon
  <2>2. Cell(v) = v
    BY <2>1 DEF Cell
  <2>3. Cell(v)[1] \notin Walked
    BY <2>1, <2>2 DEF Walked
  <2> QED BY <1>1, <2>2, <2>3, Zenon DEF Flat
<1>2. ASSUME NEW x, v = <<v[1], x>>, One(v, x) PROVE Flat(Cell(v)) /\ Cell(v)[1] \notin Walked
  <2>1. v[1] \in {"bool", "int64", "LocalDateTime", "YearMonth", "time.Duration", "string", "[]byte",
                  "Date", "LocalTime"}
    BY <1>2 DEF One
  <2>2. Cell(v) = v
    BY <2>1 DEF Cell
  <2> QED BY <1>2, <2>1, <2>2 DEF Flat, Walked
<1>3. ASSUME NEW x, NEW y, Two(v, x, y), v[1] # "NodeAt" PROVE Flat(Cell(v)) /\ Cell(v)[1] \notin Walked
  <2>1. v[1] \in {"float64", "Decimal", "ZonedTime", "ZonedDateTime"}
    BY <1>3 DEF Two
  <2>2. Cell(v) = v
    BY <2>1 DEF Cell
  <2> QED BY <1>3, <2>1, <2>2 DEF Flat, Walked
<1>4. ASSUME v \in {"bool"} \X BOOLEAN PROVE v = <<v[1], v[2]>> /\ One(v, v[2])
  BY <1>4 DEF One
<1>5. ASSUME v \in {"int64", "LocalDateTime", "YearMonth", "time.Duration"} \X Int64s
      PROVE  v = <<v[1], v[2]>> /\ One(v, v[2])
  BY <1>5 DEF One
<1>6. ASSUME v \in {"string"} \X STRING PROVE v = <<v[1], v[2]>> /\ One(v, v[2])
  BY <1>6 DEF One
<1>7. ASSUME v \in {"[]byte"} \X Seq(0 .. 255) PROVE v = <<v[1], v[2]>> /\ One(v, v[2])
  <2> DEFINE B == Seq(0 .. 255)
  <2> HIDE DEF B
  <2>1. v[1] = "[]byte" /\ v = <<v[1], v[2]>> /\ v[2] \in B
    BY <1>7 DEF B
  <2> QED BY <2>1 DEF One, B
<1>8. ASSUME v \in {"Date"} \X Int PROVE v = <<v[1], v[2]>> /\ One(v, v[2])
  BY <1>8 DEF One
<1>9. ASSUME v \in {"LocalTime"} \X Instants PROVE v = <<v[1], v[2]>> /\ One(v, v[2])
  BY <1>9 DEF One
<1>10. ASSUME v \in {"float64"} \X BOOLEAN \X (STRING \ {"beyond"})
       PROVE  Two(v, v[2], v[3]) /\ v[1] # "NodeAt"
  <2>1. v[1] = "float64" /\ v = <<v[1], v[2], v[3]>>
        /\ v[2] \in BOOLEAN /\ v[3] \in STRING /\ v[3] # "beyond"
    BY <1>10
  <2>2. v[1] # "NodeAt"
    BY <2>1
  <2> QED BY <2>1, <2>2, Zenon DEF Two
<1>11. ASSUME v \in {"Decimal"} \X ({<<>>} \union [1 .. 1 -> Int]) \X Int
       PROVE  Two(v, v[2], v[3]) /\ v[1] # "NodeAt"
  <2> DEFINE B == {<<>>} \union [1 .. 1 -> Int]
  <2> HIDE DEF B
  <2>1. v[1] = "Decimal" /\ v = <<v[1], v[2], v[3]>>
    BY <1>11 DEF B
  <2> QED BY <2>1 DEF Two
<1>12. ASSUME v \in {"ZonedTime"} \X Instants \X Offsets
       PROVE  Two(v, v[2], v[3]) /\ v[1] # "NodeAt"
  <2>1. v[1] = "ZonedTime" /\ v = <<v[1], v[2], v[3]>> /\ v[2] \in Instants /\ v[3] \in Offsets
    BY <1>12
  <2>2. v[1] # "NodeAt"
    BY <2>1
  <2> QED BY <2>1, <2>2, Zenon DEF Two
<1>13. ASSUME v \in {"ZonedDateTime"} \X Int64s \X Offsets
       PROVE  Two(v, v[2], v[3]) /\ v[1] # "NodeAt"
  <2>1. v[1] = "ZonedDateTime" /\ v = <<v[1], v[2], v[3]>> /\ v[2] \in Int64s /\ v[3] \in Offsets
    BY <1>13
  <2>2. v[1] # "NodeAt"
    BY <2>1
  <2> QED BY <2>1, <2>2, Zenon DEF Two
<1>14. ASSUME v \in {"Node"} \X (DOMAIN Named) \X Rows PROVE Flat(Cell(v)) /\ Cell(v)[1] \notin Walked
  <2> DEFINE B == Rows
  <2> HIDE DEF B
  <2>1. v[1] = "Node" /\ v[2] \in DOMAIN Named /\ v[3] \in B
    BY <1>14 DEF B
  <2>2. Cell(v) = <<"NodeAt", Named[v[2]], v[3]>>
    BY <2>1 DEF Cell
  <2>3. Named[v[2]] # ""
    BY <2>1, NamedAssumption
  <2> HIDE <1>14
  <2>4. Cell(v)[1] = "NodeAt"
    BY <2>2
  <2>5. Two(Cell(v), Named[v[2]], v[3])
    BY <2>1, <2>2, <2>3, <2>4, Zenon DEF Two, B
  <2> QED BY <2>4, <2>5 DEF Flat, Walked
<1>15. ASSUME v \in {"Rel"} \X (DOMAIN Named) \X Rows \X Rows PROVE Flat(Cell(v)) /\ Cell(v)[1] \notin Walked
  <2> DEFINE B == Rows
  <2> HIDE DEF B
  <2>1. v[1] = "Rel" /\ v[2] \in DOMAIN Named /\ v[3] \in B /\ v[4] \in B
    BY <1>15 DEF B
  <2>2. Cell(v) = <<"EdgeAt", Named[v[2]], v[3], v[4]>>
    BY <2>1 DEF Cell
  <2>3. Named[v[2]] # ""
    BY <2>1, NamedAssumption
  <2> HIDE <1>15
  <2>4. Three(Cell(v), Named[v[2]], v[3], v[4])
    BY <2>1, <2>2, <2>3, Zenon DEF Three, B
  <2> QED BY <2>2, <2>4 DEF Flat, Walked
<1> QED BY <1>1, <1>2, <1>3, <1>4, <1>5, <1>6, <1>7, <1>8, <1>9, <1>10, <1>11, <1>12, <1>13,
           <1>14, <1>15, ZenonT(40)
        DEF Scalars

\* One that holds others holds the same ones in the shape of a case.
LEMMA CompositeCells ==
  ASSUME NEW v, NEW places, Holds(v, places)
  PROVE  Composite(Cell(v), places)
<1>1. CASE v \in {"[]any", "Path"} \X Seq(places)
  <2>1. v[1] \in {"[]any", "Path"} /\ v = <<v[1], v[2]>> /\ v[2] \in Seq(places)
    <3> DEFINE B == Seq(places)
    <3> HIDE DEF B
    <3>1. v[1] \in {"[]any", "Path"} /\ v = <<v[1], v[2]>> /\ v[2] \in B
      BY <1>1 DEF B
    <3> QED BY <3>1 DEF B
  <2>2. Cell(v) = <<IF v[1] = "Path" THEN "Walk" ELSE "[]any", v[2]>>
    BY <2>1 DEF Cell
  <2>3. \A i \in DOMAIN v[2] : v[2][i] \in places
    BY <2>1, Elements
  <2>4. Cell(v)[1] \in {"[]any", "Walk"} /\ Cell(v) = <<Cell(v)[1], v[2]>>
    BY <2>2
  <2> QED BY <2>1, <2>3, <2>4 DEF Composite, Walked
<1>2. CASE v[1] = "Record" /\ v = <<v[1], v[2]>> /\ v[2] \in [DOMAIN v[2] -> places]
  <2>1. Cell(v) = <<"map", v[2]>>
    BY <1>2 DEF Cell
  <2>2. \A i \in DOMAIN v[2] : v[2][i] \in places
    BY <1>2
  <2> QED BY <2>1, <2>2 DEF Composite, Walked
<1> QED BY <1>1, <1>2 DEF Holds

\* What is encoded: a value on its own, or one whose members are before it.
LEMMA Cells ==
  /\ Len(Returned) \in Nat /\ DOMAIN Encoded = 1 .. Len(Returned)
  /\ \A k \in 1 .. Len(Returned) :
        \/ Flat(Encoded[k]) /\ Encoded[k][1] \notin Walked
        \/ Composite(Encoded[k], 1 .. k - 1)
<1>1. Len(Returned) \in Nat /\ DOMAIN Returned = 1 .. Len(Returned)
  BY ReturnedAssumption
<1>2. DOMAIN Encoded = 1 .. Len(Returned)
  BY <1>1 DEF Encoded
<1>3. ASSUME NEW k \in 1 .. Len(Returned)
      PROVE  \/ Flat(Encoded[k]) /\ Encoded[k][1] \notin Walked
             \/ Composite(Encoded[k], 1 .. k - 1)
  <2>1. Encoded[k] = Cell(Returned[k])
    BY <1>1 DEF Encoded
  <2>2. Returned[k] \in Scalars \/ Holds(Returned[k], 1 .. k - 1)
    BY <1>1, ReturnedAssumption, Zenon
  <2> QED BY <2>1, <2>2, ScalarCells, CompositeCells
<1> QED BY <1>1, <1>2, <1>3

(***************************************************************************)
(* How a value is shown, by its type.                                      *)
(***************************************************************************)

(* What each type is shown as.                                             *)
LEMMA ShowIs ==
  ASSUME NEW w
  PROVE  /\ w[1] = "nil" => /\ Show(w).type = "NULL" /\ Show(w).quoted = FALSE
                  /\ Show(w).text = ""
         /\ w[1] = "bool" => /\ Show(w).type = "BOOL" /\ Show(w).quoted = FALSE
                  /\ Show(w).text = w[2]
         /\ w[1] = "int64" => /\ Show(w).type = "INT64" /\ Show(w).quoted = TRUE
                  /\ Show(w).text = [n |-> w[2], canonical |-> TRUE]
         /\ w[1] = "float64" => /\ Show(w).type = "FLOAT64" /\ Show(w).quoted = TRUE
                  /\ Show(w).text = showFloat(w)
         /\ w[1] = "string" => /\ Show(w).type = "STRING" /\ Show(w).quoted = TRUE
                  /\ Show(w).text = w[2]
         /\ w[1] = "[]byte" => /\ Show(w).type = "BYTES" /\ Show(w).quoted = TRUE
                  /\ Show(w).text = hexits(w[2])
         /\ w[1] = "Decimal" => /\ Show(w).type = "DECIMAL" /\ Show(w).quoted = TRUE
                  /\ Show(w).text = <<unscaled(w), w[3]>>
         /\ w[1] = "Date" => /\ Show(w).type = "DATE" /\ Show(w).quoted = TRUE
                  /\ Show(w).text = showDate(w[2])
         /\ w[1] = "LocalTime" => /\ Show(w).type = "LOCALTIME" /\ Show(w).quoted = TRUE
                  /\ Show(w).text = showClock(w[2])
         /\ w[1] = "ZonedTime" => /\ Show(w).type = "ZONEDTIME" /\ Show(w).quoted = TRUE
                  /\ Show(w).text = [clock |-> showClock(w[2]), offset |-> showOffset(w[3])]
         /\ w[1] = "LocalDateTime" => /\ Show(w).type = "LOCALDATETIME" /\ Show(w).quoted = TRUE
                  /\ Show(w).text = showStamp(w[2])
         /\ w[1] = "ZonedDateTime" => /\ Show(w).type = "ZONEDDATETIME" /\ Show(w).quoted = TRUE
                  /\ Show(w).text = showZoned(w[2], w[3])
         /\ w[1] = "YearMonth" => /\ Show(w).type = "DURATION" /\ Show(w).quoted = TRUE
                  /\ Show(w).text = showMonths(w[2])
         /\ w[1] = "time.Duration" => /\ Show(w).type = "DURATION" /\ Show(w).quoted = TRUE
                  /\ Show(w).text = showNanos(w[2])
         /\ w[1] = "[]any" => /\ Show(w).type = "LIST" /\ Show(w).quoted = FALSE
                  /\ Show(w).text = w[2]
         /\ w[1] = "Walk" => /\ Show(w).type = "PATH" /\ Show(w).quoted = FALSE
                  /\ Show(w).text = w[2]
         /\ w[1] = "NodeAt" => /\ Show(w).type = "NODE" /\ Show(w).quoted = TRUE
                  /\ Show(w).text = [table |-> w[2], offset |-> w[3]]
         /\ w[1] = "EdgeAt" => /\ Show(w).type = "EDGE" /\ Show(w).quoted = TRUE
                  /\ Show(w).text = [table |-> w[2], src |-> w[3], dst |-> w[4]]
         /\ w[1] = "map" => /\ Show(w).type = "RECORD" /\ Show(w).quoted = FALSE
                  /\ Show(w).text = w[2]
         /\ w[1] = "graph" => /\ Show(w).type = "graph" /\ Show(w).quoted = FALSE
                  /\ Show(w).text = ""
         /\ w[1] = "binding table" => /\ Show(w).type = "binding table" /\ Show(w).quoted = FALSE
                  /\ Show(w).text = ""
<1>1. w[1] = "nil" => /\ Show(w).type = "NULL" /\ Show(w).quoted = FALSE
              /\ Show(w).text = ""
  BY DEF Show, Spelled
<1>2. w[1] = "bool" => /\ Show(w).type = "BOOL" /\ Show(w).quoted = FALSE
              /\ Show(w).text = w[2]
  BY DEF Show, Spelled
<1>3. w[1] = "int64" => /\ Show(w).type = "INT64" /\ Show(w).quoted = TRUE
              /\ Show(w).text = [n |-> w[2], canonical |-> TRUE]
  BY DEF Show, Spelled
<1>4. w[1] = "float64" => /\ Show(w).type = "FLOAT64" /\ Show(w).quoted = TRUE
              /\ Show(w).text = showFloat(w)
  BY DEF Show, Spelled
<1>5. w[1] = "string" => /\ Show(w).type = "STRING" /\ Show(w).quoted = TRUE
              /\ Show(w).text = w[2]
  BY DEF Show, Spelled
<1>6. w[1] = "[]byte" => /\ Show(w).type = "BYTES" /\ Show(w).quoted = TRUE
              /\ Show(w).text = hexits(w[2])
  BY DEF Show, Spelled
<1>7. w[1] = "Decimal" => /\ Show(w).type = "DECIMAL" /\ Show(w).quoted = TRUE
              /\ Show(w).text = <<unscaled(w), w[3]>>
  BY DEF Show, Spelled
<1>8. w[1] = "Date" => /\ Show(w).type = "DATE" /\ Show(w).quoted = TRUE
              /\ Show(w).text = showDate(w[2])
  BY DEF Show, Spelled
<1>9. w[1] = "LocalTime" => /\ Show(w).type = "LOCALTIME" /\ Show(w).quoted = TRUE
              /\ Show(w).text = showClock(w[2])
  BY DEF Show, Spelled
<1>10. w[1] = "ZonedTime" => /\ Show(w).type = "ZONEDTIME" /\ Show(w).quoted = TRUE
              /\ Show(w).text = [clock |-> showClock(w[2]), offset |-> showOffset(w[3])]
  BY DEF Show, Spelled
<1>11. w[1] = "LocalDateTime" => /\ Show(w).type = "LOCALDATETIME" /\ Show(w).quoted = TRUE
              /\ Show(w).text = showStamp(w[2])
  BY DEF Show, Spelled
<1>12. w[1] = "ZonedDateTime" => /\ Show(w).type = "ZONEDDATETIME" /\ Show(w).quoted = TRUE
              /\ Show(w).text = showZoned(w[2], w[3])
  BY DEF Show, Spelled
<1>13. w[1] = "YearMonth" => /\ Show(w).type = "DURATION" /\ Show(w).quoted = TRUE
              /\ Show(w).text = showMonths(w[2])
  BY DEF Show, Spelled
<1>14. w[1] = "time.Duration" => /\ Show(w).type = "DURATION" /\ Show(w).quoted = TRUE
              /\ Show(w).text = showNanos(w[2])
  BY DEF Show, Spelled
<1>15. w[1] = "[]any" => /\ Show(w).type = "LIST" /\ Show(w).quoted = FALSE
              /\ Show(w).text = w[2]
  BY DEF Show, Spelled
<1>16. w[1] = "Walk" => /\ Show(w).type = "PATH" /\ Show(w).quoted = FALSE
              /\ Show(w).text = w[2]
  BY DEF Show, Spelled
<1>17. w[1] = "NodeAt" => /\ Show(w).type = "NODE" /\ Show(w).quoted = TRUE
              /\ Show(w).text = [table |-> w[2], offset |-> w[3]]
  BY DEF Show, Spelled
<1>18. w[1] = "EdgeAt" => /\ Show(w).type = "EDGE" /\ Show(w).quoted = TRUE
              /\ Show(w).text = [table |-> w[2], src |-> w[3], dst |-> w[4]]
  BY DEF Show, Spelled
<1>19. w[1] = "map" => /\ Show(w).type = "RECORD" /\ Show(w).quoted = FALSE
              /\ Show(w).text = w[2]
  BY DEF Show, Spelled
<1>20. w[1] = "graph" => /\ Show(w).type = "graph" /\ Show(w).quoted = FALSE
              /\ Show(w).text = ""
  BY DEF Show, Spelled
<1>21. w[1] = "binding table" => /\ Show(w).type = "binding table" /\ Show(w).quoted = FALSE
              /\ Show(w).text = ""
  BY DEF Show, Spelled
<1> QED BY <1>1, <1>2, <1>3, <1>4, <1>5, <1>6, <1>7, <1>8, <1>9, <1>10, <1>11, <1>12, <1>13,
           <1>14, <1>15, <1>16, <1>17, <1>18, <1>19, <1>20, <1>21, Zenon

(* What each type is shown as, and the type that is shown so.              *)
Label(type) ==
    CASE type = "nil" -> "NULL"
      [] type = "bool" -> "BOOL"
      [] type = "int64" -> "INT64"
      [] type = "float64" -> "FLOAT64"
      [] type = "string" -> "STRING"
      [] type = "[]byte" -> "BYTES"
      [] type = "Decimal" -> "DECIMAL"
      [] type = "Date" -> "DATE"
      [] type = "LocalTime" -> "LOCALTIME"
      [] type = "ZonedTime" -> "ZONEDTIME"
      [] type = "LocalDateTime" -> "LOCALDATETIME"
      [] type = "ZonedDateTime" -> "ZONEDDATETIME"
      [] type = "YearMonth" -> "DURATION"
      [] type = "time.Duration" -> "DURATION"
      [] type = "[]any" -> "LIST"
      [] type = "Walk" -> "PATH"
      [] type = "NodeAt" -> "NODE"
      [] type = "EdgeAt" -> "EDGE"
      [] type = "map" -> "RECORD"
      [] type = "graph" -> "graph"
      [] type = "binding table" -> "binding table"
Kind(label) ==
    CASE label = "NULL" -> "nil"
      [] label = "BOOL" -> "bool"
      [] label = "INT64" -> "int64"
      [] label = "FLOAT64" -> "float64"
      [] label = "STRING" -> "string"
      [] label = "BYTES" -> "[]byte"
      [] label = "DECIMAL" -> "Decimal"
      [] label = "DATE" -> "Date"
      [] label = "LOCALTIME" -> "LocalTime"
      [] label = "ZONEDTIME" -> "ZonedTime"
      [] label = "LOCALDATETIME" -> "LocalDateTime"
      [] label = "ZONEDDATETIME" -> "ZonedDateTime"
      [] label = "DURATION" -> "DURATION"
      [] label = "LIST" -> "[]any"
      [] label = "PATH" -> "Walk"
      [] label = "NODE" -> "NodeAt"
      [] label = "EDGE" -> "EdgeAt"
      [] label = "RECORD" -> "map"
      [] label = "graph" -> "graph"
      [] label = "binding table" -> "binding table"
Kinds == {"nil", "bool", "int64", "float64", "string", "[]byte", "Decimal", "Date", "LocalTime",
          "ZonedTime", "LocalDateTime", "ZonedDateTime", "YearMonth", "time.Duration", "[]any",
          "Walk", "NodeAt", "EdgeAt", "map", "graph", "binding table"}

\* The type shown tells the type it is of, but for the two of a duration.
LEMMA Labels ==
  ASSUME NEW w, w[1] \in Kinds
  PROVE  /\ Show(w).type = Label(w[1])
         /\ Kind(Label(w[1])) = IF w[1] \in {"YearMonth", "time.Duration"} THEN "DURATION" ELSE w[1]
         /\ w[1] \in Walked <=> Show(w).type \in {"LIST", "PATH", "RECORD"}
<1>2. w[1] = "nil" => Show(w).type = "NULL" /\ Label(w[1]) = "NULL" /\ Kind("NULL") = "nil"
  <2>1. w[1] = "nil" => Show(w).type = "NULL"
    BY ShowIs, Zenon
  <2>2. Label("nil") = "NULL" /\ Kind("NULL") = "nil"
    BY DEF Label, Kind
  <2> QED BY <2>1, <2>2, Zenon
<1>3. w[1] = "bool" => Show(w).type = "BOOL" /\ Label(w[1]) = "BOOL" /\ Kind("BOOL") = "bool"
  <2>1. w[1] = "bool" => Show(w).type = "BOOL"
    BY ShowIs, Zenon
  <2>2. Label("bool") = "BOOL" /\ Kind("BOOL") = "bool"
    BY DEF Label, Kind
  <2> QED BY <2>1, <2>2, Zenon
<1>4. w[1] = "int64" => Show(w).type = "INT64" /\ Label(w[1]) = "INT64" /\ Kind("INT64") = "int64"
  <2>1. w[1] = "int64" => Show(w).type = "INT64"
    BY ShowIs, Zenon
  <2>2. Label("int64") = "INT64" /\ Kind("INT64") = "int64"
    BY DEF Label, Kind
  <2> QED BY <2>1, <2>2, Zenon
<1>5. w[1] = "float64" => Show(w).type = "FLOAT64" /\ Label(w[1]) = "FLOAT64" /\ Kind("FLOAT64") = "float64"
  <2>1. w[1] = "float64" => Show(w).type = "FLOAT64"
    BY ShowIs, Zenon
  <2>2. Label("float64") = "FLOAT64" /\ Kind("FLOAT64") = "float64"
    BY DEF Label, Kind
  <2> QED BY <2>1, <2>2, Zenon
<1>6. w[1] = "string" => Show(w).type = "STRING" /\ Label(w[1]) = "STRING" /\ Kind("STRING") = "string"
  <2>1. w[1] = "string" => Show(w).type = "STRING"
    BY ShowIs, Zenon
  <2>2. Label("string") = "STRING" /\ Kind("STRING") = "string"
    BY DEF Label, Kind
  <2> QED BY <2>1, <2>2, Zenon
<1>7. w[1] = "[]byte" => Show(w).type = "BYTES" /\ Label(w[1]) = "BYTES" /\ Kind("BYTES") = "[]byte"
  <2>1. w[1] = "[]byte" => Show(w).type = "BYTES"
    BY ShowIs, Zenon
  <2>2. Label("[]byte") = "BYTES" /\ Kind("BYTES") = "[]byte"
    BY DEF Label, Kind
  <2> QED BY <2>1, <2>2, Zenon
<1>8. w[1] = "Decimal" => Show(w).type = "DECIMAL" /\ Label(w[1]) = "DECIMAL" /\ Kind("DECIMAL") = "Decimal"
  <2>1. w[1] = "Decimal" => Show(w).type = "DECIMAL"
    BY ShowIs, Zenon
  <2>2. Label("Decimal") = "DECIMAL" /\ Kind("DECIMAL") = "Decimal"
    BY DEF Label, Kind
  <2> QED BY <2>1, <2>2, Zenon
<1>9. w[1] = "Date" => Show(w).type = "DATE" /\ Label(w[1]) = "DATE" /\ Kind("DATE") = "Date"
  <2>1. w[1] = "Date" => Show(w).type = "DATE"
    BY ShowIs, Zenon
  <2>2. Label("Date") = "DATE" /\ Kind("DATE") = "Date"
    BY DEF Label, Kind
  <2> QED BY <2>1, <2>2, Zenon
<1>10. w[1] = "LocalTime" => Show(w).type = "LOCALTIME" /\ Label(w[1]) = "LOCALTIME" /\ Kind("LOCALTIME") = "LocalTime"
  <2>1. w[1] = "LocalTime" => Show(w).type = "LOCALTIME"
    BY ShowIs, Zenon
  <2>2. Label("LocalTime") = "LOCALTIME" /\ Kind("LOCALTIME") = "LocalTime"
    BY DEF Label, Kind
  <2> QED BY <2>1, <2>2, Zenon
<1>11. w[1] = "ZonedTime" => Show(w).type = "ZONEDTIME" /\ Label(w[1]) = "ZONEDTIME" /\ Kind("ZONEDTIME") = "ZonedTime"
  <2>1. w[1] = "ZonedTime" => Show(w).type = "ZONEDTIME"
    BY ShowIs, Zenon
  <2>2. Label("ZonedTime") = "ZONEDTIME" /\ Kind("ZONEDTIME") = "ZonedTime"
    BY DEF Label, Kind
  <2> QED BY <2>1, <2>2, Zenon
<1>12. w[1] = "LocalDateTime" => Show(w).type = "LOCALDATETIME" /\ Label(w[1]) = "LOCALDATETIME" /\ Kind("LOCALDATETIME") = "LocalDateTime"
  <2>1. w[1] = "LocalDateTime" => Show(w).type = "LOCALDATETIME"
    BY ShowIs, Zenon
  <2>2. Label("LocalDateTime") = "LOCALDATETIME" /\ Kind("LOCALDATETIME") = "LocalDateTime"
    BY DEF Label, Kind
  <2> QED BY <2>1, <2>2, Zenon
<1>13. w[1] = "ZonedDateTime" => Show(w).type = "ZONEDDATETIME" /\ Label(w[1]) = "ZONEDDATETIME" /\ Kind("ZONEDDATETIME") = "ZonedDateTime"
  <2>1. w[1] = "ZonedDateTime" => Show(w).type = "ZONEDDATETIME"
    BY ShowIs, Zenon
  <2>2. Label("ZonedDateTime") = "ZONEDDATETIME" /\ Kind("ZONEDDATETIME") = "ZonedDateTime"
    BY DEF Label, Kind
  <2> QED BY <2>1, <2>2, Zenon
<1>14. w[1] = "YearMonth" => Show(w).type = "DURATION" /\ Label(w[1]) = "DURATION" /\ Kind("DURATION") = "DURATION"
  <2>1. w[1] = "YearMonth" => Show(w).type = "DURATION"
    BY ShowIs, Zenon
  <2>2. Label("YearMonth") = "DURATION" /\ Kind("DURATION") = "DURATION"
    BY DEF Label, Kind
  <2> QED BY <2>1, <2>2, Zenon
<1>15. w[1] = "time.Duration" => Show(w).type = "DURATION" /\ Label(w[1]) = "DURATION" /\ Kind("DURATION") = "DURATION"
  <2>1. w[1] = "time.Duration" => Show(w).type = "DURATION"
    BY ShowIs, Zenon
  <2>2. Label("time.Duration") = "DURATION" /\ Kind("DURATION") = "DURATION"
    BY DEF Label, Kind
  <2> QED BY <2>1, <2>2, Zenon
<1>16. w[1] = "[]any" => Show(w).type = "LIST" /\ Label(w[1]) = "LIST" /\ Kind("LIST") = "[]any"
  <2>1. w[1] = "[]any" => Show(w).type = "LIST"
    BY ShowIs, Zenon
  <2>2. Label("[]any") = "LIST" /\ Kind("LIST") = "[]any"
    BY DEF Label, Kind
  <2> QED BY <2>1, <2>2, Zenon
<1>17. w[1] = "Walk" => Show(w).type = "PATH" /\ Label(w[1]) = "PATH" /\ Kind("PATH") = "Walk"
  <2>1. w[1] = "Walk" => Show(w).type = "PATH"
    BY ShowIs, Zenon
  <2>2. Label("Walk") = "PATH" /\ Kind("PATH") = "Walk"
    BY DEF Label, Kind
  <2> QED BY <2>1, <2>2, Zenon
<1>18. w[1] = "NodeAt" => Show(w).type = "NODE" /\ Label(w[1]) = "NODE" /\ Kind("NODE") = "NodeAt"
  <2>1. w[1] = "NodeAt" => Show(w).type = "NODE"
    BY ShowIs, Zenon
  <2>2. Label("NodeAt") = "NODE" /\ Kind("NODE") = "NodeAt"
    BY DEF Label, Kind
  <2> QED BY <2>1, <2>2, Zenon
<1>19. w[1] = "EdgeAt" => Show(w).type = "EDGE" /\ Label(w[1]) = "EDGE" /\ Kind("EDGE") = "EdgeAt"
  <2>1. w[1] = "EdgeAt" => Show(w).type = "EDGE"
    BY ShowIs, Zenon
  <2>2. Label("EdgeAt") = "EDGE" /\ Kind("EDGE") = "EdgeAt"
    BY DEF Label, Kind
  <2> QED BY <2>1, <2>2, Zenon
<1>20. w[1] = "map" => Show(w).type = "RECORD" /\ Label(w[1]) = "RECORD" /\ Kind("RECORD") = "map"
  <2>1. w[1] = "map" => Show(w).type = "RECORD"
    BY ShowIs, Zenon
  <2>2. Label("map") = "RECORD" /\ Kind("RECORD") = "map"
    BY DEF Label, Kind
  <2> QED BY <2>1, <2>2, Zenon
<1>21. w[1] = "graph" => Show(w).type = "graph" /\ Label(w[1]) = "graph" /\ Kind("graph") = "graph"
  <2>1. w[1] = "graph" => Show(w).type = "graph"
    BY ShowIs, Zenon
  <2>2. Label("graph") = "graph" /\ Kind("graph") = "graph"
    BY DEF Label, Kind
  <2> QED BY <2>1, <2>2, Zenon
<1>22. w[1] = "binding table" => Show(w).type = "binding table" /\ Label(w[1]) = "binding table" /\ Kind("binding table") = "binding table"
  <2>1. w[1] = "binding table" => Show(w).type = "binding table"
    BY ShowIs, Zenon
  <2>2. Label("binding table") = "binding table" /\ Kind("binding table") = "binding table"
    BY DEF Label, Kind
  <2> QED BY <2>1, <2>2, Zenon
<1> QED BY <1>2, <1>3, <1>4, <1>5, <1>6, <1>7, <1>8, <1>9, <1>10, <1>11, <1>12, <1>13, <1>14,
           <1>15, <1>16, <1>17, <1>18, <1>19, <1>20, <1>21, <1>22 DEF Kinds, Walked

Ones == {"bool", "int64", "LocalDateTime", "YearMonth", "time.Duration", "string", "[]byte", "Date",
         "LocalTime"}
Twos == {"float64", "Decimal", "ZonedTime", "ZonedDateTime", "NodeAt"}

\* A value on its own is its type and what is beside it.
LEMMA FlatIs ==
  ASSUME NEW w, Flat(w)
  PROVE  /\ w[1] \in Kinds /\ w[1] \notin Walked
         /\ w[1] \in {"nil", "graph", "binding table"} => w = <<w[1]>>
         /\ w[1] \in Ones => One(w, w[2])
         /\ w[1] \in Twos => Two(w, w[2], w[3])
         /\ w[1] = "EdgeAt" => Three(w, w[2], w[3], w[4])
<1> DEFINE Goal == /\ w[1] \in Kinds /\ w[1] \notin Walked
                   /\ w[1] \in {"nil", "graph", "binding table"} => w = <<w[1]>>
                   /\ w[1] \in Ones => One(w, w[2])
                   /\ w[1] \in Twos => Two(w, w[2], w[3])
                   /\ w[1] = "EdgeAt" => Three(w, w[2], w[3], w[4])
<1>1. ASSUME w \in {<<"nil">>, <<"graph">>, <<"binding table">>} PROVE Goal
  <2>1. <<"nil">>[1] = "nil" /\ <<"graph">>[1] = "graph" /\ <<"binding table">>[1] = "binding table"
    OBVIOUS
  <2>2. w[1] \in {"nil", "graph", "binding table"} /\ w = <<w[1]>>
    BY <1>1, <2>1, Zenon
  <2>3. /\ w[1] \in Kinds /\ w[1] \notin Walked /\ w[1] \notin Ones /\ w[1] \notin Twos
        /\ w[1] # "EdgeAt"
    BY <2>2 DEF Kinds, Walked, Ones, Twos
  <2> QED BY <2>2, <2>3
<1>2. ASSUME NEW x, One(w, x) PROVE Goal
  <2>1. w[1] \in Ones /\ w = <<w[1], x>>
    BY <1>2 DEF One, Ones
  <2>2. x = w[2]
    BY <2>1
  <2>3. /\ w[1] \in Kinds /\ w[1] \notin Walked /\ w[1] \notin Twos
        /\ w[1] \notin {"nil", "graph", "binding table"} /\ w[1] # "EdgeAt"
    BY <2>1 DEF Kinds, Walked, Ones, Twos
  <2>4. One(w, w[2])
    BY <1>2, <2>2
  <2> QED BY <2>1, <2>3, <2>4
<1>3. ASSUME NEW x, NEW y, Two(w, x, y) PROVE Goal
  <2>1. w[1] \in Twos /\ w = <<w[1], x, y>>
    BY <1>3 DEF Two, Twos
  <2>2. x = w[2] /\ y = w[3]
    BY <2>1
  <2>3. /\ w[1] \in Kinds /\ w[1] \notin Walked /\ w[1] \notin Ones
        /\ w[1] \notin {"nil", "graph", "binding table"} /\ w[1] # "EdgeAt"
    BY <2>1 DEF Kinds, Walked, Ones, Twos
  <2>4. Two(w, w[2], w[3])
    BY <1>3, <2>2
  <2> QED BY <2>1, <2>3, <2>4
<1>4. ASSUME NEW x, NEW y, NEW z, Three(w, x, y, z) PROVE Goal
  <2>1. w[1] = "EdgeAt" /\ w = <<w[1], x, y, z>>
    BY <1>4 DEF Three
  <2>2. x = w[2] /\ y = w[3] /\ z = w[4]
    BY <2>1
  <2>3. /\ w[1] \in Kinds /\ w[1] \notin Walked /\ w[1] \notin Ones /\ w[1] \notin Twos
        /\ w[1] \notin {"nil", "graph", "binding table"}
    BY <2>1 DEF Kinds, Walked, Ones, Twos
  <2>4. Three(w, w[2], w[3], w[4])
    BY <1>4, <2>2
  <2> QED BY <2>3, <2>4
<1> HIDE DEF Goal
<1>5. Goal
  BY <1>1, <1>2, <1>3, <1>4 DEF Flat
<1> QED BY <1>5 DEF Goal

SameAlone(v, w) ==
    /\ v[1] = "float64" => SameFloat(v, w)
    /\ v[1] = "Decimal" => SameDecimal(v, w)
    /\ v[1] \notin {"float64", "Decimal"} => v = w

(* Two values on their own are shown as one text exactly when they are the *)
(* same.                                                                   *)
LEMMA TextsAlike ==
  ASSUME NEW v, NEW w, Flat(v), Flat(w), v[1] = w[1]
  PROVE  Show(v).text = Show(w).text <=> SameAlone(v, w)
<1> DEFINE Goal == Show(v).text = Show(w).text <=> SameAlone(v, w)
<1>1. ASSUME v[1] \in {"nil", "graph", "binding table"} PROVE Goal
  <2>1. v = w
    BY <1>1, FlatIs
  <2> QED BY <1>1, <2>1 DEF SameAlone
<1>2. v[1] \in Ones => v = <<v[1], v[2]>> /\ w = <<v[1], w[2]>>
  BY FlatIs DEF One
<1>3. v[1] \in Twos => v = <<v[1], v[2], v[3]>> /\ w = <<v[1], w[2], w[3]>>
  BY FlatIs DEF Two
<1>4. ASSUME v[1] \in Ones, Show(v).text = Show(w).text => v[2] = w[2] PROVE Goal
  <2>1. v[1] \notin {"float64", "Decimal"}
    BY <1>4 DEF Ones
  <2>2. v[2] = w[2] => v = w
    BY <1>2, <1>4, Zenon
  <2> QED BY <1>4, <2>1, <2>2 DEF SameAlone
<1>5. ASSUME v[1] \in Twos, v[1] \notin {"float64", "Decimal"},
             Show(v).text = Show(w).text => v[2] = w[2] /\ v[3] = w[3]
      PROVE  Goal
  <2>1. v[2] = w[2] /\ v[3] = w[3] => v = w
    BY <1>3, <1>5, Zenon
  <2> QED BY <1>5, <2>1 DEF SameAlone
<1>6. CASE v[1] \in {"bool", "string"}
  <2>1. Show(v).text = v[2] /\ Show(w).text = w[2]
    BY <1>6, ShowIs, Zenon
  <2> QED BY <1>4, <1>6, <2>1 DEF Ones
<1>7. CASE v[1] = "int64"
  <2>1. Show(v).text = [n |-> v[2], canonical |-> TRUE] /\ Show(w).text = [n |-> w[2], canonical |-> TRUE]
    BY <1>7, ShowIs, Zenon
  <2>2. Show(v).text = Show(w).text => v[2] = w[2]
    BY <2>1
  <2> QED BY <1>4, <1>7, <2>2 DEF Ones
<1>8. CASE v[1] = "[]byte"
  <2>1. Show(v).text = hexits(v[2]) /\ Show(w).text = hexits(w[2])
    BY <1>8, ShowIs, Zenon
  <2>2. v[2] \in Seq(0 .. 255) /\ w[2] \in Seq(0 .. 255)
    BY <1>8, FlatIs DEF One, Ones
  <2>3. Show(v).text = Show(w).text => Spells(<<"[]byte", v[2]>>) = Spells(<<"[]byte", w[2]>>)
    BY <2>1, <2>2, BytesReadBack, Zenon
  <2>4. Show(v).text = Show(w).text => v[2] = w[2]
    BY <2>3 DEF Spells
  <2> QED BY <1>4, <1>8, <2>4 DEF Ones
<1>9. CASE v[1] = "Date"
  <2>1. Show(v).text = showDate(v[2]) /\ Show(w).text = showDate(w[2])
    BY <1>9, ShowIs, Zenon
  <2>2. v[2] \in Int /\ w[2] \in Int
    BY <1>9, FlatIs DEF One, Ones
  <2>3. Show(v).text = Show(w).text => v[2] = w[2]
    <3> DEFINE days(t) == DaysOf(t.y, t.m, t.d)
    <3>1. days(CivilOf(v[2])) = v[2] /\ days(CivilOf(w[2])) = w[2]
      BY <2>2, DateOfDay
    <3>2. Show(v).text = CivilOf(v[2]) /\ Show(w).text = CivilOf(w[2])
      BY <2>1 DEF showDate
    <3> HIDE DEF days
    <3> QED BY <3>1, <3>2, Zenon
  <2> QED BY <1>4, <1>9, <2>3 DEF Ones
<1>10. CASE v[1] = "LocalTime"
  <2>1. Show(v).text = showClock(v[2]) /\ Show(w).text = showClock(w[2])
    BY <1>10, ShowIs, Zenon
  <2>2. v[2] \in Instants /\ w[2] \in Instants
    BY <1>10, FlatIs DEF One, Ones
  <2>3. Show(v).text = Show(w).text => Spells(v[2]) = Spells(w[2])
    BY <2>1, <2>2, ClockReadsBack, Zenon
  <2>4. Show(v).text = Show(w).text => v[2] = w[2]
    BY <2>3 DEF Spells
  <2> QED BY <1>4, <1>10, <2>4 DEF Ones
<1>11. CASE v[1] = "LocalDateTime"
  <2>1. Show(v).text = showStamp(v[2]) /\ Show(w).text = showStamp(w[2])
    BY <1>11, ShowIs, Zenon
  <2>2. v[2] \in Int64s /\ w[2] \in Int64s
    BY <1>11, FlatIs DEF One, Ones
  <2>3. Show(v).text = Show(w).text =>
          Spells(<<"LocalDateTime", v[2]>>) = Spells(<<"LocalDateTime", w[2]>>)
    BY <2>1, <2>2, StampReadsBack, Zenon
  <2>4. Show(v).text = Show(w).text => v[2] = w[2]
    BY <2>3 DEF Spells
  <2> QED BY <1>4, <1>11, <2>4 DEF Ones
<1>12. CASE v[1] = "YearMonth"
  <2>1. Show(v).text = showMonths(v[2]) /\ Show(w).text = showMonths(w[2])
    BY <1>12, ShowIs, Zenon
  <2>2. v[2] \in Int64s /\ w[2] \in Int64s
    BY <1>12, FlatIs DEF One, Ones
  <2>3. Show(v).text = Show(w).text => v[2] = w[2]
    BY <2>1, <2>2, DurationsApart, Zenon
  <2> QED BY <1>4, <1>12, <2>3 DEF Ones
<1>13. CASE v[1] = "time.Duration"
  <2>1. Show(v).text = showNanos(v[2]) /\ Show(w).text = showNanos(w[2])
    BY <1>13, ShowIs, Zenon
  <2>2. v[2] \in Int64s /\ w[2] \in Int64s
    BY <1>13, FlatIs DEF One, Ones
  <2>3. Show(v).text = Show(w).text => v[2] = w[2]
    BY <2>1, <2>2, DurationsApart, Zenon
  <2> QED BY <1>4, <1>13, <2>3 DEF Ones
<1>14. CASE v[1] = "float64"
  <2>1. Show(v).text = showFloat(v) /\ Show(w).text = showFloat(w)
    BY <1>14, ShowIs, Zenon
  <2>2. v[2] \in BOOLEAN /\ w[2] \in BOOLEAN
    BY <1>14, FlatIs DEF Two, Twos
  <2>3. SameAlone(v, w) <=> SameFloat(v, w)
    BY <1>14 DEF SameAlone
  <2>4. Show(v).text = Show(w).text <=>
          (v[2] /\ v[3] # "NaN") = (w[2] /\ w[3] # "NaN") /\ v[3] = w[3]
    <3> DEFINE a == v[2] /\ v[3] # "NaN"
               b == w[2] /\ w[3] # "NaN"
               R(c, x) == [exact |-> TRUE, neg |-> c, size |-> x]
    <3>1. showFloat(v) = R(a, v[3]) /\ showFloat(w) = R(b, w[3])
      BY DEF showFloat
    <3>2. ASSUME NEW c, NEW d, NEW x, NEW y
          PROVE  R(c, x) = R(d, y) <=> c = d /\ x = y
      OBVIOUS
    <3> HIDE DEF a, b, R
    <3>3. showFloat(v) = showFloat(w) <=> a = b /\ v[3] = w[3]
      <4>1. R(a, v[3]) = R(b, w[3]) <=> a = b /\ v[3] = w[3]
        BY <3>2
      <4> QED BY <3>1, <4>1
    <3> QED BY <2>1, <3>3, Zenon DEF a, b
  <2>5. SameFloat(v, w) <=> (v[2] /\ v[3] # "NaN") = (w[2] /\ w[3] # "NaN") /\ v[3] = w[3]
    BY <2>2 DEF SameFloat
  <2> QED BY <2>3, <2>4, <2>5
<1>15. CASE v[1] = "Decimal"
  <2>1. Show(v).text = <<unscaled(v), v[3]>> /\ Show(w).text = <<unscaled(w), w[3]>>
    BY <1>15, ShowIs, Zenon
  <2>2. SameAlone(v, w) <=> SameDecimal(v, w)
    BY <1>15 DEF SameAlone
  <2> QED BY <2>1, <2>2 DEF SameDecimal
<1>16. CASE v[1] = "ZonedTime"
  <2> DEFINE a == showClock(v[2])
             b == showOffset(v[3])
             c == showClock(w[2])
             d == showOffset(w[3])
  <2>1. Show(v).text = [clock |-> a, offset |-> b] /\ Show(w).text = [clock |-> c, offset |-> d]
    BY <1>16, ShowIs, Zenon
  <2>2. v[2] \in Instants /\ w[2] \in Instants /\ v[3] \in Offsets /\ w[3] \in Offsets
    BY <1>16, FlatIs DEF Two, Twos
  <2>3. /\ parseZonedTime(Show(v).text) = Spells(<<"ZonedTime", v[2], v[3]>>)
        /\ parseZonedTime(Show(w).text) = Spells(<<"ZonedTime", w[2], w[3]>>)
    BY <2>1, <2>2, ZonedTimeReadsBack, Zenon
  <2>4. Show(v).text = Show(w).text => v[2] = w[2] /\ v[3] = w[3]
    BY <2>3 DEF Spells
  <2> QED BY <1>5, <1>16, <2>4 DEF Twos
<1>17. CASE v[1] = "ZonedDateTime"
  <2>1. Show(v).text = showZoned(v[2], v[3]) /\ Show(w).text = showZoned(w[2], w[3])
    BY <1>17, ShowIs, Zenon
  <2>2. v[2] \in Int64s /\ w[2] \in Int64s /\ v[3] \in Offsets /\ w[3] \in Offsets
    BY <1>17, FlatIs DEF Two, Twos
  <2>3. /\ parseZonedDateTime(Show(v).text) = Spells(<<"ZonedDateTime", v[2], v[3]>>)
        /\ parseZonedDateTime(Show(w).text) = Spells(<<"ZonedDateTime", w[2], w[3]>>)
    BY <2>1, <2>2, ZonedReadsBack, Zenon
  <2>4. Show(v).text = Show(w).text => v[2] = w[2] /\ v[3] = w[3]
    BY <2>3 DEF Spells
  <2> QED BY <1>5, <1>17, <2>4 DEF Twos
<1>18. CASE v[1] = "NodeAt"
  <2>1. /\ Show(v).text = [table |-> v[2], offset |-> v[3]]
        /\ Show(w).text = [table |-> w[2], offset |-> w[3]]
    BY <1>18, ShowIs, Zenon
  <2>2. Show(v).text = Show(w).text => v[2] = w[2] /\ v[3] = w[3]
    BY <2>1
  <2> QED BY <1>5, <1>18, <2>2 DEF Twos
<1>19. CASE v[1] = "EdgeAt"
  <2>1. /\ Show(v).text = [table |-> v[2], src |-> v[3], dst |-> v[4]]
        /\ Show(w).text = [table |-> w[2], src |-> w[3], dst |-> w[4]]
    BY <1>19, ShowIs, Zenon
  <2>2. v = <<"EdgeAt", v[2], v[3], v[4]>> /\ w = <<"EdgeAt", w[2], w[3], w[4]>>
    BY <1>19, FlatIs DEF Three
  <2>3. Show(v).text = Show(w).text => v = w
    BY <2>1, <2>2
  <2> QED BY <1>19, <2>3 DEF SameAlone
<1>20. v[1] \in Kinds /\ v[1] \notin Walked
  BY FlatIs
<1> QED BY <1>1, <1>6, <1>7, <1>8, <1>9, <1>10, <1>11, <1>12, <1>13, <1>14, <1>15, <1>16, <1>17,
           <1>18,
           <1>19, <1>20, Zenon DEF Kinds, Walked

(***************************************************************************)
(* When two values are the same, and when they are shown alike.            *)
(***************************************************************************)

(* Whether two are the same, when what is inside them is told by f.        *)
SameBy(f, wants, gots, at) ==
    LET want == wants[at[1]]
        got == gots[at[2]]
    IN
    /\ want[1] = got[1]
    /\ want[1] = "float64" => SameFloat(want, got)
    /\ want[1] = "Decimal" => SameDecimal(want, got)
    /\ want[1] \in Walked =>
          /\ DOMAIN want[2] = DOMAIN got[2]
          /\ \A i \in DOMAIN want[2] : f[<<want[2][i], got[2][i]>>]
    /\ want[1] \notin {"float64", "Decimal"} \union Walked => want = got
Before(values) ==
    \A k \in DOMAIN values :
        values[k][1] \in Walked => \A i \in DOMAIN values[k][2] : values[k][2][i] \in 1 .. k - 1

Sames(f, wants, gots, pairs) == f = [at \in pairs |-> SameBy(f, wants, gots, at)]

\* There is one comparison that is as Same says, and Same is it.
LEMMA SameIs ==
  ASSUME NEW N \in Nat, NEW wants, NEW gots, DOMAIN wants = 1 .. N, DOMAIN gots = 1 .. N,
         Before(wants), Before(gots)
  PROVE  Sames(Same(wants, gots), wants, gots, (1 .. N) \X (1 .. N))
<1> DEFINE X == (1 .. N) \X (1 .. N)
           want(at) == wants[at[1]]
           got(at) == gots[at[2]]
           into(at) == /\ want(at)[1] = got(at)[1] /\ want(at)[1] \in Walked
                       /\ DOMAIN want(at)[2] = DOMAIN got(at)[2]
           alone(at) == /\ want(at)[1] = got(at)[1]
                        /\ want(at)[1] = "float64" => SameFloat(want(at), got(at))
                        /\ want(at)[1] = "Decimal" => SameDecimal(want(at), got(at))
                        /\ want(at)[1] \in Walked => DOMAIN want(at)[2] = DOMAIN got(at)[2]
                        /\ want(at)[1] \notin {"float64", "Decimal"} \union Walked =>
                              want(at) = got(at)
           inside(at, i) == <<want(at)[2][i], got(at)[2][i]>>
           base == [at \in X |-> alone(at)]
           needs == [at \in X |-> {y \in X : into(at) /\ \E i \in DOMAIN want(at)[2] : y = inside(at, i)}]
           rank == [at \in X |-> at[1]]
<1>1. \A at \in X : at[1] \in 1 .. N /\ at[2] \in 1 .. N /\ rank[at] = at[1]
  OBVIOUS
<1>2. ASSUME NEW at \in X, into(at), NEW i \in DOMAIN want(at)[2]
      PROVE  inside(at, i) \in X /\ inside(at, i)[1] < at[1]
  <2>1. want(at)[2][i] \in 1 .. at[1] - 1
    BY <1>1, <1>2, Zenon DEF Before
  <2>2. got(at)[2][i] \in 1 .. at[2] - 1
    BY <1>1, <1>2, Zenon DEF Before
  <2> DEFINE a == want(at)[2][i]
             b == got(at)[2][i]
  <2> HIDE DEF a, b
  <2>3. a \in 1 .. N /\ b \in 1 .. N /\ a < at[1]
    BY <1>1, <2>1, <2>2 DEF a, b
  <2>4. inside(at, i) = <<a, b>>
    BY DEF a, b
  <2> HIDE DEF inside
  <2> QED BY <2>3, <2>4
<1>3. ASSUME NEW at \in X, NEW y \in needs[at] PROVE y \in X /\ rank[y] < rank[at]
  <2>1. PICK i \in DOMAIN want(at)[2] : y \in X /\ into(at) /\ y = inside(at, i)
    <3> HIDE DEF into, want, inside, X
    <3> QED BY <1>3, Zenon DEF needs
  <2>2. y[1] < at[1]
    <3> HIDE DEF into, want, inside, X
    <3> QED BY <1>2, <2>1, Zenon
  <2> HIDE DEF rank, needs, X, into, inside
  <2> QED BY <1>1, <2>1, <2>2
<1>4. PICK f : f = [at \in X |-> base[at] /\ \A y \in needs[at] : f[y]]
  <2>1. \A at \in X : rank[at] \in 0 .. N
    BY <1>1
  <2>2. \A at \in X : \A y \in needs[at] : y \in X /\ rank[y] < rank[at]
    <3> HIDE DEF X, base, needs, rank
    <3> QED BY <1>3, Zenon
  <2> HIDE DEF X, base, needs, rank
  <2>3. N \in Nat
    OBVIOUS
  <2>4. \E g : Recurs(g, X, base, needs)
    BY ONLY <2>1, <2>2, <2>3, Recursion
  <2> QED BY <2>4, Zenon DEF Recurs
<1>5. ASSUME NEW at \in X PROVE f[at] = SameBy(f, wants, gots, at)
  <2>1. f[at] = (base[at] /\ \A y \in needs[at] : f[y])
    <3> HIDE DEF X, base, needs
    <3> QED BY <1>4, Zenon
  <2>2. base[at] <=> alone(at)
    <3> HIDE DEF alone, X
    <3> QED BY Zenon
  <2>3. (\A y \in needs[at] : f[y]) <=>
            (into(at) => \A i \in DOMAIN want(at)[2] : f[inside(at, i)])
    <3>1. \A y : y \in needs[at] <=>
             y \in X /\ into(at) /\ \E i \in DOMAIN want(at)[2] : y = inside(at, i)
      <4> HIDE DEF into, want, inside, X
      <4> QED BY Zenon
    <3> HIDE DEF needs, into, want, inside, X
    <3> QED BY <1>2, <3>1, Zenon
  <2>4. SameBy(f, wants, gots, at) <=>
            alone(at) /\ (into(at) => \A i \in DOMAIN want(at)[2] : f[inside(at, i)])
    BY Zenon DEF SameBy
  <2>5. (base[at] /\ \A y \in needs[at] : f[y]) <=> SameBy(f, wants, gots, at)
    <3> HIDE DEF base, needs, alone, into, want, inside
    <3> QED BY <2>2, <2>3, <2>4, Zenon
  <2> DEFINE a == base[at] /\ \A y \in needs[at] : f[y]
             b == SameBy(f, wants, gots, at)
  <2>6. f[at] = a /\ a \in BOOLEAN /\ b \in BOOLEAN
    <3>1. \A c \in {TRUE, FALSE} : c \in BOOLEAN
      OBVIOUS
    <3> HIDE DEF base, needs
    <3> QED BY <2>1, Zenon DEF SameBy
  <2>7. a <=> b
    BY <2>5
  <2> HIDE DEF a, b
  <2>8. a = b
    BY <2>6, <2>7, Zenon
  <2> QED BY <2>6, <2>8, Zenon DEF b
<1>6. f = [at \in X |-> SameBy(f, wants, gots, at)]
  <2>1. f = [at \in X |-> f[at]]
    <3> HIDE DEF X, base, needs
    <3> QED BY <1>4
  <2> HIDE DEF X
  <2> QED BY <1>5, <2>1, Zenon
<1>7. Same(wants, gots) = CHOOSE g : g = [at \in X |-> SameBy(g, wants, gots, at)]
  BY DEF Same, SameBy
<1>8. Same(wants, gots) = [at \in X |-> SameBy(Same(wants, gots), wants, gots, at)]
  <2> HIDE DEF X
  <2> QED BY <1>6, <1>7, Zenon
<1> QED BY <1>8, Zenon DEF Sames

\* The members of what came back are before it.
LEMMA EncodedBefore == Before(Encoded)
<1> SUFFICES ASSUME NEW k \in DOMAIN Encoded, Encoded[k][1] \in Walked
             PROVE  \A i \in DOMAIN Encoded[k][2] : Encoded[k][2][i] \in 1 .. k - 1
  BY DEF Before
<1>1. Composite(Encoded[k], 1 .. k - 1)
  BY Cells
<1>2. PICK x : Encoded[k] = <<Encoded[k][1], x>> /\ \A i \in DOMAIN x : x[i] \in 1 .. k - 1
  BY <1>1 DEF Composite
<1>3. Encoded[k][2] = x
  BY <1>2
<1> QED BY <1>2, <1>3

(* What is inside is shown at its own place, so that a composite is shown  *)
(* as what it is.                                                          *)
LEMMA WalkedShown ==
  ASSUME NEW w, w[1] \in Walked
  PROVE  Show(w).text = w[2] /\ w[1] \in Kinds /\ w[1] \notin {"YearMonth", "time.Duration"}
<1>1. w[1] = "[]any" \/ w[1] = "Walk" \/ w[1] = "map"
  BY DEF Walked
<1>2. Show(w).text = w[2]
  BY <1>1, ShowIs, Zenon
<1> QED BY <1>1, <1>2 DEF Kinds

\* The type of a value and what is beside it, told from how it is shown.
AlikeBy(f, at) ==
    LET s == Shown[at[1]]
        t == Shown[at[2]]
    IN
    /\ s.type = t.type
    /\ s.type \in {"LIST", "PATH", "RECORD"} =>
          /\ DOMAIN s.text = DOMAIN t.text
          /\ \A i \in DOMAIN s.text : f[<<s.text[i], t.text[i]>>]
    /\ s.type \notin {"LIST", "PATH", "RECORD"} => s.text = t.text

\* Every value that came back is of a type there is.
LEMMA KindsOfEncoded ==
  ASSUME NEW k \in DOMAIN Encoded
  PROVE  /\ Encoded[k][1] \in Kinds
         /\ Encoded[k][1] \in Walked \/ Flat(Encoded[k])
<1>1. CASE Flat(Encoded[k])
  BY <1>1, FlatIs
<1>2. CASE Composite(Encoded[k], 1 .. k - 1)
  BY <1>2, WalkedShown DEF Composite
<1> QED BY <1>1, <1>2, Cells

\* One step of telling two spellings apart is one of telling the values
\* apart.
LEMMA AlikeAsSame ==
  ASSUME NEW f, NEW j \in DOMAIN Encoded, NEW k \in DOMAIN Encoded
  PROVE  AlikeBy(f, <<j, k>>) <=> SameBy(f, Encoded, Encoded, <<j, k>>)
<1> DEFINE v == Encoded[j]
           w == Encoded[k]
           s == Shown[j]
           t == Shown[k]
           Goal == AlikeBy(f, <<j, k>>) <=> SameBy(f, Encoded, Encoded, <<j, k>>)
           D == {"YearMonth", "time.Duration"}
<1>1. s = Show(v) /\ t = Show(w)
  BY DEF Shown
<1>2. v[1] \in Kinds /\ w[1] \in Kinds /\ (v[1] \in Walked \/ Flat(v)) /\ (w[1] \in Walked \/ Flat(w))
  BY KindsOfEncoded
<1>3. /\ s.type = Label(v[1]) /\ t.type = Label(w[1])
      /\ Kind(Label(v[1])) = IF v[1] \in D THEN "DURATION" ELSE v[1]
      /\ Kind(Label(w[1])) = IF w[1] \in D THEN "DURATION" ELSE w[1]
      /\ v[1] \in Walked <=> s.type \in {"LIST", "PATH", "RECORD"}
  BY <1>1, <1>2, Labels, Zenon
<1>4. s.type = t.type => v[1] = w[1] \/ (v[1] \in D /\ w[1] \in D)
  <2>1. "DURATION" \notin Kinds
    BY DEF Kinds
  <2> HIDE DEF v, w, s, t, D
  <2> QED BY <1>2, <1>3, <2>1
<1>5. /\ AlikeBy(f, <<j, k>>) <=>
            /\ s.type = t.type
            /\ s.type \in {"LIST", "PATH", "RECORD"} =>
                  /\ DOMAIN s.text = DOMAIN t.text
                  /\ \A i \in DOMAIN s.text : f[<<s.text[i], t.text[i]>>]
            /\ s.type \notin {"LIST", "PATH", "RECORD"} => s.text = t.text
      /\ SameBy(f, Encoded, Encoded, <<j, k>>) <=>
            /\ v[1] = w[1]
            /\ v[1] = "float64" => SameFloat(v, w)
            /\ v[1] = "Decimal" => SameDecimal(v, w)
            /\ v[1] \in Walked =>
                  /\ DOMAIN v[2] = DOMAIN w[2]
                  /\ \A i \in DOMAIN v[2] : f[<<v[2][i], w[2][i]>>]
            /\ v[1] \notin {"float64", "Decimal"} \union Walked => v = w
  <2>1. <<j, k>>[1] = j /\ <<j, k>>[2] = k
    OBVIOUS
  <2> QED BY <2>1, Zenon DEF AlikeBy, SameBy
<1> HIDE DEF v, w, s, t
<1>6. ASSUME v[1] = w[1], v[1] \in Walked PROVE Goal
  <2>1. s.text = v[2] /\ t.text = w[2] /\ s.type = t.type
    BY <1>1, <1>3, <1>6, WalkedShown
  <2>2. v[1] # "float64" /\ v[1] # "Decimal"
    BY <1>6 DEF Walked
  <2> QED BY <1>3, <1>5, <1>6, <2>1, <2>2, Zenon
<1>7. ASSUME v[1] = w[1], v[1] \notin Walked PROVE Goal
  <2>1. s.text = t.text <=> SameAlone(v, w)
    BY <1>1, <1>2, <1>7, TextsAlike
  <2>2. s.type = t.type
    BY <1>3, <1>7
  <2>3. SameAlone(v, w) <=> /\ v[1] = "float64" => SameFloat(v, w)
                            /\ v[1] = "Decimal" => SameDecimal(v, w)
                            /\ v[1] \notin {"float64", "Decimal"} => v = w
    BY DEF SameAlone
  <2> QED BY <1>3, <1>5, <1>7, <2>1, <2>2, <2>3, Zenon
<1>8. ASSUME v[1] # w[1], s.type # t.type PROVE Goal
  BY <1>5, <1>8, Zenon
<1>9. ASSUME v[1] # w[1], s.type = t.type PROVE Goal
  <2>1. v[1] \in D /\ w[1] \in D
    BY <1>4, <1>9
  <2>2. v[1] \in Ones /\ w[1] \in Ones /\ v[1] \notin Walked /\ w[1] \notin Walked
    BY <2>1 DEF Ones, Walked
  <2>3. v[2] \in Int64s /\ w[2] \in Int64s
    BY <1>2, <2>1, <2>2, FlatIs DEF One
  <2>4. CASE v[1] = "YearMonth" /\ w[1] = "time.Duration"
    <3>1. s.text = showMonths(v[2]) /\ t.text = showNanos(w[2])
      BY <1>1, <2>4, ShowIs, Zenon
    <3>2. showMonths(v[2]) # showNanos(w[2])
      BY <2>3, DurationsApart, Zenon
    <3>3. s.text # t.text
      BY <3>1, <3>2, Zenon
    <3> QED BY <1>3, <1>5, <1>9, <2>2, <3>3, Zenon
  <2>5. CASE v[1] = "time.Duration" /\ w[1] = "YearMonth"
    <3>1. s.text = showNanos(v[2]) /\ t.text = showMonths(w[2])
      BY <1>1, <2>5, ShowIs, Zenon
    <3>2. showNanos(v[2]) # showMonths(w[2])
      BY <2>3, DurationsApart, Zenon
    <3>3. s.text # t.text
      BY <3>1, <3>2, Zenon
    <3> QED BY <1>3, <1>5, <1>9, <2>2, <3>3, Zenon
  <2> QED BY <1>9, <2>1, <2>4, <2>5
<1> HIDE DEF Goal
<1>10. Goal
  BY <1>6, <1>7, <1>8, <1>9, Zenon
<1> QED BY <1>10 DEF Goal

EncodedPairs == (DOMAIN Encoded) \X (DOMAIN Encoded)

\* The comparison of what came back is as Same says.
LEMMA EncodedSame == Sames(Same(Encoded, Encoded), Encoded, Encoded, EncodedPairs)
<1> DEFINE N == Len(Returned)
<1>1. N \in Nat /\ DOMAIN Encoded = 1 .. N
  BY Cells
<1> HIDE DEF N
<1>2. Sames(Same(Encoded, Encoded), Encoded, Encoded, (1 .. N) \X (1 .. N))
  BY <1>1, EncodedBefore, SameIs
<1> QED BY <1>1, <1>2, Zenon DEF EncodedPairs

Alikes(f) == f = [at \in EncodedPairs |-> AlikeBy(f, at)]

\* There is one telling apart that is as Alike says, and Alike is it.
LEMMA AlikeIs == Alikes(Alike)
<1> DEFINE X == EncodedPairs
           same == Same(Encoded, Encoded)
<1>1. DOMAIN Shown = DOMAIN Encoded
  BY DEF Shown
<1>2. Alike = CHOOSE g : g = [at \in X |-> AlikeBy(g, at)]
  BY <1>1, Zenon DEF Alike, AlikeBy, EncodedPairs
<1>3. same = [at \in X |-> SameBy(same, Encoded, Encoded, at)]
  BY EncodedSame, Zenon DEF Sames
<1> HIDE DEF same
<1>4. ASSUME NEW at \in X
      PROVE  SameBy(same, Encoded, Encoded, at) = AlikeBy(same, at)
  <2> DEFINE a == SameBy(same, Encoded, Encoded, at)
             b == AlikeBy(same, at)
  <2>1. PICK j \in DOMAIN Encoded, k \in DOMAIN Encoded : at = <<j, k>>
    BY DEF EncodedPairs
  <2>2. a <=> b
    BY <2>1, AlikeAsSame, Zenon
  <2>3. a \in BOOLEAN /\ b \in BOOLEAN
    BY Zenon DEF SameBy, AlikeBy
  <2> HIDE DEF a, b
  <2>4. a = b
    BY <2>2, <2>3, Zenon
  <2> QED BY <2>4, Zenon DEF a, b
<1>5. same = [at \in X |-> AlikeBy(same, at)]
  BY <1>3, <1>4, Zenon
<1> QED BY <1>2, <1>5, Zenon DEF Alikes

\* Two values are the same exactly when they are shown alike.
LEMMA AlikeSame ==
  ASSUME NEW j \in DOMAIN Encoded, NEW k \in DOMAIN Encoded
  PROVE  Alike[<<j, k>>] = Same(Encoded, Encoded)[<<j, k>>]
<1> DEFINE N == Len(Returned)
           same == Same(Encoded, Encoded)
           Agree(i, l) == Alike[<<i, l>>] = same[<<i, l>>]
           S == {n \in Nat : \A i \in DOMAIN Encoded : i <= n => \A l \in DOMAIN Encoded :
                 Agree(i, l)}
<1>1. N \in Nat /\ DOMAIN Encoded = 1 .. N
  BY Cells
<1> HIDE DEF N
<1>2. 0 \in S
  BY <1>1
<1>3. ASSUME NEW n \in S PROVE n + 1 \in S
  <2> SUFFICES ASSUME NEW i \in DOMAIN Encoded, i <= n + 1, NEW l \in DOMAIN Encoded
               PROVE  Agree(i, l)
    BY <1>3
  <2>1. ASSUME NEW i2 \in DOMAIN Encoded, i2 < i, NEW l2 \in DOMAIN Encoded
        PROVE  Agree(i2, l2)
    <3>1. i2 <= n
      BY <1>1, <2>1, <1>3
    <3> HIDE DEF Agree
    <3> QED BY <1>3, <3>1
  <2> DEFINE at == <<i, l>>
             a == AlikeBy(Alike, at)
             b == SameBy(same, Encoded, Encoded, at)
  <2>2. at \in EncodedPairs
    BY DEF EncodedPairs
  <2>3. Alike[at] = a /\ same[at] = b
    <3>1. Alike[at] = a
      BY <2>2, AlikeIs, Zenon DEF Alikes
    <3>2. same[at] = b
      BY <2>2, EncodedSame, Zenon DEF Sames
    <3> QED BY <3>1, <3>2
  <2>4. a <=> SameBy(Alike, Encoded, Encoded, at)
    BY AlikeAsSame, Zenon
  <2>5. Encoded[i][1] = Encoded[l][1] /\ Encoded[i][1] \in Walked
            /\ DOMAIN Encoded[i][2] = DOMAIN Encoded[l][2] =>
        \A m \in DOMAIN Encoded[i][2] :
            Alike[<<Encoded[i][2][m], Encoded[l][2][m]>>] = same[<<Encoded[i][2][m], Encoded[l][2][m]>>]
    <3> SUFFICES ASSUME Encoded[i][1] \in Walked, Encoded[l][1] \in Walked,
                        NEW m \in DOMAIN Encoded[i][2], m \in DOMAIN Encoded[l][2]
                 PROVE  Agree(Encoded[i][2][m], Encoded[l][2][m])
      BY Zenon
    <3> DEFINE x == Encoded[i][2][m]
               y == Encoded[l][2][m]
    <3>1. x \in 1 .. i - 1 /\ y \in 1 .. l - 1
      BY EncodedBefore, Zenon DEF Before
    <3> HIDE DEF x, y
    <3>2. x \in DOMAIN Encoded /\ x < i /\ y \in DOMAIN Encoded
      BY <1>1, <3>1
    <3> HIDE DEF Agree
    <3>3. Agree(x, y)
      BY <2>1, <3>2
    <3> QED BY <3>3 DEF x, y
  <2>6. SameBy(Alike, Encoded, Encoded, at) <=> b
    <3>1. at[1] = i /\ at[2] = l
      OBVIOUS
    <3> HIDE DEF same, at
    <3> QED BY <2>5, <3>1, Zenon DEF SameBy
  <2>7. a \in BOOLEAN /\ b \in BOOLEAN
    BY Zenon DEF SameBy, AlikeBy
  <2> HIDE DEF a, b, at
  <2>9. a <=> b
    BY <2>4, <2>6
  <2>8. a = b
    BY <2>7, <2>9, Zenon
  <2>10. Alike[at] = same[at]
    BY <2>3, <2>8, Zenon
  <2> QED BY <2>10, Zenon DEF at
<1>4. S \in SUBSET Nat
  OBVIOUS
<1>5. N \in S
  <2> HIDE DEF S
  <2> QED BY <1>1, <1>2, <1>3, <1>4, Induction
<1>6. j <= N
  BY <1>1
<1> HIDE DEF Agree
<1>7. Agree(j, k)
  BY <1>5, <1>6
<1> QED BY <1>7 DEF Agree

(***************************************************************************)
(* Reading.                                                                *)
(***************************************************************************)

(* What a spelling is read as, when f reads those before it.               *)
TypedBy(f, spellings, k) ==
    Payload(spellings[k], [i \in DOMAIN Under(spellings[k]) |-> f[Under(spellings[k])[i]]])
Typeds(f, spellings) == f = [k \in DOMAIN spellings |-> TypedBy(f, spellings, k)]

\* There is one reading that is as Typed says, and Typed is it.
LEMMA TypedIs ==
  ASSUME NEW N \in Nat, NEW spellings, DOMAIN spellings = 1 .. N,
         \A k \in 1 .. N : \A i \in DOMAIN Under(spellings[k]) : Under(spellings[k])[i] \in 1 .. k - 1
  PROVE  Typeds(Typed(spellings), spellings)
<1> DEFINE Is(f, n) == f = [k \in 1 .. n |-> TypedBy(f, spellings, k)]
           S == {n \in Nat : n <= N => \E f : Is(f, n)}
<1>1. 0 \in S
  <2>1. Is([k \in 1 .. 0 |-> 0], 0)
    OBVIOUS
  <2> QED BY <2>1
<1>2. ASSUME NEW n \in S PROVE n + 1 \in S
  <2> SUFFICES ASSUME n + 1 <= N PROVE \E h : Is(h, n + 1)
    OBVIOUS
  <2>1. n \in Nat /\ n <= N /\ \E f : Is(f, n)
    BY <1>2
  <2>2. PICK f : Is(f, n)
    BY <2>1
  <2> DEFINE h == [k \in 1 .. n + 1 |-> TypedBy(f, spellings, k)]
  <2>3. ASSUME NEW k \in 1 .. n PROVE h[k] = f[k]
    <3>1. k \in 1 .. n + 1
      BY <2>1
    <3>2. f[k] = TypedBy(f, spellings, k)
      <4> DEFINE T(x) == TypedBy(f, spellings, x)
      <4>1. f = [x \in 1 .. n |-> T(x)]
        BY <2>2
      <4> HIDE DEF T
      <4>2. f[k] = T(k)
        BY <4>1
      <4> QED BY <4>2 DEF T
    <3> QED BY <3>1, <3>2
  <2>4. ASSUME NEW k \in 1 .. n + 1 PROVE h[k] = TypedBy(h, spellings, k)
    <3> DEFINE under == Under(spellings[k])
    <3>1. k \in 1 .. N
      BY <2>1
    <3>2. \A i \in DOMAIN under : under[i] \in 1 .. n
      <4>1. \A i \in DOMAIN under : under[i] \in 1 .. k - 1
        BY <3>1
      <4> HIDE DEF under
      <4> QED BY <2>1, <4>1
    <3>3. [i \in DOMAIN under |-> h[under[i]]] = [i \in DOMAIN under |-> f[under[i]]]
      <4> HIDE DEF under, h
      <4> QED BY <2>3, <3>2
    <3>4. TypedBy(h, spellings, k) = TypedBy(f, spellings, k)
      <4> HIDE DEF h
      <4> QED BY <3>3 DEF TypedBy
    <3> QED BY <3>4
  <2>5. Is(h, n + 1)
    <3>1. h = [k \in 1 .. n + 1 |-> h[k]]
      OBVIOUS
    <3> HIDE DEF h
    <3> QED BY <2>4, <3>1, Zenon
  <2> QED BY <2>5, Zenon
<1>3. \E f : Is(f, N)
  <2>1. S \in SUBSET Nat
    OBVIOUS
  <2>2. N \in S
    <3> HIDE DEF S
    <3> QED BY <1>1, <1>2, <2>1, Induction
  <2> HIDE DEF Is
  <2> QED BY <2>2
<1>4. Typed(spellings) = CHOOSE f : Is(f, N)
  BY DEF Typed, TypedBy
<1> HIDE DEF S
<1> QED BY <1>3, <1>4, Zenon DEF Typeds

\* What a payload is read as, by its type.
LEMMA PayloadIs ==
  ASSUME NEW s, NEW inside
  PROVE  /\ s.type \notin Types => Payload(s, inside) = SpellsNone
         /\ s.type = "NULL" =>
               Payload(s, inside) = IF s.text = "" THEN Spells(<<"nil">>) ELSE SpellsNone
         /\ s.type = "LIST" =>
               Payload(s, inside) = IF \E i \in DOMAIN inside : ~inside[i].ok THEN SpellsNone
                                    ELSE Spells(<<"[]any", s.text>>)
         /\ s.type = "PATH" =>
               Payload(s, inside) = IF \E i \in DOMAIN inside : ~inside[i].ok THEN SpellsNone
                                    ELSE walk(s, inside)
         /\ s.type \in Types \ {"NULL", "LIST", "PATH"} =>
               Payload(s, inside) = IF QuotedAsItShould(s) THEN scalar(s.type, s.text) ELSE SpellsNone
<1>1. "NULL" \in Types /\ "LIST" \in Types /\ "PATH" \in Types
  BY DEF Types, Bare
<1> DEFINE T == Types
           a == IF s.text = "" THEN Spells(<<"nil">>) ELSE SpellsNone
           b == Spells(<<"[]any", s.text>>)
           c == walk(s, inside)
           e == IF QuotedAsItShould(s) THEN scalar(s.type, s.text) ELSE SpellsNone
           bad == \E i \in DOMAIN inside : ~inside[i].ok
<1>2. Payload(s, inside) =
        CASE s.type \notin T -> SpellsNone
          [] s.type = "NULL" -> a
          [] s.type \in {"LIST", "PATH"} ->
                IF bad THEN SpellsNone ELSE IF s.type = "LIST" THEN b ELSE c
          [] OTHER -> e
  BY DEF Payload
<1> HIDE DEF T, a, b, c, e, bad
<1>3. /\ s.type \notin T => Payload(s, inside) = SpellsNone
      /\ s.type = "NULL" => Payload(s, inside) = a
      /\ s.type = "LIST" => Payload(s, inside) = IF bad THEN SpellsNone ELSE b
      /\ s.type = "PATH" => Payload(s, inside) = IF bad THEN SpellsNone ELSE c
      /\ s.type \in T \ {"NULL", "LIST", "PATH"} => Payload(s, inside) = e
  BY <1>1, <1>2 DEF T
<1> QED BY <1>3, Zenon DEF T, a, b, c, e, bad

Numbers == {"INT8", "INT16", "INT32", "INT64", "UINT8", "UINT16", "UINT32", "UINT64"}

\* What a scalar is read as, by its type.
LEMMA ScalarIs ==
  ASSUME NEW ty, NEW text
  PROVE  /\ ty = "BOOL" => scalar(ty, text) = Spells(<<"bool", text>>)
         /\ ty = "STRING" => scalar(ty, text) = Spells(<<"string", text>>)
         /\ ty = "BYTES" => scalar(ty, text) = fromHexits(text)
         /\ ty = "FLOAT32" => scalar(ty, text) = parseSingle(text)
         /\ ty = "FLOAT64" => scalar(ty, text) = parseFloat(text)
         /\ ty = "DATE" => scalar(ty, text) = parseDate(text)
         /\ ty = "LOCALTIME" => scalar(ty, text) = parseLocalTime(text)
         /\ ty = "ZONEDTIME" => scalar(ty, text) = parseZonedTime(text)
         /\ ty = "LOCALDATETIME" => scalar(ty, text) = parseLocalDateTime(text)
         /\ ty = "ZONEDDATETIME" => scalar(ty, text) = parseZonedDateTime(text)
         /\ ty = "DURATION" => scalar(ty, text) = parseDuration(text)
         /\ ty = "NODE" => scalar(ty, text) = nodeAt(text)
         /\ ty = "EDGE" => scalar(ty, text) = edgeAt(text)
         /\ ty \in Numbers => scalar(ty, text) = ReadInteger(ty, text)
<1>1. ty = "BOOL" => scalar(ty, text) = Spells(<<"bool", text>>)
  BY DEF scalar
<1>2. ty = "STRING" => scalar(ty, text) = Spells(<<"string", text>>)
  BY DEF scalar
<1>3. ty = "BYTES" => scalar(ty, text) = fromHexits(text)
  BY DEF scalar
<1>4. ty = "FLOAT64" => scalar(ty, text) = parseFloat(text)
  BY DEF scalar
<1>5. ty = "DATE" => scalar(ty, text) = parseDate(text)
  BY DEF scalar
<1>6. ty = "LOCALTIME" => scalar(ty, text) = parseLocalTime(text)
  BY DEF scalar
<1>7. ty = "ZONEDTIME" => scalar(ty, text) = parseZonedTime(text)
  BY DEF scalar
<1>8. ty = "LOCALDATETIME" => scalar(ty, text) = parseLocalDateTime(text)
  BY DEF scalar
<1>9. ty = "ZONEDDATETIME" => scalar(ty, text) = parseZonedDateTime(text)
  BY DEF scalar
<1>10. ty = "DURATION" => scalar(ty, text) = parseDuration(text)
  BY DEF scalar
<1>11. ty = "NODE" => scalar(ty, text) = nodeAt(text)
  BY DEF scalar
<1>12. ty = "EDGE" => scalar(ty, text) = edgeAt(text)
  BY DEF scalar
<1>13. ty \in Numbers => scalar(ty, text) = ReadInteger(ty, text)
  BY DEF scalar, Numbers
<1>14. ty = "FLOAT32" => scalar(ty, text) = parseSingle(text)
  BY DEF scalar
<1> QED BY <1>1, <1>2, <1>3, <1>4, <1>5, <1>6, <1>7, <1>8, <1>9, <1>10, <1>11, <1>12, <1>13,
           <1>14, Zenon

\* The types of scalars.
LEMMA TypesAre ==
  ASSUME NEW ty, ty \in Types \ {"NULL", "LIST", "PATH"}
  PROVE  \/ ty \in {"BOOL", "STRING", "BYTES", "FLOAT32", "FLOAT64", "DATE", "LOCALTIME", "ZONEDTIME",
                    "LOCALDATETIME", "ZONEDDATETIME", "DURATION", "NODE", "EDGE"}
         \/ ty \in Numbers
BY DEF Types, Quoted, Bare, Numbers

\* What an answer says.
LEMMA SpellsIs ==
  ASSUME NEW v
  PROVE  Spells(v).is = v /\ SpellsNone.is = <<"none">>
BY DEF Spells, SpellsNone

\* An answer is none or is of the type of what it may be.
LEMMA ReadKind ==
  ASSUME NEW r, NEW p, NEW a, a \in Kinds \ Walked, p.is[1] = a, r = SpellsNone \/ r = p
  PROVE  r = SpellsNone \/ r.is[1] \in Kinds \ Walked
OBVIOUS

(* A scalar is read as nothing that holds others.                          *)
LEMMA ScalarRead ==
  ASSUME NEW ty, ty \in Types \ {"NULL", "LIST", "PATH"}, NEW text
  PROVE  scalar(ty, text).is[1] \notin Walked
<1> DEFINE r == scalar(ty, text)
<1>1. SpellsNone.is[1] = "none"
  BY SpellsIs
<1>4. ASSUME NEW a, NEW x, NEW y, NEW z
      PROVE  /\ Spells(<<a, x>>).is[1] = a /\ Spells(<<a, x, y>>).is[1] = a
             /\ Spells(<<a, x, y, z>>).is[1] = a
  BY DEF Spells
<1>5. {"bool", "string", "[]byte", "float64", "Date", "LocalTime", "ZonedTime", "LocalDateTime",
       "ZonedDateTime", "YearMonth", "time.Duration", "NodeAt", "EdgeAt", "int64"} \subseteq Kinds \ Walked
  BY DEF Kinds, Walked
<1>6. /\ "bool" \in Kinds \ Walked /\ "string" \in Kinds \ Walked /\ "[]byte" \in Kinds \ Walked
      /\ "float64" \in Kinds \ Walked /\ "Date" \in Kinds \ Walked /\ "LocalTime" \in Kinds \ Walked
      /\ "ZonedTime" \in Kinds \ Walked /\ "LocalDateTime" \in Kinds \ Walked
      /\ "ZonedDateTime" \in Kinds \ Walked /\ "YearMonth" \in Kinds \ Walked
      /\ "time.Duration" \in Kinds \ Walked /\ "NodeAt" \in Kinds \ Walked
      /\ "EdgeAt" \in Kinds \ Walked /\ "int64" \in Kinds \ Walked
  BY <1>5
<1>2. r = SpellsNone \/ r.is[1] \in Kinds \ Walked
  <2>1. CASE ty = "BOOL"
    <3> DEFINE p == Spells(<<"bool", text>>)
    <3>1. r = SpellsNone \/ r = p
      BY <2>1, ScalarIs, Zenon
    <3>2. p.is[1] = "bool"
      BY DEF Spells
    <3> HIDE DEF p, r
    <3> QED BY <1>6, <3>1, <3>2, ReadKind
  <2>2. CASE ty = "STRING"
    <3> DEFINE p == Spells(<<"string", text>>)
    <3>1. r = SpellsNone \/ r = p
      BY <2>2, ScalarIs, Zenon
    <3>2. p.is[1] = "string"
      BY DEF Spells
    <3> HIDE DEF p, r
    <3> QED BY <1>6, <3>1, <3>2, ReadKind
  <2>3. CASE ty = "BYTES"
    <3> DEFINE p == Spells(<<"[]byte", [i \in 1 .. Len(text) \div 2 |-> 16 * text[2 * i - 1] + text[2 * i]]>>)
    <3>1. r = SpellsNone \/ r = p
      BY <2>3, ScalarIs, Zenon DEF fromHexits
    <3>2. p.is[1] = "[]byte"
      BY DEF Spells
    <3> HIDE DEF p, r
    <3> QED BY <1>6, <3>1, <3>2, ReadKind
  <2>4. CASE ty = "FLOAT64"
    <3> DEFINE p == Spells(<<"float64", text.neg, text.size>>)
    <3>1. r = SpellsNone \/ r = p
      BY <2>4, ScalarIs, Zenon DEF parseFloat
    <3>2. p.is[1] = "float64"
      BY DEF Spells
    <3> HIDE DEF p, r
    <3> QED BY <1>6, <3>1, <3>2, ReadKind
  <2>5. CASE ty = "DATE"
    <3> DEFINE p == Spells(<<"Date", dateDays(text).is>>)
    <3>1. r = SpellsNone \/ r = p
      BY <2>5, ScalarIs, Zenon DEF parseDate
    <3>2. p.is[1] = "Date"
      BY DEF Spells
    <3> HIDE DEF p, r
    <3> QED BY <1>6, <3>1, <3>2, ReadKind
  <2>6. CASE ty = "LOCALTIME"
    <3> DEFINE p == Spells(<<"LocalTime", clockNanos(text).is>>)
    <3>1. r = SpellsNone \/ r = p
      BY <2>6, ScalarIs, Zenon DEF parseLocalTime
    <3>2. p.is[1] = "LocalTime"
      BY DEF Spells
    <3> HIDE DEF p, r
    <3> QED BY <1>6, <3>1, <3>2, ReadKind
  <2>7. CASE ty = "ZONEDTIME"
    <3> DEFINE p == Spells(<<"ZonedTime", clockNanos(text.clock).is, splitOffset(text.offset).is>>)
    <3>1. r = SpellsNone \/ r = p
      BY <2>7, ScalarIs, Zenon DEF parseZonedTime
    <3>2. p.is[1] = "ZonedTime"
      BY DEF Spells
    <3> HIDE DEF p, r
    <3> QED BY <1>6, <3>1, <3>2, ReadKind
  <2>8. CASE ty = "LOCALDATETIME"
    <3> DEFINE p == Spells(<<"LocalDateTime", stampNanos(text).is>>)
    <3>1. r = SpellsNone \/ r = p
      BY <2>8, ScalarIs, Zenon DEF parseLocalDateTime
    <3>2. p.is[1] = "LocalDateTime"
      BY DEF Spells
    <3> HIDE DEF p, r
    <3> QED BY <1>6, <3>1, <3>2, ReadKind
  <2>9. CASE ty = "ZONEDDATETIME"
    <3> DEFINE p == Spells(<<"ZonedDateTime", Int64(stampNanos(text.stamp).is - splitOffset(text.offset).is * nanosPerMinute),
                                   splitOffset(text.offset).is>>)
    <3>1. r = SpellsNone \/ r = p
      BY <2>9, ScalarIs, Zenon DEF parseZonedDateTime
    <3>2. p.is[1] = "ZonedDateTime"
      BY DEF Spells
    <3> HIDE DEF p, r
    <3> QED BY <1>6, <3>1, <3>2, ReadKind
  <2>10. CASE ty = "NODE"
    <3> DEFINE p == Spells(<<"NodeAt", text.table, text.offset>>)
    <3>1. r = SpellsNone \/ r = p
      BY <2>10, ScalarIs, Zenon DEF nodeAt
    <3>2. p.is[1] = "NodeAt"
      BY DEF Spells
    <3> HIDE DEF p, r
    <3> QED BY <1>6, <3>1, <3>2, ReadKind
  <2>11. CASE ty = "EDGE"
    <3> DEFINE p == Spells(<<"EdgeAt", text.table, text.src, text.dst>>)
    <3>1. r = SpellsNone \/ r = p
      BY <2>11, ScalarIs, Zenon DEF edgeAt
    <3>2. p.is[1] = "EdgeAt"
      BY DEF Spells
    <3> HIDE DEF p, r
    <3> QED BY <1>6, <3>1, <3>2, ReadKind
  <2>12. CASE ty \in Numbers
    <3> DEFINE p == Spells(<<"int64", Int64(text.n)>>)
    <3>1. r = SpellsNone \/ r = p
      BY <2>12, ScalarIs, Zenon DEF ReadInteger
    <3>2. p.is[1] = "int64"
      BY <1>4
    <3> HIDE DEF p, r
    <3> QED BY <1>6, <3>1, <3>2, ReadKind
  <2>13. CASE ty = "DURATION"
    <3> DEFINE p == Spells(<<"YearMonth", Signed(text, Sum(text.day, MonthUnits))>>)
               q == Spells(<<"time.Duration", Signed(text, NanosOf(text))>>)
    <3>1. r = parseDuration(text)
      BY <2>13, ScalarIs, Zenon
    <3>2. r = SpellsNone \/ r = p \/ r = q
      <4> HIDE DEF r
      <4> QED BY <3>1, DurationIs
    <3>3. p.is[1] = "YearMonth" /\ q.is[1] = "time.Duration"
      BY <1>4
    <3> HIDE DEF p, q, r
    <3> QED BY <1>6, <3>2, <3>3, ReadKind
  <2>14. CASE ty = "FLOAT32"
    <3> DEFINE p == Spells(<<"float64", parseFloat(text).is[2], Rounded(parseFloat(text).is[3])>>)
    <3>1. r = SpellsNone \/ r = p
      BY <2>14, ScalarIs, Zenon DEF parseSingle
    <3>2. p.is[1] = "float64"
      BY DEF Spells
    <3> HIDE DEF p, r
    <3> QED BY <1>6, <3>1, <3>2, ReadKind
  <2> QED BY <2>1, <2>2, <2>3, <2>4, <2>5, <2>6, <2>7, <2>8, <2>9, <2>10, <2>11, <2>12, <2>13,
             <2>14, TypesAre
<1>3. "none" \notin Walked
  BY DEF Walked
<1> QED BY <1>1, <1>2, <1>3

\* What holds others is read from a list or a walk, and holds what is under
\* it.
LEMMA WalkedRead ==
  ASSUME NEW s, NEW inside, Payload(s, inside).is[1] \in Walked
  PROVE  s.type \in {"LIST", "PATH"} /\ Payload(s, inside).is[2] = s.text
<1> DEFINE r == Payload(s, inside)
<1>1. SpellsNone.is[1] \notin Walked
  BY SpellsIs DEF Walked
<1>2. CASE s.type \notin Types
  BY <1>1, <1>2, PayloadIs
<1>3. CASE s.type = "NULL"
  <2>1. r = SpellsNone \/ r = Spells(<<"nil">>)
    BY <1>3, PayloadIs, Zenon
  <2>2. Spells(<<"nil">>).is[1] \notin Walked
    BY SpellsIs DEF Walked
  <2> QED BY <1>1, <2>1, <2>2
<1>4. CASE s.type = "LIST"
  <2>1. r = SpellsNone \/ r = Spells(<<"[]any", s.text>>)
    BY <1>4, PayloadIs, Zenon
  <2>2. Spells(<<"[]any", s.text>>).is[2] = s.text
    BY SpellsIs
  <2> QED BY <1>1, <1>4, <2>1, <2>2
<1>5. CASE s.type = "PATH"
  <2>1. r = SpellsNone \/ r = Spells(<<"Walk", s.text>>)
    BY <1>5, PayloadIs, Zenon DEF walk
  <2>2. Spells(<<"Walk", s.text>>).is[2] = s.text
    BY SpellsIs
  <2> QED BY <1>1, <1>5, <2>1, <2>2
<1>6. CASE s.type \in Types \ {"NULL", "LIST", "PATH"}
  <2>1. r = SpellsNone \/ r = scalar(s.type, s.text)
    BY <1>6, PayloadIs, Zenon
  <2> QED BY <1>1, <1>6, <2>1, ScalarRead
<1> QED BY <1>2, <1>3, <1>4, <1>5, <1>6

(***************************************************************************)
(* What is shown reads back.                                               *)
(***************************************************************************)

\* The days of the four digit years are those the calendar reads.
LEMMA DaysAre == CalendarDays = Days
<1>1. DaysOf(0, 1, 1) = YearStart(0) /\ DaysOf(9999, 12, 31) = YearStart(10000) - 1
  <2>1. 0 \in Int /\ 9999 \in Int /\ 1 \in 1 .. 12 /\ 12 \in 1 .. 12 /\ 1 \in Int /\ 31 \in Int
    OBVIOUS
  <2>2. /\ DaysOf(0, 1, 1) = YearStart(0) + MonthStart(0, 1) + 1 - 1
        /\ DaysOf(9999, 12, 31) = YearStart(9999) + MonthStart(9999, 12) + 31 - 1
    BY <2>1, DaysOfDate
  <2>3. ~Leap(9999)
    BY DEF Leap
  <2>4. MonthStart(0, 1) = 0 /\ MonthStart(9999, 12) = 334
    BY <2>3 DEF MonthStart
  <2>5. YearStart(0) \in Int /\ YearStart(9999) \in Int /\ YearStart(10000) = YearStart(9999) + 365
    BY <2>3, YearStarts DEF YearStart
  <2> QED BY <2>2, <2>4, <2>5
<1> QED BY <1>1 DEF Days, CalendarDays

Spellable(w) ==
    /\ w[1] \notin {"Decimal", "map", "graph", "binding table"}
    /\ w[1] = "Date" => w[2] \in CalendarDays
    /\ w[1] \in {"YearMonth", "time.Duration"} => w[2] # Lowest

\* A quoted scalar is read as its text is.
LEMMA QuotedScalar ==
  ASSUME NEW s, NEW inside, NEW ty, ty \in Quoted, NEW text,
         s.type = ty, s.quoted = TRUE, s.text = text
  PROVE  Payload(s, inside) = scalar(ty, text)
<1>1. s.type \in Types \ {"NULL", "LIST", "PATH"}
  BY DEF Types, Quoted
<1>2. QuotedAsItShould(s)
  BY DEF QuotedAsItShould
<1>3. Payload(s, inside) = scalar(s.type, s.text)
  BY <1>1, <1>2, PayloadIs, Zenon
<1> QED BY <1>3

\* Types that are written in quotes.
LEMMA QuotedTypes ==
  /\ "INT64" \in Quoted /\ "FLOAT64" \in Quoted /\ "BYTES" \in Quoted /\ "DATE" \in Quoted
  /\ "LOCALTIME" \in Quoted /\ "ZONEDTIME" \in Quoted /\ "LOCALDATETIME" \in Quoted
  /\ "ZONEDDATETIME" \in Quoted /\ "DURATION" \in Quoted /\ "NODE" \in Quoted
  /\ "EDGE" \in Quoted
BY DEF Quoted

(* A value on its own that has a spelling is read back.                    *)
LEMMA AloneReadsBack ==
  ASSUME NEW w, Flat(w), Spellable(w), NEW inside
  PROVE  \E x : Payload(Show(w), inside) = Spells(x) /\ x[1] = w[1] /\ SameAlone(x, w)
<1> DEFINE s == Show(w)
           r == Payload(s, inside)
           Goal == \E x : r = Spells(x) /\ x[1] = w[1] /\ SameAlone(x, w)
<1>1. ASSUME w[1] # "float64", r = Spells(w) PROVE Goal
  <2>1. SameAlone(w, w)
    BY <1>1 DEF SameAlone, SameDecimal
  <2> QED BY <1>1, <2>1, Zenon
<1>3. w[1] \in Ones => w = <<w[1], w[2]>> /\ One(w, w[2])
  BY FlatIs DEF One
<1>4. w[1] \in Twos => w = <<w[1], w[2], w[3]>> /\ Two(w, w[2], w[3])
  BY FlatIs DEF Two
<1>5. CASE w[1] = "nil"
  <2>1. s.type = "NULL" /\ s.text = ""
    BY <1>5, ShowIs, Zenon
  <2>2. r = Spells(<<"nil">>)
    BY <2>1, PayloadIs, Zenon
  <2>3. w = <<"nil">>
    BY <1>5, FlatIs
  <2> QED BY <1>1, <1>5, <2>2, <2>3
<1>6. CASE w[1] = "bool"
  <2>1. s.type = "BOOL" /\ s.quoted = FALSE /\ s.text = w[2]
    BY <1>6, ShowIs, Zenon
  <2>2. QuotedAsItShould(s)
    BY <2>1 DEF QuotedAsItShould, Quoted
  <2>3. s.type \in Types \ {"NULL", "LIST", "PATH"}
    BY <2>1 DEF Types, Bare
  <2>4. r = Spells(<<"bool", w[2]>>)
    <3>1. r = scalar("BOOL", w[2])
      BY <2>1, <2>2, <2>3, PayloadIs, Zenon
    <3>2. scalar("BOOL", w[2]) = Spells(<<"bool", w[2]>>)
      BY ScalarIs, Zenon
    <3> QED BY <3>1, <3>2, Zenon
  <2>5. w = <<"bool", w[2]>>
    BY <1>3, <1>6 DEF Ones
  <2> QED BY <1>1, <1>6, <2>4, <2>5
<1>7. CASE w[1] = "string"
  <2>1. s.type = "STRING" /\ s.text = w[2]
    BY <1>7, ShowIs, Zenon
  <2>2. QuotedAsItShould(s)
    BY <2>1 DEF QuotedAsItShould, Quoted
  <2>3. s.type \in Types \ {"NULL", "LIST", "PATH"}
    BY <2>1 DEF Types, Bare
  <2>4. r = Spells(<<"string", w[2]>>)
    <3>1. r = scalar("STRING", w[2])
      <4>1. r = scalar(s.type, s.text)
        BY <2>2, <2>3, PayloadIs, Zenon
      <4> HIDE DEF r, s
      <4> QED BY <2>1, <4>1
    <3>2. scalar("STRING", w[2]) = Spells(<<"string", w[2]>>)
      BY ScalarIs, Zenon
    <3> QED BY <3>1, <3>2, Zenon
  <2>5. w = <<"string", w[2]>>
    BY <1>3, <1>7 DEF Ones
  <2> QED BY <1>1, <1>7, <2>4, <2>5
<1>8. CASE w[1] = "int64"
  <2> DEFINE text == [n |-> w[2], canonical |-> TRUE]
  <2>1. s.type = "INT64" /\ s.quoted = TRUE /\ s.text = text
    BY <1>8, ShowIs, Zenon
  <2>2. r = scalar("INT64", text)
    <3> HIDE DEF text
    <3> QED BY <2>1, QuotedTypes, QuotedScalar, Zenon
  <2>3. scalar("INT64", text) = ReadInteger("INT64", text)
    BY ScalarIs DEF Numbers
  <2>4. w[2] \in Int64s /\ w = <<"int64", w[2]>>
    BY <1>3, <1>8 DEF Ones, One
  <2>5. bounds["INT64"] = Int64s
    BY DEF bounds
  <2>6. text.n = w[2] /\ text.canonical = TRUE
    OBVIOUS
  <2> HIDE DEF text
  <2>7. ReadInteger("INT64", text) = Spells(<<"int64", Int64(w[2])>>)
    BY <2>4, <2>5, <2>6, Zenon DEF ReadInteger
  <2>8. r = Spells(w)
    BY <2>2, <2>3, <2>4, <2>7, Int64Same, Zenon
  <2> QED BY <1>1, <1>8, <2>8
<1>9. CASE w[1] = "float64"
  <2>1. s.type = "FLOAT64" /\ s.quoted = TRUE /\ s.text = showFloat(w)
    BY <1>9, ShowIs, Zenon
  <2>2. r = scalar("FLOAT64", showFloat(w))
    BY <2>1, QuotedTypes, QuotedScalar, Zenon
  <2>3. r = parseFloat(showFloat(w))
    <3>1. scalar("FLOAT64", showFloat(w)) = parseFloat(showFloat(w))
      BY ScalarIs
    <3> QED BY <2>2, <3>1, Zenon
  <2>4. w[2] \in BOOLEAN /\ w[3] # "beyond" /\ w = <<"float64", w[2], w[3]>>
    BY <1>4, <1>9 DEF Twos, Two
  <2> DEFINE neg == w[2] /\ w[3] # "NaN"
             x == <<"float64", neg, w[3]>>
  <2>5. r = Spells(x)
    <3>1. showFloat(w) = [exact |-> TRUE, neg |-> neg, size |-> w[3]]
      BY DEF showFloat
    <3> HIDE DEF neg
    <3>2. showFloat(w).exact = TRUE /\ showFloat(w).size = w[3] /\ showFloat(w).neg = neg
      BY <3>1
    <3> QED BY <2>3, <2>4, <3>2, Zenon DEF parseFloat
  <2>6. x[1] = w[1] /\ x[2] = neg /\ x[3] = w[3]
    <3> HIDE DEF neg
    <3> QED BY <1>9
  <2>7. SameFloat(x, w)
    <3>1. w[3] # "NaN" => neg = w[2]
      BY <2>4
    <3> HIDE DEF x, neg
    <3> QED BY <2>6, <3>1, Zenon DEF SameFloat
  <2>8. SameAlone(x, w)
    <3> HIDE DEF x
    <3> QED BY <1>9, <2>6, <2>7 DEF SameAlone
  <2> HIDE DEF x
  <2> QED BY <2>5, <2>6, <2>8, Zenon
<1>10. CASE w[1] = "[]byte"
  <2>1. s.type = "BYTES" /\ s.quoted = TRUE /\ s.text = hexits(w[2])
    BY <1>10, ShowIs, Zenon
  <2>2. r = scalar("BYTES", hexits(w[2]))
    BY <2>1, QuotedTypes, QuotedScalar, Zenon
  <2>3. w[2] \in Seq(0 .. 255) /\ w = <<"[]byte", w[2]>>
    BY <1>3, <1>10 DEF Ones, One
  <2>4. scalar("BYTES", hexits(w[2])) = fromHexits(hexits(w[2]))
    BY ScalarIs, Zenon
  <2>5. fromHexits(hexits(w[2])) = Spells(<<"[]byte", w[2]>>)
    BY <2>3, BytesReadBack
  <2>6. r = Spells(w)
    BY <2>2, <2>3, <2>4, <2>5, Zenon
  <2> QED BY <1>1, <1>10, <2>6
<1>11. CASE w[1] = "Date"
  <2>1. s.type = "DATE" /\ s.quoted = TRUE /\ s.text = showDate(w[2])
    BY <1>11, ShowIs, Zenon
  <2>2. r = scalar("DATE", showDate(w[2]))
    BY <2>1, QuotedTypes, QuotedScalar, Zenon
  <2>3. w[2] \in Days /\ w = <<"Date", w[2]>>
    <3>1. w[2] \in Days
      BY <1>11, DaysAre, Zenon DEF Spellable
    <3> QED BY <1>3, <1>11, <3>1 DEF Ones
  <2>4. scalar("DATE", showDate(w[2])) = parseDate(showDate(w[2]))
    BY ScalarIs, Zenon
  <2>5. parseDate(showDate(w[2])) = Spells(<<"Date", w[2]>>)
    BY <2>3, DateReadsBack
  <2>6. r = Spells(w)
    BY <2>2, <2>3, <2>4, <2>5, Zenon
  <2> QED BY <1>1, <1>11, <2>6
<1>12. CASE w[1] = "LocalTime"
  <2>1. s.type = "LOCALTIME" /\ s.quoted = TRUE /\ s.text = showClock(w[2])
    BY <1>12, ShowIs, Zenon
  <2>2. r = scalar("LOCALTIME", showClock(w[2]))
    BY <2>1, QuotedTypes, QuotedScalar, Zenon
  <2>3. w[2] \in Instants /\ w = <<"LocalTime", w[2]>>
    BY <1>3, <1>12 DEF Ones, One
  <2>4. scalar("LOCALTIME", showClock(w[2])) = parseLocalTime(showClock(w[2]))
    BY ScalarIs, Zenon
  <2>5. parseLocalTime(showClock(w[2])) = Spells(<<"LocalTime", w[2]>>)
    BY <2>3, TimeReadsBack
  <2>6. r = Spells(w)
    BY <2>2, <2>3, <2>4, <2>5, Zenon
  <2> QED BY <1>1, <1>12, <2>6
<1>13. CASE w[1] = "ZonedTime"
  <2>1. s.type = "ZONEDTIME" /\ s.quoted = TRUE
        /\ s.text = [clock |-> showClock(w[2]), offset |-> showOffset(w[3])]
    BY <1>13, ShowIs, Zenon
  <2>2. r = scalar("ZONEDTIME", [clock |-> showClock(w[2]), offset |-> showOffset(w[3])])
    BY <2>1, QuotedTypes, QuotedScalar, Zenon
  <2>3. w[2] \in Instants /\ w[3] \in Offsets /\ w = <<"ZonedTime", w[2], w[3]>>
    BY <1>4, <1>13 DEF Twos, Two
  <2>4. scalar("ZONEDTIME", [clock |-> showClock(w[2]), offset |-> showOffset(w[3])]) = parseZonedTime([clock |-> showClock(w[2]), offset |-> showOffset(w[3])])
    BY ScalarIs, Zenon
  <2>5. parseZonedTime([clock |-> showClock(w[2]), offset |-> showOffset(w[3])]) = Spells(<<"ZonedTime", w[2], w[3]>>)
    BY <2>3, ZonedTimeReadsBack
  <2>6. r = Spells(w)
    BY <2>2, <2>3, <2>4, <2>5, Zenon
  <2> QED BY <1>1, <1>13, <2>6
<1>14. CASE w[1] = "LocalDateTime"
  <2>1. s.type = "LOCALDATETIME" /\ s.quoted = TRUE /\ s.text = showStamp(w[2])
    BY <1>14, ShowIs, Zenon
  <2>2. r = scalar("LOCALDATETIME", showStamp(w[2]))
    BY <2>1, QuotedTypes, QuotedScalar, Zenon
  <2>3. w[2] \in Int64s /\ w = <<"LocalDateTime", w[2]>>
    BY <1>3, <1>14 DEF Ones, One
  <2>4. scalar("LOCALDATETIME", showStamp(w[2])) = parseLocalDateTime(showStamp(w[2]))
    BY ScalarIs, Zenon
  <2>5. parseLocalDateTime(showStamp(w[2])) = Spells(<<"LocalDateTime", w[2]>>)
    BY <2>3, StampReadsBack
  <2>6. r = Spells(w)
    BY <2>2, <2>3, <2>4, <2>5, Zenon
  <2> QED BY <1>1, <1>14, <2>6
<1>15. CASE w[1] = "ZonedDateTime"
  <2>1. s.type = "ZONEDDATETIME" /\ s.quoted = TRUE /\ s.text = showZoned(w[2], w[3])
    BY <1>15, ShowIs, Zenon
  <2>2. r = scalar("ZONEDDATETIME", showZoned(w[2], w[3]))
    BY <2>1, QuotedTypes, QuotedScalar, Zenon
  <2>3. w[2] \in Int64s /\ w[3] \in Offsets /\ w = <<"ZonedDateTime", w[2], w[3]>>
    BY <1>4, <1>15 DEF Twos, Two
  <2>4. scalar("ZONEDDATETIME", showZoned(w[2], w[3])) = parseZonedDateTime(showZoned(w[2], w[3]))
    BY ScalarIs, Zenon
  <2>5. parseZonedDateTime(showZoned(w[2], w[3])) = Spells(<<"ZonedDateTime", w[2], w[3]>>)
    BY <2>3, ZonedReadsBack
  <2>6. r = Spells(w)
    BY <2>2, <2>3, <2>4, <2>5, Zenon
  <2> QED BY <1>1, <1>15, <2>6
<1>16. CASE w[1] = "YearMonth"
  <2>1. s.type = "DURATION" /\ s.quoted = TRUE /\ s.text = showMonths(w[2])
    BY <1>16, ShowIs, Zenon
  <2>2. r = scalar("DURATION", showMonths(w[2]))
    BY <2>1, QuotedTypes, QuotedScalar, Zenon
  <2>3. w[2] \in Int64s /\ w[2] # Lowest /\ w = <<"YearMonth", w[2]>>
    BY <1>3, <1>16 DEF Ones, One, Spellable
  <2>4. scalar("DURATION", showMonths(w[2])) = parseDuration(showMonths(w[2]))
    BY ScalarIs, Zenon
  <2>5. parseDuration(showMonths(w[2])) = Spells(<<"YearMonth", w[2]>>)
    BY <2>3, MonthsReadBack
  <2>6. r = Spells(w)
    BY <2>2, <2>3, <2>4, <2>5, Zenon
  <2> QED BY <1>1, <1>16, <2>6
<1>17. CASE w[1] = "time.Duration"
  <2>1. s.type = "DURATION" /\ s.quoted = TRUE /\ s.text = showNanos(w[2])
    BY <1>17, ShowIs, Zenon
  <2>2. r = scalar("DURATION", showNanos(w[2]))
    BY <2>1, QuotedTypes, QuotedScalar, Zenon
  <2>3. w[2] \in Int64s /\ w[2] # Lowest /\ w = <<"time.Duration", w[2]>>
    BY <1>3, <1>17 DEF Ones, One, Spellable
  <2>4. scalar("DURATION", showNanos(w[2])) = parseDuration(showNanos(w[2]))
    BY ScalarIs, Zenon
  <2>5. parseDuration(showNanos(w[2])) = Spells(<<"time.Duration", w[2]>>)
    BY <2>3, NanosReadBack
  <2>6. r = Spells(w)
    BY <2>2, <2>3, <2>4, <2>5, Zenon
  <2> QED BY <1>1, <1>17, <2>6
<1>18. CASE w[1] = "NodeAt"
  <2> DEFINE text == [table |-> w[2], offset |-> w[3]]
  <2>1. s.type = "NODE" /\ s.quoted = TRUE /\ s.text = text
    BY <1>18, ShowIs, Zenon
  <2>2. r = scalar("NODE", text)
    <3> HIDE DEF text
    <3> QED BY <2>1, QuotedTypes, QuotedScalar, Zenon
  <2>3. text.table = w[2] /\ text.offset = w[3]
    OBVIOUS
  <2>4. w = <<"NodeAt", w[2], w[3]>> /\ w[2] # "" /\ w[3] \in Rows
    BY <1>4, <1>18 DEF Twos, Two
  <2> HIDE DEF text
  <2>5. r = Spells(w)
    <3>1. scalar("NODE", text) = Spells(<<"NodeAt", text.table, text.offset>>)
      BY <2>3, <2>4, ScalarIs, Zenon DEF nodeAt
    <3> QED BY <2>2, <2>3, <2>4, <3>1, Zenon
  <2> QED BY <1>1, <1>18, <2>5
<1>19. CASE w[1] = "EdgeAt"
  <2> DEFINE text == [table |-> w[2], src |-> w[3], dst |-> w[4]]
  <2>1. s.type = "EDGE" /\ s.quoted = TRUE /\ s.text = text
    BY <1>19, ShowIs, Zenon
  <2>2. r = scalar("EDGE", text)
    <3> HIDE DEF text
    <3> QED BY <2>1, QuotedTypes, QuotedScalar, Zenon
  <2>3. text.table = w[2] /\ text.src = w[3] /\ text.dst = w[4]
    OBVIOUS
  <2>4. w = <<"EdgeAt", w[2], w[3], w[4]>> /\ w[2] # "" /\ w[3] \in Rows /\ w[4] \in Rows
    BY <1>19, FlatIs DEF Three
  <2> HIDE DEF text
  <2>5. r = Spells(w)
    <3>1. scalar("EDGE", text) = Spells(<<"EdgeAt", text.table, text.src, text.dst>>)
      BY <2>3, <2>4, ScalarIs, Zenon DEF edgeAt
    <3> QED BY <2>2, <2>3, <2>4, <3>1, Zenon
  <2> QED BY <1>1, <1>19, <2>5
<1>20. w[1] \in Kinds /\ w[1] \notin Walked
  BY FlatIs
<1>21. w[1] \notin {"Decimal", "graph", "binding table"}
  BY DEF Spellable
<1> QED BY <1>5, <1>6, <1>7, <1>8, <1>9, <1>10, <1>11, <1>12, <1>13, <1>14, <1>15, <1>16, <1>17,
           <1>18,
           <1>19, <1>20, <1>21, Zenon DEF Kinds, Walked

(* What is under what is shown: the members, which are before it.          *)
LEMMA ShownUnder ==
  ASSUME NEW k \in DOMAIN Encoded
  PROVE  /\ Encoded[k][1] \in {"[]any", "Walk"} =>
               /\ Shown[k].type = (IF Encoded[k][1] = "Walk" THEN "PATH" ELSE "LIST")
               /\ Shown[k].text = Encoded[k][2]
         /\ Encoded[k][1] \in {"[]any", "Walk"} <=> Shown[k].type \in {"LIST", "PATH"}
         /\ \A i \in DOMAIN Under(Shown[k]) : Under(Shown[k])[i] \in 1 .. k - 1
<1> DEFINE w == Encoded[k]
           s == Shown[k]
<1>1. s = Show(w)
  BY DEF Shown
<1>2. w[1] \in Kinds /\ s.type = Label(w[1])
      /\ Kind(Label(w[1])) = IF w[1] \in {"YearMonth", "time.Duration"} THEN "DURATION" ELSE w[1]
  BY <1>1, KindsOfEncoded, Labels, Zenon
<1>3. /\ Label("[]any") = "LIST" /\ Label("Walk") = "PATH"
      /\ Kind("LIST") = "[]any" /\ Kind("PATH") = "Walk"
  BY DEF Label, Kind
<1>4. w[1] \in {"[]any", "Walk"} <=> s.type \in {"LIST", "PATH"}
  <2> HIDE DEF w, s
  <2>1. "DURATION" # "[]any" /\ "DURATION" # "Walk"
    OBVIOUS
  <2> QED BY <1>2, <1>3, <2>1
<1>5. w[1] \in {"[]any", "Walk"} => /\ s.type = (IF w[1] = "Walk" THEN "PATH" ELSE "LIST")
                                   /\ s.text = w[2] /\ w[1] \in Walked
  <2>1. w[1] \in {"[]any", "Walk"} => w[1] \in Walked
    BY DEF Walked
  <2>2. w[1] \in Walked => s.text = w[2]
    BY <1>1, WalkedShown, Zenon
  <2> HIDE DEF w, s
  <2> QED BY <1>2, <1>3, <2>1, <2>2
<1>6. ASSUME w[1] \in {"[]any", "Walk"} PROVE \A i \in DOMAIN Under(s) : Under(s)[i] \in 1 .. k - 1
  <2>1. Under(s) = w[2]
    <3> HIDE DEF w, s
    <3> QED BY <1>4, <1>5, <1>6 DEF Under
  <2>2. \A i \in DOMAIN w[2] : w[2][i] \in 1 .. k - 1
    BY <1>5, <1>6, EncodedBefore, Zenon DEF Before
  <2> HIDE DEF w, s
  <2> QED BY <2>1, <2>2, Zenon
<1>7. ASSUME w[1] \notin {"[]any", "Walk"} PROVE \A i \in DOMAIN Under(s) : Under(s)[i] \in 1 .. k - 1
  <2> HIDE DEF w, s
  <2> QED BY <1>4, <1>7 DEF Under
<1> HIDE DEF w, s
<1>8. \A i \in DOMAIN Under(s) : Under(s)[i] \in 1 .. k - 1
  BY <1>6, <1>7
<1> QED BY <1>4, <1>5, <1>8 DEF w, s

\* What is shown is read as its payload, with what is under it read before.
LEMMA ShownTyped ==
  /\ Typeds(Typed(Shown), Shown)
  /\ \A k \in DOMAIN Encoded : Typed(Shown)[k] = TypedBy(Typed(Shown), Shown, k)
<1> DEFINE N == Len(Returned)
<1>1. N \in Nat /\ DOMAIN Shown = 1 .. N /\ DOMAIN Encoded = 1 .. N
  BY Cells DEF Shown
<1>2. \A k \in 1 .. N : \A i \in DOMAIN Under(Shown[k]) : Under(Shown[k])[i] \in 1 .. k - 1
  BY <1>1, ShownUnder, Zenon
<1> HIDE DEF N
<1>3. Typeds(Typed(Shown), Shown)
  BY ONLY <1>1, <1>2, TypedIs
<1>4. ASSUME NEW k \in DOMAIN Encoded PROVE Typed(Shown)[k] = TypedBy(Typed(Shown), Shown, k)
  <2> DEFINE f == Typed(Shown)
             T(x) == TypedBy(f, Shown, x)
  <2>1. f = [x \in DOMAIN Shown |-> T(x)]
    BY <1>3 DEF Typeds
  <2> HIDE DEF f, T
  <2>2. f[k] = T(k)
    BY <1>1, <2>1
  <2> QED BY <2>2 DEF f, T
<1> QED BY <1>3, <1>4, Zenon

(* What has a spelling has one on its own, and so has what is inside it.   *)
PasteableBy(f, k) ==
    LET v == Encoded[k] IN
    /\ v[1] \notin {"Decimal", "map", "graph", "binding table"}
    /\ v[1] = "Date" => v[2] \in CalendarDays
    /\ v[1] \in {"YearMonth", "time.Duration"} => v[2] # Lowest
    /\ v[1] \in {"[]any", "Walk"} => \A i \in DOMAIN v[2] : f[v[2][i]]

\* A value that has a spelling has one on its own, and so has all that is
\* inside it.
LEMMA PasteableIs ==
  ASSUME NEW k \in DOMAIN Encoded, Pasteable[k]
  PROVE  /\ Spellable(Encoded[k])
         /\ Encoded[k][1] \in {"[]any", "Walk"} =>
               \A i \in DOMAIN Encoded[k][2] : Pasteable[Encoded[k][2][i]]
<1> DEFINE X == DOMAIN Encoded
           N == Len(Returned)
           L == {"[]any", "Walk"}
           base == [x \in X |-> Spellable(Encoded[x])]
           needs == [x \in X |-> {y \in X : /\ Encoded[x][1] \in L
                                            /\ \E i \in DOMAIN Encoded[x][2] : y = Encoded[x][2][i]}]
           rank == [x \in X |-> x]
<1>1. N \in Nat /\ X = 1 .. N
  BY Cells
<1>2. ASSUME NEW x \in X, Encoded[x][1] \in L, NEW i \in DOMAIN Encoded[x][2]
      PROVE  Encoded[x][2][i] \in 1 .. x - 1 /\ Encoded[x][2][i] \in X
  <2>1. Encoded[x][1] \in Walked
    BY <1>2 DEF Walked
  <2>2. Encoded[x][2][i] \in 1 .. x - 1
    BY <1>2, <2>1, EncodedBefore, Zenon DEF Before
  <2> HIDE DEF X, N
  <2> QED BY <1>1, <2>2
<1>3. PICK f : f = [x \in X |-> base[x] /\ \A y \in needs[x] : f[y]]
  <2>1. \A x \in X : rank[x] \in 0 .. N
    <3> HIDE DEF X, N
    <3> QED BY <1>1
  <2>2. \A x \in X : \A y \in needs[x] : y \in X /\ rank[y] < rank[x]
    <3> SUFFICES ASSUME NEW x \in X, NEW y \in needs[x] PROVE y \in X /\ rank[y] < rank[x]
      OBVIOUS
    <3>1. PICK i \in DOMAIN Encoded[x][2] : y \in X /\ Encoded[x][1] \in L /\ y = Encoded[x][2][i]
      <4> HIDE DEF X, L
      <4> QED BY Zenon DEF needs
    <3>2. y \in 1 .. x - 1
      <4> HIDE DEF X, L, N
      <4> QED BY <1>2, <3>1, Zenon
    <3> HIDE DEF X, L, N
    <3> QED BY <1>1, <3>1, <3>2
  <2> HIDE DEF X, N, base, needs, rank
  <2>3. \E g : Recurs(g, X, base, needs)
    BY ONLY <1>1, <2>1, <2>2, Recursion
  <2> QED BY <2>3, Zenon DEF Recurs
<1>4. ASSUME NEW x \in X PROVE f[x] = PasteableBy(f, x)
  <2>1. f[x] = (base[x] /\ \A y \in needs[x] : f[y])
    <3> HIDE DEF X, base, needs
    <3> QED BY <1>3, Zenon
  <2>2. (\A y \in needs[x] : f[y]) <=>
            (Encoded[x][1] \in L => \A i \in DOMAIN Encoded[x][2] : f[Encoded[x][2][i]])
    <3>1. \A y : y \in needs[x] <=>
             y \in X /\ Encoded[x][1] \in L /\ \E i \in DOMAIN Encoded[x][2] : y = Encoded[x][2][i]
      <4> HIDE DEF L, X
      <4> QED BY Zenon
    <3> HIDE DEF needs, X, L, N
    <3> QED BY <1>2, <3>1, Zenon
  <2>3. base[x] <=> Spellable(Encoded[x])
    <3> HIDE DEF X
    <3> QED BY Zenon
  <2>4. PasteableBy(f, x) <=> /\ Spellable(Encoded[x])
                              /\ Encoded[x][1] \in L =>
                                    \A i \in DOMAIN Encoded[x][2] : f[Encoded[x][2][i]]
    BY Zenon DEF PasteableBy, Spellable
  <2> DEFINE a == base[x] /\ \A y \in needs[x] : f[y]
             b == PasteableBy(f, x)
  <2>5. a <=> b
    <3> HIDE DEF base, needs, L
    <3> QED BY <2>2, <2>3, <2>4, Zenon
  <2>6. f[x] = a /\ a \in BOOLEAN /\ b \in BOOLEAN
    <3> HIDE DEF base, needs
    <3> QED BY <2>1, Zenon DEF PasteableBy
  <2> HIDE DEF a, b
  <2>7. a = b
    BY <2>5, <2>6, Zenon
  <2> QED BY <2>6, <2>7, Zenon DEF b
<1>5. f = [x \in X |-> PasteableBy(f, x)]
  <2>1. f = [x \in X |-> f[x]]
    <3> HIDE DEF X, base, needs
    <3> QED BY <1>3
  <2> HIDE DEF X
  <2> QED BY <1>4, <2>1, Zenon
<1>6. Pasteable = CHOOSE g : g = [x \in X |-> PasteableBy(g, x)]
  BY Zenon DEF Pasteable, PasteableBy
<1>7. Pasteable = [x \in X |-> PasteableBy(Pasteable, x)]
  <2> HIDE DEF X
  <2> QED BY <1>5, <1>6, Zenon
<1>8. Pasteable[k] = PasteableBy(Pasteable, k)
  <2> DEFINE g == Pasteable
             T(x) == PasteableBy(g, x)
  <2>1. g = [x \in X |-> T(x)]
    BY <1>7
  <2> HIDE DEF g, T, X
  <2>2. k \in X
    BY DEF X
  <2>3. g[k] = T(k)
    BY <2>1, <2>2
  <2> QED BY <2>3 DEF g, T
<1> HIDE DEF X, base, needs, rank
<1> QED BY <1>8, Zenon DEF PasteableBy, Spellable

(* A walk in the shape of a case alternates as the path it came from does. *)
LEMMA WalkCells ==
  ASSUME NEW k \in DOMAIN Encoded, Encoded[k][1] = "Walk"
  PROVE  Alternates([i \in DOMAIN Encoded[k][2] |-> Encoded[Encoded[k][2][i]][1]], "NodeAt", "EdgeAt")
<1> DEFINE v == Returned[k]
           x == v[2]
           w == Encoded[k]
<1>1. DOMAIN Encoded = DOMAIN Returned /\ w = Cell(v)
  BY DEF Encoded
<1>2. v \in Scalars \/ Holds(v, 1 .. k - 1)
  BY <1>1, ReturnedAssumption, Zenon
<1>3. v \notin Scalars
  <2>1. "Walk" \in Walked
    BY DEF Walked
  <2> QED BY <1>1, <2>1, ScalarCells
<1>4. v[1] = "Path" /\ x \in Seq(1 .. k - 1) /\ w[2] = x
  <2>1. CASE v \in {"[]any", "Path"} \X Seq(1 .. k - 1)
    <3> DEFINE B == Seq(1 .. k - 1)
    <3> HIDE DEF B
    <3>1. v[1] \in {"[]any", "Path"} /\ v = <<v[1], v[2]>> /\ v[2] \in B
      BY <2>1 DEF B
    <3>2. v[1] = "[]any" => Cell(v) = v
      BY DEF Cell
    <3>3. v[1] = "Path" => Cell(v) = <<"Walk", v[2]>>
      BY DEF Cell
    <3>4. v[1] = "Path" /\ w[2] = v[2]
      <4> HIDE DEF v, w
      <4> QED BY <1>1, <3>1, <3>2, <3>3 DEF w
    <3> QED BY <3>1, <3>4 DEF B
  <2>2. CASE v[1] = "Record"
    <3>1. Cell(v) = <<"map", v[2]>>
      BY <2>2 DEF Cell
    <3> QED BY <1>1, <3>1
  <2> QED BY <1>2, <1>3, <2>1, <2>2 DEF Holds
<1>5. Alternates([i \in DOMAIN x |-> Returned[x[i]][1]], "Node", "Rel")
  BY <1>1, <1>4, ReturnedAssumption, Zenon
<1>6. Len(x) \in Nat /\ DOMAIN x = 1 .. Len(x) /\ \A i \in DOMAIN x : x[i] \in 1 .. k - 1
  <2> DEFINE B == 1 .. k - 1
  <2> HIDE DEF B, x
  <2>1. x \in Seq(B)
    BY <1>4, Zenon DEF B
  <2>2. Len(x) \in Nat /\ DOMAIN x = 1 .. Len(x) /\ \A i \in 1 .. Len(x) : x[i] \in B
    BY <2>1, Elements, Zenon
  <2>3. \A i \in DOMAIN x : x[i] \in B
    BY <2>2, Zenon
  <2> QED BY <2>2, <2>3, Zenon DEF B
<1>7. ASSUME NEW i \in DOMAIN x PROVE /\ Returned[x[i]][1] = "Node" => Encoded[x[i]][1] = "NodeAt"
                                      /\ Returned[x[i]][1] = "Rel" => Encoded[x[i]][1] = "EdgeAt"
  <2>1. x[i] \in DOMAIN Returned
    <3>1. x[i] \in 1 .. k - 1 /\ k \in 1 .. Len(Returned)
      BY <1>1, <1>6, ReturnedAssumption
    <3> HIDE DEF x
    <3> QED BY <3>1, ReturnedAssumption
  <2> DEFINE u == Returned[x[i]]
  <2>2. Encoded[x[i]] = Cell(u)
    BY <1>1, <2>1 DEF Encoded
  <2>3. u[1] = "Node" => Cell(u) = <<"NodeAt", Named[u[2]], u[3]>>
    BY DEF Cell
  <2>4. u[1] = "Rel" => Cell(u) = <<"EdgeAt", Named[u[2]], u[3], u[4]>>
    BY DEF Cell
  <2> HIDE DEF u
  <2>5. /\ u[1] = "Node" => Encoded[x[i]][1] = "NodeAt"
        /\ u[1] = "Rel" => Encoded[x[i]][1] = "EdgeAt"
    BY <2>2, <2>3, <2>4
  <2> QED BY <2>5 DEF u
<1> DEFINE n == Len(x)
           f == [i \in DOMAIN x |-> Returned[x[i]][1]]
           g == [i \in DOMAIN x |-> Encoded[x[i]][1]]
<1>8. Len(f) = n /\ Len(g) = n /\ DOMAIN f = 1 .. n /\ DOMAIN g = 1 .. n
  <2> HIDE DEF x
  <2> QED BY <1>6
<1>9. \A i \in 1 .. n : /\ f[i] = "Node" => g[i] = "NodeAt"
                        /\ f[i] = "Rel" => g[i] = "EdgeAt"
  BY <1>6, <1>7
<1>10. Alternates(g, "NodeAt", "EdgeAt")
  <2> HIDE DEF f, g, n, x
  <2> QED BY <1>5, <1>8, <1>9 DEF Alternates, f
<1> QED BY <1>4, <1>10

(* What is shown of a value that has a spelling is read as that value.     *)
ReadBack(r, w) ==
    /\ r.ok = TRUE /\ r.is[1] = w[1]
    /\ w[1] \in Walked => r.is = w
    /\ w[1] \notin Walked => SameAlone(r.is, w)

\* A list or a walk reads back when what is inside it does.
LEMMA WalkedReadsBack ==
  ASSUME NEW k \in DOMAIN Encoded, Encoded[k][1] \in {"[]any", "Walk"},
         \A i \in DOMAIN Encoded[k][2] : ReadBack(Typed(Shown)[Encoded[k][2][i]], Encoded[Encoded[k][2][i]])
  PROVE  ReadBack(Typed(Shown)[k], Encoded[k])
<1> DEFINE w == Encoded[k]
           s == Shown[k]
           f == Typed(Shown)
           inside == [i \in DOMAIN Under(s) |-> f[Under(s)[i]]]
<1>1. /\ s.type = (IF w[1] = "Walk" THEN "PATH" ELSE "LIST") /\ s.text = w[2] /\ Under(s) = w[2]
  <2>1. /\ s.type = (IF w[1] = "Walk" THEN "PATH" ELSE "LIST") /\ s.text = w[2]
        /\ s.type \in {"LIST", "PATH"}
    BY ShownUnder
  <2> HIDE DEF s, w
  <2> QED BY <2>1 DEF Under
<1>2. f[k] = Payload(s, inside)
  BY ShownTyped, Zenon DEF TypedBy
<1>3. /\ DOMAIN inside = DOMAIN w[2]
      /\ \A i \in DOMAIN w[2] : inside[i] = f[w[2][i]]
  <2> HIDE DEF s, w, f
  <2> QED BY <1>1
<1>4. \A i \in DOMAIN inside : /\ inside[i].ok = TRUE
                               /\ inside[i].is[1] = Encoded[w[2][i]][1]
  <2>1. \A i \in DOMAIN w[2] : /\ f[w[2][i]].ok = TRUE
                               /\ f[w[2][i]].is[1] = Encoded[w[2][i]][1]
    BY Zenon DEF ReadBack
  <2> HIDE DEF inside, w, f
  <2> QED BY <1>3, <2>1
<1>5. w = <<w[1], w[2]>> /\ w[1] \in Walked
  <2>1. w[1] \in Walked
    BY DEF Walked
  <2>2. Composite(w, 1 .. k - 1)
    BY <2>1, Cells
  <2>3. PICK x : w = <<w[1], x>>
    BY <2>2 DEF Composite
  <2> HIDE DEF w
  <2> QED BY <2>1, <2>3
<1>6. CASE w[1] = "[]any"
  <2>1. f[k] = Spells(<<"[]any", s.text>>)
    <3>1. s.type = "LIST"
      <4> HIDE DEF s, w
      <4> QED BY <1>1, <1>6
    <3> HIDE DEF s, w, f, inside
    <3>2. ~\E i \in DOMAIN inside : ~inside[i].ok
      BY <1>4
    <3> QED BY <1>2, <3>1, <3>2, PayloadIs, Zenon
  <2>2. f[k].ok = TRUE /\ f[k].is = <<"[]any", s.text>>
    <3> HIDE DEF f, s, w
    <3> QED BY <2>1 DEF Spells
  <2> HIDE DEF f, s, w
  <2>3. f[k].ok = TRUE /\ f[k].is = w
    BY <1>1, <1>5, <1>6, <2>2, Zenon
  <2> QED BY <1>5, <2>3, Zenon DEF ReadBack, f, w
<1>7. CASE w[1] = "Walk"
  <2>1. f[k] = Spells(<<"Walk", s.text>>)
    <3>1. s.type = "PATH"
      <4> HIDE DEF s, w
      <4> QED BY <1>1, <1>7
    <3>2. Alternates([i \in DOMAIN inside |-> inside[i].is[1]], "NodeAt", "EdgeAt")
      <4>1. Alternates([i \in DOMAIN w[2] |-> Encoded[w[2][i]][1]], "NodeAt", "EdgeAt")
        BY <1>7, WalkCells
      <4>2. [i \in DOMAIN w[2] |-> Encoded[w[2][i]][1]] = [i \in DOMAIN inside |-> inside[i].is[1]]
        <5> HIDE DEF inside, w
        <5> QED BY <1>3, <1>4
      <4> HIDE DEF inside, w
      <4> QED BY <4>1, <4>2
    <3> HIDE DEF s, w, f, inside
    <3>3. ~\E i \in DOMAIN inside : ~inside[i].ok
      BY <1>4
    <3>4. walk(s, inside) = Spells(<<"Walk", s.text>>)
      BY <3>2, Zenon DEF walk
    <3> QED BY <1>2, <3>1, <3>3, <3>4, PayloadIs, Zenon
  <2>2. f[k].ok = TRUE /\ f[k].is = <<"Walk", s.text>>
    <3> HIDE DEF f, s, w
    <3> QED BY <2>1 DEF Spells
  <2> HIDE DEF f, s, w
  <2>3. f[k].ok = TRUE /\ f[k].is = w
    BY <1>1, <1>5, <1>7, <2>2, Zenon
  <2> QED BY <1>5, <2>3, Zenon DEF ReadBack, f, w
<1> HIDE DEF w
<1> QED BY <1>6, <1>7 DEF w

\* All that has a spelling reads back.
LEMMA ReadsBack ==
  ASSUME NEW k \in DOMAIN Encoded, Pasteable[k]
  PROVE  ReadBack(Typed(Shown)[k], Encoded[k])
<1> DEFINE N == Len(Returned)
           f == Typed(Shown)
           S == {n \in Nat : \A j \in DOMAIN Encoded : j <= n /\ Pasteable[j] => ReadBack(f[j],
                 Encoded[j])}
<1>1. N \in Nat /\ DOMAIN Encoded = 1 .. N
  BY Cells
<1>2. 0 \in S
  <2> HIDE DEF N, f
  <2> QED BY <1>1
<1>3. ASSUME NEW n \in S PROVE n + 1 \in S
  <2> SUFFICES ASSUME NEW j \in DOMAIN Encoded, j <= n + 1, Pasteable[j] PROVE ReadBack(f[j], Encoded[j])
    BY <1>3
  <2> DEFINE w == Encoded[j]
  <2>1. n \in Nat /\ \A i \in DOMAIN Encoded : i <= n /\ Pasteable[i] => ReadBack(f[i], Encoded[i])
    BY <1>3
  <2>2. Spellable(w) /\ (w[1] \in {"[]any", "Walk"} => \A i \in DOMAIN w[2] : Pasteable[w[2][i]])
    BY PasteableIs, Zenon
  <2>3. CASE w[1] \in {"[]any", "Walk"}
    <3>1. ASSUME NEW i \in DOMAIN w[2] PROVE ReadBack(f[w[2][i]], Encoded[w[2][i]])
      <4>1. w[1] \in Walked
        BY <2>3 DEF Walked
      <4>2. w[2][i] \in 1 .. j - 1
        BY <4>1, EncodedBefore, Zenon DEF Before
      <4>3. w[2][i] \in DOMAIN Encoded /\ w[2][i] <= n
        <5> HIDE DEF w, N, f
        <5> QED BY <1>1, <2>1, <4>2
      <4> HIDE DEF w, f
      <4> QED BY <2>1, <2>2, <2>3, <4>3, Zenon
    <3> HIDE DEF f
    <3> QED BY <2>3, <3>1, WalkedReadsBack, Zenon DEF f
  <2>4. CASE w[1] \notin {"[]any", "Walk"}
    <3>1. w[1] \notin Walked
      BY <2>2, <2>4 DEF Spellable, Walked
    <3>2. Flat(w)
      BY <3>1, KindsOfEncoded, Zenon
    <3> DEFINE inside == [i \in DOMAIN Under(Shown[j]) |-> f[Under(Shown[j])[i]]]
    <3>3. f[j] = Payload(Shown[j], inside)
      BY ShownTyped, Zenon DEF TypedBy
    <3>4. Shown[j] = Show(w)
      BY DEF Shown
    <3> HIDE DEF inside, w, f
    <3>5. PICK x : Payload(Show(w), inside) = Spells(x) /\ x[1] = w[1] /\ SameAlone(x, w)
      BY <2>2, <3>2, AloneReadsBack, Zenon
    <3>6. f[j].ok = TRUE /\ f[j].is = x
      BY <3>3, <3>4, <3>5 DEF Spells
    <3>7. ReadBack(f[j], w)
      BY <3>1, <3>5, <3>6, Zenon DEF ReadBack
    <3> QED BY <3>7 DEF w
  <2> QED BY <2>3, <2>4
<1>4. S \in SUBSET Nat
  OBVIOUS
<1>5. N \in S
  <2> HIDE DEF S
  <2> QED BY <1>1, <1>2, <1>3, <1>4, Induction
<1>6. \A j \in DOMAIN Encoded : j <= N /\ Pasteable[j] => ReadBack(f[j], Encoded[j])
  BY <1>5
<1> HIDE DEF S, N, f
<1>7. k <= N
  BY <1>1
<1> QED BY <1>6, <1>7 DEF f

Wants == [k \in DOMAIN Encoded |-> Typed(Shown)[k].is]

\* What is read back holds what is before it.
LEMMA WantsBefore == Before(Wants) /\ DOMAIN Wants = DOMAIN Encoded
<1>1. DOMAIN Wants = DOMAIN Encoded
  BY DEF Wants
<1> SUFFICES ASSUME NEW k \in DOMAIN Encoded, Wants[k][1] \in Walked
             PROVE  \A i \in DOMAIN Wants[k][2] : Wants[k][2][i] \in 1 .. k - 1
  BY <1>1 DEF Before
<1> DEFINE f == Typed(Shown)
           s == Shown[k]
           inside == [i \in DOMAIN Under(s) |-> f[Under(s)[i]]]
<1>2. Wants[k] = f[k].is
  BY DEF Wants
<1>3. f[k] = Payload(s, inside)
  BY ShownTyped, Zenon DEF TypedBy
<1>4. \A i \in DOMAIN Under(s) : Under(s)[i] \in 1 .. k - 1
  BY ShownUnder
<1> HIDE DEF inside, f, s
<1>5. s.type \in {"LIST", "PATH"} /\ Wants[k][2] = s.text
  BY <1>2, <1>3, WalkedRead
<1>6. Under(s) = s.text
  BY <1>5 DEF Under
<1> QED BY <1>4, <1>5, <1>6, Zenon

(* What is read back is the same as what was shown.                        *)
LEMMA BackIsSame ==
  ASSUME NEW k \in DOMAIN Encoded, Pasteable[k]
  PROVE  Same(Wants, Encoded)[<<k, k>>] = TRUE
<1> DEFINE N == Len(Returned)
           same == Same(Wants, Encoded)
           Good(j) == Pasteable[j] => same[<<j, j>>] = TRUE
           S == {n \in Nat : \A j \in DOMAIN Encoded : j <= n => Good(j)}
<1>1. N \in Nat /\ DOMAIN Encoded = 1 .. N /\ DOMAIN Wants = 1 .. N
  BY Cells, WantsBefore
<1>2. Sames(same, Wants, Encoded, (1 .. N) \X (1 .. N))
  <2> HIDE DEF N
  <2> QED BY <1>1, WantsBefore, EncodedBefore, SameIs
<1>3. ASSUME NEW j \in DOMAIN Encoded PROVE same[<<j, j>>] = SameBy(same, Wants, Encoded, <<j, j>>)
  <2> DEFINE X == (1 .. N) \X (1 .. N)
             T(at) == SameBy(same, Wants, Encoded, at)
  <2>1. same = [at \in X |-> T(at)]
    BY <1>2 DEF Sames
  <2>2. <<j, j>> \in X
    <3> HIDE DEF N
    <3> QED BY <1>1
  <2> HIDE DEF X, T, same
  <2>3. same[<<j, j>>] = T(<<j, j>>)
    BY <2>1, <2>2
  <2> QED BY <2>3 DEF T
<1>4. 0 \in S
  <2> HIDE DEF N, Good
  <2> QED BY <1>1
<1>5. ASSUME NEW n \in S PROVE n + 1 \in S
  <2> SUFFICES ASSUME NEW j \in DOMAIN Encoded, j <= n + 1 PROVE Good(j)
    <3> HIDE DEF Good
    <3> QED BY <1>5
  <2> SUFFICES ASSUME Pasteable[j] PROVE same[<<j, j>>] = TRUE
    OBVIOUS
  <2> DEFINE w == Encoded[j]
             x == Wants[j]
  <2>1. n \in Nat /\ \A i \in DOMAIN Encoded : i <= n => Good(i)
    <3> HIDE DEF Good
    <3> QED BY <1>5
  <2>2. /\ x[1] = w[1]
        /\ w[1] \in Walked => x = w
        /\ w[1] \notin Walked => SameAlone(x, w)
    <3>1. x = Typed(Shown)[j].is
      BY DEF Wants
    <3> HIDE DEF x, w
    <3>2. ReadBack(Typed(Shown)[j], w)
      BY ReadsBack DEF w
    <3> QED BY <3>1, <3>2 DEF ReadBack
  <2>3. Spellable(w) /\ (w[1] \in {"[]any", "Walk"} => \A i \in DOMAIN w[2] : Pasteable[w[2][i]])
    BY PasteableIs, Zenon
  <2>4. w[1] \in Walked => \A i \in DOMAIN w[2] : same[<<w[2][i], w[2][i]>>] = TRUE
    <3> SUFFICES ASSUME w[1] \in Walked, NEW i \in DOMAIN w[2] PROVE same[<<w[2][i], w[2][i]>>] = TRUE
      OBVIOUS
    <3>1. w[2][i] \in 1 .. j - 1
      BY EncodedBefore, Zenon DEF Before
    <3>2. Pasteable[w[2][i]]
      <4>1. w[1] \in {"[]any", "Walk"}
        <5> HIDE DEF w
        <5> QED BY <2>3 DEF Spellable, Walked
      <4> QED BY <2>3, <4>1, Zenon
    <3>3. w[2][i] \in DOMAIN Encoded /\ w[2][i] <= n
      <4> HIDE DEF w, N, same
      <4> QED BY <1>1, <2>1, <3>1
    <3> HIDE DEF w, same
    <3> QED BY <2>1, <3>2, <3>3, Zenon
  <2>5. SameBy(same, Wants, Encoded, <<j, j>>) <=>
            /\ x[1] = w[1]
            /\ x[1] = "float64" => SameFloat(x, w)
            /\ x[1] = "Decimal" => SameDecimal(x, w)
            /\ x[1] \in Walked => /\ DOMAIN x[2] = DOMAIN w[2]
                                  /\ \A i \in DOMAIN x[2] : same[<<x[2][i], w[2][i]>>]
            /\ x[1] \notin {"float64", "Decimal"} \union Walked => x = w
    <3>1. <<j, j>>[1] = j /\ <<j, j>>[2] = j
      OBVIOUS
    <3> HIDE DEF same
    <3> QED BY <3>1, Zenon DEF SameBy
  <2>6. SameBy(same, Wants, Encoded, <<j, j>>)
    <3> HIDE DEF same, w, x
    <3>1. CASE w[1] \in Walked
      <4>1. x = w
        BY <2>2, <3>1
      <4>2. w[1] # "float64" /\ w[1] # "Decimal"
        BY <3>1 DEF Walked
      <4> QED BY <2>4, <2>5, <3>1, <4>1, <4>2, Zenon
    <3>2. CASE w[1] \notin Walked
      <4>1. x[1] = w[1] /\ SameAlone(x, w)
        BY <2>2, <3>2
      <4> QED BY <2>5, <3>2, <4>1, Zenon DEF SameAlone
    <3> QED BY <3>1, <3>2
  <2>7. SameBy(same, Wants, Encoded, <<j, j>>) \in BOOLEAN
    BY Zenon DEF SameBy
  <2> DEFINE b == SameBy(same, Wants, Encoded, <<j, j>>)
  <2>8. b /\ b \in BOOLEAN
    BY <2>6, <2>7, Zenon
  <2> HIDE DEF b
  <2>9. b = TRUE
    BY <2>8, Zenon
  <2> QED BY <1>3, <2>9, Zenon DEF b
<1>6. S \in SUBSET Nat
  OBVIOUS
<1>7. N \in S
  <2> HIDE DEF S
  <2> QED BY <1>1, <1>4, <1>5, <1>6, Induction
<1> HIDE DEF Good, N
<1>8. \A j \in DOMAIN Encoded : j <= N => Good(j)
  BY <1>7
<1> HIDE DEF S
<1>9. k <= N
  BY <1>1
<1>10. Good(k)
  BY <1>8, <1>9
<1> QED BY <1>10, Zenon DEF Good


\* What a report shows of a value that has a spelling, a list or a walk of
\* such values included, can be pasted into a case: it is read, and is the
\* same as the value (values.go:626, Show, Typed and Same).
THEOREM ShownReadsBack == EncodingSpec => []ReportsReadBack
<1> DEFINE Inv == done.op = "show" => done.value \in DOMAIN Encoded /\ done.spelled = Shown[done.value]
<1>1. EncodingInit => Inv
  BY DEF EncodingInit, Idle
<1>2. Inv /\ [EncodingNext]_done => Inv'
  <2> SUFFICES ASSUME Inv, [EncodingNext]_done PROVE Inv'
    OBVIOUS
  <2>1. CASE done' = Idle
    BY <2>1 DEF Idle
  <2>2. CASE done' = done
    BY <2>2
  <2>3. ASSUME NEW k \in DOMAIN Encoded, done' = [op |-> "show", value |-> k, spelled |-> Shown[k]] PROVE Inv'
    BY <2>3
  <2>4. ASSUME NEW k, NEW j, NEW b, done' = [op |-> "compare", want |-> j, got |-> k, same |-> b] PROVE Inv'
    BY <2>4
  <2>5. ASSUME NEW k, NEW r, done' = [op |-> "read", spelling |-> k, read |-> r] PROVE Inv'
    BY <2>5
  <2> HIDE DEF Inv
  <2> QED BY <2>1, <2>2, <2>3, <2>4, <2>5, Zenon DEF EncodingNext
<1>3. Inv => ReportsReadBack
  <2> SUFFICES ASSUME Inv, done.op = "show", Pasteable[done.value]
               PROVE  LET back == Typed([Shown EXCEPT ![done.value] = done.spelled])
                      IN /\ back[done.value].ok
                         /\ Same([k \in DOMAIN Encoded |-> back[k].is], Encoded)[<<done.value, done.value>>]
    BY Zenon DEF ReportsReadBack
  <2> DEFINE k == done.value
  <2>1. k \in DOMAIN Encoded /\ done.spelled = Shown[k]
    OBVIOUS
  <2>2. [Shown EXCEPT ![k] = done.spelled] = Shown
    <3>1. Shown = [i \in DOMAIN Encoded |-> Shown[i]]
      BY DEF Shown
    <3> HIDE DEF k
    <3> QED BY <2>1, <3>1
  <2>3. Typed(Shown)[k].ok
    BY <2>1, ReadsBack, Zenon DEF ReadBack
  <2>4. Same(Wants, Encoded)[<<k, k>>]
    <3> HIDE DEF k
    <3>1. Same(Wants, Encoded)[<<k, k>>] = TRUE
      BY <2>1, BackIsSame DEF k
    <3> QED BY <3>1, Zenon
  <2> QED BY <2>2, <2>3, <2>4, Zenon DEF Wants
<1> HIDE DEF Inv
<1> QED BY <1>1, <1>2, <1>3, PTL DEF EncodingSpec

\* A comparison answers that two values are the same exactly when a report
\* shows them alike, whatever is nested in them (values.go:535, Same, and
\* 626, Show).
THEOREM SameAsShown == EncodingSpec => []SameIffShownAlike
<1>1. EncodingInit => SameIffShownAlike
  BY DEF EncodingInit, Idle, SameIffShownAlike
<1>2. SameIffShownAlike /\ [EncodingNext]_done => SameIffShownAlike'
  <2> SUFFICES ASSUME SameIffShownAlike, [EncodingNext]_done PROVE SameIffShownAlike'
    OBVIOUS
  <2>1. CASE done' = Idle
    BY <2>1 DEF Idle, SameIffShownAlike
  <2>2. CASE done' = done
    BY <2>2, Zenon DEF SameIffShownAlike
  <2>3. ASSUME NEW k \in DOMAIN Encoded, done' = [op |-> "show", value |-> k, spelled |-> Shown[k]]
        PROVE  SameIffShownAlike'
    BY <2>3 DEF SameIffShownAlike
  <2>4. ASSUME NEW k \in DOMAIN Encoded, NEW j \in DOMAIN Encoded,
               done' = [op |-> "compare", want |-> j, got |-> k, same |-> Same(Encoded, Encoded)[<<j, k>>]]
        PROVE  SameIffShownAlike'
    <3> DEFINE b == Same(Encoded, Encoded)[<<j, k>>]
    <3>1. done'.want = j /\ done'.got = k
      <4> HIDE DEF b
      <4> QED BY <2>4
    <3>2. done'.same = b
      <4>1. done' = [op |-> "compare", want |-> j, got |-> k, same |-> b]
        BY <2>4
      <4> HIDE DEF b
      <4> QED BY <4>1
    <3>3. b = Alike[<<j, k>>]
      BY AlikeSame
    <3> HIDE DEF b
    <3> QED BY <3>1, <3>2, <3>3, Zenon DEF SameIffShownAlike
  <2>5. ASSUME NEW k, NEW r, done' = [op |-> "read", spelling |-> k, read |-> r] PROVE SameIffShownAlike'
    BY <2>5 DEF SameIffShownAlike
  <2> QED BY <2>1, <2>2, <2>3, <2>4, <2>5, Zenon DEF EncodingNext
<1> QED BY <1>1, <1>2, PTL DEF EncodingSpec

(***************************************************************************)
(* What is read is shown as it was written.                                *)
(***************************************************************************)

(* An answer is that there is none, or says what it is.                    *)
LEMMA Answers ==
  ASSUME NEW r, NEW v, r = SpellsNone \/ r = Spells(v), r.ok
  PROVE  r = Spells(v) /\ r.is = v
<1>1. ~SpellsNone.ok /\ Spells(v).is = v
  BY DEF SpellsNone, Spells
<1> QED BY <1>1, Zenon

ClockAgain(c) == [c EXCEPT !.frac = showFraction(fraction(@))]
OffsetAgain(o) == IF splitOffset(o).is = 0 THEN Zulu ELSE o
StampAgain(st) == [st EXCEPT !.clock = ClockAgain(@)]

\* A date that is read is shown as it was written.
LEMMA DayAgain ==
  ASSUME NEW t \in Dates, dateDays(t).ok
  PROVE  /\ dateDays(t) = Spells(dateDays(t).is) /\ dateDays(t).is \in Int
         /\ showDate(dateDays(t).is) = t
<1>1. t \in [y : Int, m : Int, d : Int]
  BY DEF Dates
<1>2. t \in Calendar /\ showDate(dateDays(t).is) = t
  BY <1>1, CalendarOnly, Zenon
<1>3. dateDays(t) = Spells(DayOf(t)) /\ dateDays(t).is = DayOf(t)
  BY DateAnswers, Zenon
<1>4. t.y \in Int /\ t.m \in 1 .. 12 /\ t.d \in Int
  BY <1>1, <1>2 DEF Calendar
<1>5. DayOf(t) = YearStart(t.y) + MonthStart(t.y, t.m) + t.d - 1
  BY <1>4, DaysOfDate DEF DayOf
<1>6. DayOf(t) \in Int
  <2>1. YearStart(t.y) \in Int
    BY <1>4 DEF YearStart
  <2>2. MonthStart(t.y, t.m) \in Int
    <3> DEFINE y == t.y
               m == t.m
    <3> HIDE DEF y, m
    <3>1. y \in Int /\ m \in 1 .. 12
      BY <1>4 DEF y, m
    <3>2. MonthStart(y, m) \in Nat
      BY <3>1, MonthTypes
    <3> QED BY <3>2 DEF y, m
  <2> QED BY <1>4, <1>5, <2>1, <2>2
<1> QED BY <1>2, <1>3, <1>6, Zenon

\* A time that is read is shown as it was written, but for its zeros.
LEMMA ClockAgainIs ==
  ASSUME NEW t \in Clocks, clockNanos(t).ok
  PROVE  /\ clockNanos(t) = Spells(clockNanos(t).is) /\ clockNanos(t).is \in Instants
         /\ showClock(clockNanos(t).is) = ClockAgain(t)
<1> DEFINE v == t.h * nanosPerHour + t.m * nanosPerMinute + t.s * nanosPerSecond + fraction(t.frac)
<1>1. clockNanos(t) = SpellsNone \/ clockNanos(t) = Spells(v)
  BY Zenon DEF clockNanos
<1> HIDE DEF v
<1>2. clockNanos(t) = Spells(v) /\ clockNanos(t).is = v
  BY <1>1, Answers
<1>3. ClockAgain(t) = [t EXCEPT !.frac = showFraction(fraction(t.frac))]
  BY DEF ClockAgain
<1> QED BY <1>2, <1>3, ClockShownAgain, Zenon

\* An offset that is read is shown as it was written, or as Z.
LEMMA OffsetShownAgain ==
  ASSUME NEW o \in Zones, splitOffset(o).ok
  PROVE  /\ splitOffset(o) = Spells(splitOffset(o).is) /\ splitOffset(o).is \in Int
         /\ showOffset(splitOffset(o).is) = OffsetAgain(o)
<1> DEFINE total == o.h * Sixty + o.m
           v == IF o.sign = "-" THEN -total ELSE total
<1>1. splitOffset(o) = SpellsNone \/ splitOffset(o) = Spells(v)
  BY Zenon DEF splitOffset
<1>2. o.h \in Nat /\ o.m \in Nat
  BY DEF Zones, Zulu
<1>3. total \in Nat
  BY <1>2, Units
<1>4. splitOffset(o) = Spells(v) /\ splitOffset(o).is = v
  <2> HIDE DEF v
  <2> QED BY <1>1, Answers
<1>5. v \in Int
  <2> HIDE DEF total
  <2> QED BY <1>3
<1>6. CASE total = 0
  <2>1. v = 0
    <3>1. -total = 0
      <4> HIDE DEF total
      <4>1. -total = 0 - total
        BY <1>3
      <4>2. 0 - total = 0
        BY <1>3, <1>6
      <4> QED BY <4>1, <4>2, Zenon
    <3> HIDE DEF total
    <3> QED BY <1>6, <3>1, Zenon
  <2>2. showOffset(0) = Zulu
    BY DEF showOffset
  <2> HIDE DEF v
  <2> QED BY <1>4, <1>5, <2>1, <2>2, Zenon DEF OffsetAgain
<1>7. CASE total # 0
  <2>1. o # Zulu
    <3>1. Zulu.h * Sixty + Zulu.m = 0
      BY Units DEF Zulu
    <3> QED BY <1>7, <3>1
  <2>2. o.sign \in {"+", "-"} /\ o = [sign |-> o.sign, h |-> o.h, m |-> o.m]
    BY <2>1 DEF Zones
  <2>3. o.m < Sixty
    <3>1. ~(o.m < Sixty) => splitOffset(o) = SpellsNone
      BY Zenon DEF splitOffset
    <3>2. Spells(v).ok /\ ~SpellsNone.ok
      BY DEF Spells, SpellsNone
    <3> HIDE DEF v
    <3> QED BY <1>4, <3>1, <3>2, Zenon
  <2>4. total \div Sixty = o.h /\ total % Sixty = o.m
    <3>1. Sixty \in Nat \ {0} /\ o.h \in Int /\ o.m \in Int /\ 0 <= o.m /\ total \in Int
          /\ total = Sixty * o.h + o.m
      BY <1>2, <1>3, Units
    <3> DEFINE q == o.h
               r == o.m
    <3> HIDE DEF total, q, r
    <3>2. /\ Sixty \in Nat \ {0} /\ q \in Int /\ r \in Int /\ 0 <= r /\ r < Sixty
          /\ total \in Int /\ total = Sixty * q + r
      BY <2>3, <3>1 DEF q, r
    <3>3. total \div Sixty = q /\ total % Sixty = r
      BY <3>2, DivisionUnique
    <3> QED BY <3>3 DEF q, r
  <2> DEFINE size == IF v < 0 THEN -v ELSE v
  <2>5. size = total /\ v # 0 /\ (v < 0 <=> o.sign = "-")
    <3> HIDE DEF total
    <3> QED BY <1>3, <1>7
  <2>6. showOffset(v) = [sign |-> IF v < 0 THEN "-" ELSE "+", h |-> size \div Sixty, m |-> size % Sixty]
    <3> HIDE DEF v
    <3> QED BY <2>5 DEF showOffset
  <2>7. showOffset(v) = o
    <3> HIDE DEF v, size, total
    <3> QED BY <2>2, <2>4, <2>5, <2>6
  <2> HIDE DEF v
  <2> QED BY <1>4, <1>5, <2>5, <2>7, Zenon DEF OffsetAgain
<1> QED BY <1>6, <1>7

(* A stamp that does not wrap is shown again as it was written.            *)
LEMMA StampShownAgain ==
  ASSUME NEW t \in Stamps, stampNanos(t).ok,
         ~((dateDays(t.date).is - 1) * nanosPerDay < Lowest),
         ~((dateDays(t.date).is + 2) * nanosPerDay > -Lowest)
  PROVE  /\ stampNanos(t) = Spells(stampNanos(t).is) /\ stampNanos(t).is \in Int64s
         /\ showStamp(stampNanos(t).is) = StampAgain(t)
<1> DEFINE d == dateDays(t.date).is
           f == clockNanos(t.clock).is
           n == d * nanosPerDay + f
           v == Int64(n)
<1>1. t.date \in Dates /\ t.clock \in Clocks /\ t = [date |-> t.date, clock |-> t.clock]
  BY DEF Stamps
<1>2. dateDays(t.date).ok /\ clockNanos(t.clock).ok
  <2>1. ~SpellsNone.ok
    BY DEF SpellsNone
  <2>2. ~(dateDays(t.date).ok /\ clockNanos(t.clock).ok) => stampNanos(t) = SpellsNone
    BY Zenon DEF stampNanos
  <2> QED BY <2>1, <2>2, Zenon
<1>3. stampNanos(t) = Spells(v)
  BY <1>2, Zenon DEF stampNanos
<1>4. d \in Int /\ showDate(d) = t.date
  BY <1>1, <1>2, DayAgain
<1>5. f \in Instants /\ showClock(f) = ClockAgain(t.clock)
  BY <1>1, <1>2, ClockAgainIs
<1>6. ~((d - 1) * nanosPerDay < Lowest) /\ ~((d + 2) * nanosPerDay > -Lowest)
  OBVIOUS
<1> DEFINE D == nanosPerDay
           p == d * D
<1> HIDE DEF d, f
<1>7. D \in Nat \ {0} /\ p \in Int /\ f \in Int /\ 0 <= f /\ f < D
  BY <1>4, <1>5, Units DEF Instants
<1>8. (d - 1) * D = p - D /\ (d + 2) * D = p + 2 * D
  <2> HIDE DEF D
  <2> QED BY <1>4, <1>7 DEF p
<1>9. n \in Int64s /\ n \in Int
  <2>1. Lowest \in Int
    BY Counts
  <2>2. n = p + f
    OBVIOUS
  <2>3. ~(p - D < Lowest) /\ ~(p + 2 * D > -Lowest)
    <3> HIDE DEF p, D, n
    <3> QED BY <1>6, <1>8 DEF D
  <2> HIDE DEF n, p, D
  <2>4. n \in Int /\ Lowest <= n /\ n < -Lowest
    BY <1>7, <2>1, <2>2, <2>3
  <2> QED BY <2>4, Counts
<1>10. v = n
  <2> HIDE DEF n
  <2> QED BY <1>9, Int64Same
<1>11. floorDiv(n, D) = d
  <2>1. n = D * d + f
    <3>1. d * D = D * d
      <4> HIDE DEF D
      <4> QED BY <1>4, <1>7
    <3> QED BY <3>1
  <2>2. n \div D = d
    <3> HIDE DEF D, n
    <3> QED BY <1>4, <1>7, <1>9, <2>1, DivisionUnique
  <2> HIDE DEF n, D
  <2> QED BY <1>7, <1>9, <2>2, FloorDivision
<1>12. n - d * D = f
  <2>1. n = p + f
    OBVIOUS
  <2>2. (p + f) - p = f
    <3> HIDE DEF p, D
    <3> QED BY <1>7
  <2> QED BY <2>1, <2>2
<1> HIDE DEF n, v
<1>13. showStamp(n) = [date |-> showDate(d), clock |-> showClock(f)]
  BY <1>11, <1>12 DEF showStamp
<1>14. showStamp(n) = StampAgain(t)
  BY <1>1, <1>4, <1>5, <1>13 DEF StampAgain
<1>15. stampNanos(t).is = v
  BY <1>3 DEF Spells
<1> QED BY <1>3, <1>9, <1>10, <1>14, <1>15, Zenon

(* What texts there are of each type.                                      *)
Durations == [sign : {"", "+", "-"}, day : Fields, dated : BOOLEAN, clock : Fields]

\* What texts there are of each type.
LEMMA SpellingText ==
  ASSUME NEW places, NEW s \in Spellings(places)
  PROVE  /\ s.quoted \in BOOLEAN
         /\ s.type \in Numbers => s.text \in [n : Int, canonical : BOOLEAN]
         /\ s.type \in {"FLOAT32", "FLOAT64"} =>
               s.text \in [exact : BOOLEAN, neg : BOOLEAN, size : STRING]
         /\ s.type = "BYTES" => s.text \in Seq(0 .. 15)
         /\ s.type = "DATE" => s.text \in Dates
         /\ s.type = "LOCALTIME" => s.text \in Clocks
         /\ s.type = "ZONEDTIME" => s.text \in [clock : Clocks, offset : Zones]
         /\ s.type = "LOCALDATETIME" => s.text \in Stamps
         /\ s.type = "ZONEDDATETIME" => s.text \in [stamp : Stamps, offset : Zones]
         /\ s.type = "DURATION" => s.text \in Durations
         /\ s.type = "NODE" => s.text \in [table : STRING, offset : Int]
         /\ s.type = "EDGE" => s.text \in [table : STRING, src : Int, dst : Int]
         /\ s.type \in {"LIST", "PATH"} => s.text \in Seq(places)
<1> DEFINE A == STRING \ (Types \ {"NULL", "STRING"})
           Numb == [n : Int, canonical : BOOLEAN]
           Floats == [exact : BOOLEAN, neg : BOOLEAN, size : STRING]
           Hex == Seq(0 .. 15)
           ZonedTimes == [clock : Clocks, offset : Zones]
           ZonedStamps == [stamp : Stamps, offset : Zones]
           Nodes == [table : STRING, offset : Int]
           Edges == [table : STRING, src : Int, dst : Int]
           Lists == Seq(places)
           In(types, texts) == s.type \in types /\ s.text \in texts
           Goal == /\ s.quoted \in BOOLEAN
                   /\ s.type \in Numbers => s.text \in Numb
                   /\ s.type \in {"FLOAT32", "FLOAT64"} => s.text \in Floats
                   /\ s.type = "BYTES" => s.text \in Hex
                   /\ s.type = "DATE" => s.text \in Dates
                   /\ s.type = "LOCALTIME" => s.text \in Clocks
                   /\ s.type = "ZONEDTIME" => s.text \in ZonedTimes
                   /\ s.type = "LOCALDATETIME" => s.text \in Stamps
                   /\ s.type = "ZONEDDATETIME" => s.text \in ZonedStamps
                   /\ s.type = "DURATION" => s.text \in Durations
                   /\ s.type = "NODE" => s.text \in Nodes
                   /\ s.type = "EDGE" => s.text \in Edges
                   /\ s.type \in {"LIST", "PATH"} => s.text \in Lists
<1>1. ASSUME NEW types, NEW texts, s \in [type : types, quoted : BOOLEAN, text : texts]
      PROVE  In(types, texts) /\ s.quoted \in BOOLEAN
  BY <1>1
<1>2. \/ s \in [type : A, quoted : BOOLEAN, text : STRING]
      \/ s \in [type : {"BOOL"}, quoted : BOOLEAN, text : BOOLEAN]
      \/ s \in [type : {"INT8", "INT16", "INT32", "INT64", "UINT8", "UINT16", "UINT32", "UINT64"},
                quoted : BOOLEAN, text : Numb]
      \/ s \in [type : {"FLOAT32", "FLOAT64"}, quoted : BOOLEAN, text : Floats]
      \/ s \in [type : {"BYTES"}, quoted : BOOLEAN, text : Hex]
      \/ s \in [type : {"DATE"}, quoted : BOOLEAN, text : Dates]
      \/ s \in [type : {"LOCALTIME"}, quoted : BOOLEAN, text : Clocks]
      \/ s \in [type : {"ZONEDTIME"}, quoted : BOOLEAN, text : ZonedTimes]
      \/ s \in [type : {"LOCALDATETIME"}, quoted : BOOLEAN, text : Stamps]
      \/ s \in [type : {"ZONEDDATETIME"}, quoted : BOOLEAN, text : ZonedStamps]
      \/ s \in [type : {"DURATION"}, quoted : BOOLEAN, text : Durations]
      \/ s \in [type : {"NODE"}, quoted : BOOLEAN, text : Nodes]
      \/ s \in [type : {"EDGE"}, quoted : BOOLEAN, text : Edges]
      \/ s \in [type : {"LIST", "PATH"}, quoted : BOOLEAN, text : Lists]
  BY Zenon DEF Spellings, Durations
<1>3. s.quoted \in BOOLEAN
  <2> HIDE DEF A, Numb, Floats, Hex, ZonedTimes, ZonedStamps, Nodes, Edges, Lists, In
  <2> QED BY <1>1, <1>2, Zenon
<1>4. \/ In(A, STRING) \/ In({"BOOL"}, BOOLEAN)
      \/ In({"INT8", "INT16", "INT32", "INT64", "UINT8", "UINT16", "UINT32", "UINT64"}, Numb)
      \/ In({"FLOAT32", "FLOAT64"}, Floats) \/ In({"BYTES"}, Hex) \/ In({"DATE"}, Dates)
      \/ In({"LOCALTIME"}, Clocks) \/ In({"ZONEDTIME"}, ZonedTimes) \/ In({"LOCALDATETIME"}, Stamps)
      \/ In({"ZONEDDATETIME"}, ZonedStamps) \/ In({"DURATION"}, Durations) \/ In({"NODE"}, Nodes)
      \/ In({"EDGE"}, Edges) \/ In({"LIST", "PATH"}, Lists)
  <2> HIDE DEF A, Numb, Floats, Hex, ZonedTimes, ZonedStamps, Nodes, Edges, Lists, In
  <2> QED BY <1>1, <1>2, Zenon
<1>5. s.type \in A => s.type \notin Numbers \union {"FLOAT32", "FLOAT64", "BYTES", "DATE", "LOCALTIME",
         "ZONEDTIME", "LOCALDATETIME", "ZONEDDATETIME", "DURATION", "NODE", "EDGE", "LIST", "PATH"}
  BY DEF Types, Quoted, Bare, Numbers
<1>6. Goal
  <2> HIDE DEF A, Numb, Floats, Hex, ZonedTimes, ZonedStamps, Nodes, Edges, Lists
  <2> QED BY <1>3, <1>4, <1>5 DEF Numbers
<1> QED BY <1>6

\* What is shown for a text that is read, by its type.
LEMMA CanonicalIs ==
  ASSUME NEW s
  PROVE  /\ s.type = "LOCALTIME" => Canonical(s) = ClockAgain(s.text)
         /\ s.type = "ZONEDTIME" =>
               Canonical(s) = [clock |-> ClockAgain(s.text.clock), offset |-> OffsetAgain(s.text.offset)]
         /\ s.type = "LOCALDATETIME" => Canonical(s) = StampAgain(s.text)
         /\ s.type = "ZONEDDATETIME" =>
               Canonical(s) = [stamp |-> StampAgain(s.text.stamp), offset |-> OffsetAgain(s.text.offset)]
         /\ s.type = "FLOAT32" =>
               Canonical(s) = [s.text EXCEPT !.neg = @ /\ s.text.size # "NaN", !.size = Rounded(@)]
         /\ s.type = "FLOAT64" => Canonical(s) = [s.text EXCEPT !.neg = @ /\ s.text.size # "NaN"]
         /\ s.type \notin {"LOCALTIME", "ZONEDTIME", "LOCALDATETIME", "ZONEDDATETIME", "FLOAT32", "FLOAT64"} =>
               Canonical(s) = s.text
<1> DEFINE a == ClockAgain(s.text)
           b == [clock |-> ClockAgain(s.text.clock), offset |-> OffsetAgain(s.text.offset)]
           c == StampAgain(s.text)
           d == [stamp |-> StampAgain(s.text.stamp), offset |-> OffsetAgain(s.text.offset)]
           e == [s.text EXCEPT !.neg = @ /\ s.text.size # "NaN"]
           g == [s.text EXCEPT !.neg = @ /\ s.text.size # "NaN", !.size = Rounded(@)]
<1>1. Canonical(s) = CASE s.type = "LOCALTIME" -> a
                       [] s.type = "ZONEDTIME" -> b
                       [] s.type = "LOCALDATETIME" -> c
                       [] s.type = "ZONEDDATETIME" -> d
                       [] s.type = "FLOAT32" -> g
                       [] s.type = "FLOAT64" -> e
                       [] OTHER -> s.text
  BY Zenon DEF Canonical, ClockAgain, StampAgain, OffsetAgain
<1> HIDE DEF a, b, c, d, e, g
<1>2. /\ s.type = "LOCALTIME" => Canonical(s) = a
      /\ s.type = "ZONEDTIME" => Canonical(s) = b
      /\ s.type = "LOCALDATETIME" => Canonical(s) = c
      /\ s.type = "ZONEDDATETIME" => Canonical(s) = d
      /\ s.type = "FLOAT32" => Canonical(s) = g
      /\ s.type = "FLOAT64" => Canonical(s) = e
      /\ s.type \notin {"LOCALTIME", "ZONEDTIME", "LOCALDATETIME", "ZONEDDATETIME", "FLOAT32", "FLOAT64"} =>
            Canonical(s) = s.text
  BY <1>1
<1> QED BY <1>2, Zenon DEF a, b, c, d, e, g

(* The sums of a duration that is read are counts.                         *)
LEMMA SumType ==
  ASSUME NEW fs \in Fields, NEW units, \A u \in DOMAIN units : units[u] \in Int
  PROVE  Sum(fs, units) \in Int64s
<1> DEFINE N == Len(fs)
           t == [i \in DOMAIN fs |-> IF fs[i].unit \in DOMAIN units
                                     THEN fs[i].whole * units[fs[i].unit] ELSE 0]
<1>1. N \in Nat /\ DOMAIN fs = 1 .. N
      /\ \A i \in 1 .. N : fs[i] \in [whole : Nat, unit : STRING, frac : Fractions]
  BY Elements DEF Fields
<1>2. ASSUME NEW i \in 1 .. N PROVE t[i] \in Int
  <2>1. fs[i].whole \in Nat
    BY <1>1
  <2>2. t[i] = IF fs[i].unit \in DOMAIN units THEN fs[i].whole * units[fs[i].unit] ELSE 0
    BY <1>1
  <2>3. CASE fs[i].unit \in DOMAIN units
    <3> DEFINE x == fs[i].whole
               y == units[fs[i].unit]
    <3>1. x \in Nat /\ y \in Int
      BY <2>1, <2>3
    <3>2. t[i] = x * y
      BY <2>2, <2>3, Zenon
    <3> HIDE DEF x, y, t
    <3> QED BY <3>1, <3>2
  <2>4. CASE fs[i].unit \notin DOMAIN units
    BY <2>2, <2>4
  <2> QED BY <2>3, <2>4
<1>3. DOMAIN t = 1 .. N
  BY <1>1
<1>4. Sum(fs, units) = Int64(Total(t))
  BY DEF Sum
<1> HIDE DEF t, N
<1>5. Total(t) \in Int
  BY <1>1, <1>2, <1>3, TotalIsInt
<1> QED BY <1>4, <1>5, Int64Type

\* The months and the nanoseconds of a duration that is read are counts.
LEMMA DurationCounts ==
  ASSUME NEW t \in Durations, WellFormed(t)
  PROVE  Sum(t.day, MonthUnits) \in Int64s /\ NanosOf(t) \in Int64s
<1>1. t.day \in Fields /\ t.clock \in Fields
  BY DEF Durations
<1>2. /\ \A u \in DOMAIN MonthUnits : MonthUnits[u] \in Int
      /\ \A u \in DOMAIN DayUnits : DayUnits[u] \in Int
      /\ \A u \in DOMAIN ClockUnits : ClockUnits[u] \in Int
  <2>1. 7 * nanosPerDay \in Int /\ nanosPerDay \in Int /\ nanosPerHour \in Int /\ nanosPerMinute \in Int
        /\ nanosPerSecond \in Int
    BY Units
  <2>2. \A u \in DOMAIN MonthUnits : MonthUnits[u] \in Int
    BY DEF MonthUnits
  <2>3. \A u \in DOMAIN DayUnits : DayUnits[u] \in Int
    BY <2>1 DEF DayUnits
  <2>4. \A u \in DOMAIN ClockUnits : ClockUnits[u] \in Int
    BY <2>1 DEF ClockUnits
  <2> QED BY <2>2, <2>3, <2>4
<1>3. Sum(t.day, MonthUnits) \in Int64s /\ Sum(t.day, DayUnits) \in Int64s
      /\ Sum(t.clock, ClockUnits) \in Int64s
  BY <1>1, <1>2, SumType
<1>4. Seconds(t.clock) \in Int
  <2> DEFINE N == Len(t.clock)
             f == [i \in DOMAIN t.clock |-> fraction(t.clock[i].frac)]
  <2>1. N \in Nat /\ DOMAIN t.clock = 1 .. N
        /\ \A i \in 1 .. N : t.clock[i] \in [whole : Nat, unit : STRING, frac : Fractions]
    BY <1>1, Elements DEF Fields
  <2>2. ASSUME NEW i \in 1 .. N PROVE f[i] \in Int
    <3>1. t.clock[i].frac \in Fractions
      BY <2>1
    <3>2. IsFraction(t.clock[i].frac)
      BY <2>1, Zenon DEF WellFormed
    <3>3. fraction(t.clock[i].frac) \in Int
      <4> DEFINE frac == t.clock[i].frac
      <4> HIDE DEF frac
      <4>1. frac \in Fractions /\ IsFraction(frac)
        BY <3>1, <3>2 DEF frac
      <4>2. fraction(frac) \in Int
        BY <4>1, FractionBelowSecond
      <4> QED BY <4>2 DEF frac
    <3> QED BY <2>1, <3>3
  <2>3. DOMAIN f = 1 .. N
    BY <2>1
  <2>4. Seconds(t.clock) = Total(f)
    BY DEF Seconds
  <2> HIDE DEF f, N
  <2> QED BY <2>1, <2>2, <2>3, <2>4, TotalIsInt
<1> DEFINE a == Sum(t.day, DayUnits)
           b == Sum(t.clock, ClockUnits)
           c == Seconds(t.clock)
<1>5. NanosOf(t) = Int64(a + b + c)
  BY DEF NanosOf
<1> HIDE DEF a, b, c
<1>6. a + b + c \in Int
  <2>1. a \in Int /\ b \in Int /\ c \in Int
    BY <1>3, <1>4, Counts DEF a, b, c
  <2> QED BY <2>1
<1> QED BY <1>3, <1>5, <1>6, Int64Type

\* A duration that is read is shown as one that reads as the same.
LEMMA DurationAgain ==
  ASSUME NEW t \in Durations, parseDuration(t).ok, parseDuration(t).is[2] # Lowest
  PROVE  parseDuration(Show(parseDuration(t).is).text) = Spells(parseDuration(t).is)
<1> DEFINE months == Sum(t.day, MonthUnits)
           nanos == NanosOf(t)
           r == parseDuration(t)
           m == Signed(t, months)
           n == Signed(t, nanos)
<1>1. /\ ~WellFormed(t) \/ (months # 0 /\ nanos # 0) => r = SpellsNone
      /\ WellFormed(t) /\ nanos = 0 /\ (months # 0 \/ SawMonths(t)) => r = Spells(<<"YearMonth", m>>)
      /\ WellFormed(t) /\ months = 0 /\ ~(nanos = 0 /\ SawMonths(t)) =>
            r = Spells(<<"time.Duration", n>>)
  BY DurationIs, Zenon
<1>2. ~SpellsNone.ok
  BY DEF SpellsNone
<1>3. WellFormed(t)
  BY <1>1, <1>2, Zenon
<1>4. months \in Int64s /\ nanos \in Int64s
  BY <1>3, DurationCounts
<1>5. ASSUME NEW x \in Int64s PROVE Signed(t, x) \in Int64s
  <2>1. -x \in Int
    BY Counts
  <2>2. Int64(-x) \in Int64s
    BY <2>1, Int64Type
  <2> QED BY <2>2 DEF Signed
<1>6. m \in Int64s /\ n \in Int64s
  <2> HIDE DEF months, nanos
  <2> QED BY <1>4, <1>5
<1>7. r = Spells(<<"YearMonth", m>>) \/ r = Spells(<<"time.Duration", n>>)
  <2>1. months = 0 \/ nanos = 0
    BY <1>1, <1>2, Zenon
  <2> DEFINE p == Spells(<<"YearMonth", m>>)
             q == Spells(<<"time.Duration", n>>)
             w == WellFormed(t)
             saw == SawMonths(t)
  <2> HIDE DEF months, nanos, r, p, q, w, saw
  <2>2. /\ w /\ nanos = 0 /\ (months # 0 \/ saw) => r = p
        /\ w /\ months = 0 /\ ~(nanos = 0 /\ saw) => r = q
    BY <1>1 DEF p, q, w, saw
  <2>3. w
    BY <1>3 DEF w
  <2>4. r = p \/ r = q
    BY <2>1, <2>2, <2>3
  <2> QED BY <2>4 DEF p, q
<1>8. r.is[2] # Lowest
  OBVIOUS
<1> HIDE DEF m, n, r
<1>9. CASE r = Spells(<<"YearMonth", m>>)
  <2>1. r.is = <<"YearMonth", m>>
    BY <1>9 DEF Spells
  <2> DEFINE w == r.is
  <2>2. w[1] = "YearMonth" /\ w[2] = m
    BY <2>1
  <2> HIDE DEF w
  <2>3. Show(w).text = showMonths(m)
    BY <2>2, ShowIs
  <2>4. parseDuration(showMonths(m)) = Spells(<<"YearMonth", m>>)
    BY <1>6, <1>8, <2>2, MonthsReadBack DEF w
  <2> QED BY <1>9, <2>1, <2>3, <2>4, Zenon DEF w, r
<1>10. CASE r = Spells(<<"time.Duration", n>>)
  <2>1. r.is = <<"time.Duration", n>>
    BY <1>10 DEF Spells
  <2> DEFINE w == r.is
  <2>2. w[1] = "time.Duration" /\ w[2] = n
    BY <2>1
  <2> HIDE DEF w
  <2>3. Show(w).text = showNanos(n)
    BY <2>2, ShowIs
  <2>4. parseDuration(showNanos(n)) = Spells(<<"time.Duration", n>>)
    BY <1>6, <1>8, <2>2, NanosReadBack DEF w
  <2> QED BY <1>10, <2>1, <2>3, <2>4, Zenon DEF w, r
<1> QED BY <1>7, <1>9, <1>10

(* What a spelling that is read is: of a type there is, quoted as it       *)
(* should, and for a scalar what its text is read as.                      *)
LEMMA ReadIsScalar ==
  ASSUME NEW s, NEW inside, Payload(s, inside).ok
  PROVE  /\ s.type \in Types
         /\ s.type \notin {"NULL", "LIST", "PATH"} =>
               /\ QuotedAsItShould(s)
               /\ Payload(s, inside) = scalar(s.type, s.text)
         /\ s.type = "NULL" => s.text = "" /\ Payload(s, inside) = Spells(<<"nil">>)
<1>1. ~SpellsNone.ok
  BY DEF SpellsNone
<1>2. s.type \in Types
  BY <1>1, PayloadIs, Zenon
<1>3. ASSUME s.type \notin {"NULL", "LIST", "PATH"}
      PROVE  QuotedAsItShould(s) /\ Payload(s, inside) = scalar(s.type, s.text)
  <2>1. s.type \in Types \ {"NULL", "LIST", "PATH"}
    BY <1>2, <1>3
  <2> QED BY <1>1, <2>1, PayloadIs, Zenon
<1>4. s.type = "NULL" => s.text = "" /\ Payload(s, inside) = Spells(<<"nil">>)
  BY <1>1, PayloadIs, Zenon
<1> QED BY <1>2, <1>3, <1>4, Zenon

\* What is read of a type that needs quotes has them.
LEMMA QuotedWhenRead ==
  ASSUME NEW s, NEW inside, Payload(s, inside).ok, s.type \in Quoted
  PROVE  s.quoted
<1>1. s.type \notin {"NULL", "LIST", "PATH"}
  BY DEF Quoted
<1> QED BY <1>1, ReadIsScalar, Zenon DEF QuotedAsItShould

\* An integer that is read is in its bounds, and was written the one way
\* there is.
LEMMA NumberRead ==
  ASSUME NEW ty \in Numbers, NEW t \in [n : Int, canonical : BOOLEAN], ReadInteger(ty, t).ok
  PROVE  /\ ReadInteger(ty, t).is = <<"int64", t.n>> /\ t.n \in bounds[ty]
         /\ t = [n |-> t.n, canonical |-> TRUE]
<1>1. ~SpellsNone.ok
  BY DEF SpellsNone
<1>2. ~(t.canonical /\ t.n \in Int64s /\ t.n \in bounds[ty]) => ReadInteger(ty, t) = SpellsNone
  BY Zenon DEF ReadInteger
<1>3. t.canonical /\ t.n \in Int64s /\ t.n \in bounds[ty]
  BY <1>1, <1>2, Zenon
<1>4. ReadInteger(ty, t) = Spells(<<"int64", Int64(t.n)>>)
  BY <1>3, Zenon DEF ReadInteger
<1>5. Int64(t.n) = t.n
  BY <1>3, Int64Same
<1>6. ReadInteger(ty, t).is = <<"int64", Int64(t.n)>>
  BY <1>4, SpellsIs, Zenon
<1>7. t.canonical = TRUE
  <2>1. t.canonical \in BOOLEAN
    OBVIOUS
  <2> QED BY <1>3, <2>1, Zenon
<1>8. t = [n |-> t.n, canonical |-> TRUE]
  BY <1>7
<1> QED BY <1>3, <1>5, <1>6, <1>8, Zenon

FloatTexts == [exact : BOOLEAN, neg : BOOLEAN, size : STRING]

\* A float is read exactly, and as what is written.
LEMMA FloatRead ==
  ASSUME NEW t \in FloatTexts, parseFloat(t).ok
  PROVE  /\ t.exact = TRUE /\ t.size \in STRING /\ t.size # "beyond"
         /\ parseFloat(t) = Spells(<<"float64", t.neg, t.size>>)
<1>1. ~SpellsNone.ok
  BY DEF SpellsNone
<1>2. ~(t.exact /\ t.size # "beyond") => parseFloat(t) = SpellsNone
  BY Zenon DEF parseFloat
<1>3. t.exact /\ t.size # "beyond"
  BY <1>1, <1>2, Zenon
<1>4. t.exact \in BOOLEAN /\ t.size \in STRING
  BY DEF FloatTexts
<1> QED BY <1>3, <1>4, Zenon DEF parseFloat

\* Rounding goes once, never past what a float64 holds, and never to or
\* from what is no number.
LEMMA RoundedIs ==
  ASSUME NEW size \in STRING, size # "beyond"
  PROVE  /\ Rounded(size) \in STRING /\ Rounded(size) # "beyond"
         /\ Rounded(size) = "NaN" <=> size = "NaN"
         /\ Rounded(Rounded(size)) = Rounded(size)
<1>1. CASE size \in DOMAIN Single
  <2>1. size # "NaN"
    BY <1>1, SingleAssumption
  <2>2. Single[size] \in STRING /\ Single[size] \notin {"NaN", "beyond"} /\ Single[size] \notin DOMAIN Single
    BY <1>1, SingleAssumption
  <2>3. Rounded(size) = Single[size] /\ Rounded(Single[size]) = Single[size]
    BY <1>1, <2>2, Zenon DEF Rounded
  <2> QED BY <2>1, <2>2, <2>3
<1>2. CASE size \notin DOMAIN Single
  BY <1>2 DEF Rounded
<1> QED BY <1>1, <1>2

\* A FLOAT32 is read as what it is rounded to.
LEMMA SingleRead ==
  ASSUME NEW t \in FloatTexts, parseSingle(t).ok
  PROVE  /\ t.exact = TRUE /\ t.size \in STRING /\ t.size # "beyond"
         /\ parseSingle(t) = Spells(<<"float64", t.neg, Rounded(t.size)>>)
<1> DEFINE f == parseFloat(t)
<1>1. ~SpellsNone.ok
  BY DEF SpellsNone
<1>2. f.ok /\ parseSingle(t) = Spells(<<"float64", f.is[2], Rounded(f.is[3])>>)
  BY <1>1, Zenon DEF parseSingle
<1>3. t.exact = TRUE /\ t.size \in STRING /\ t.size # "beyond" /\ f = Spells(<<"float64", t.neg, t.size>>)
  BY <1>2, FloatRead, Zenon
<1>4. f.is = <<"float64", t.neg, t.size>>
  BY <1>3, SpellsIs, Zenon
<1>5. f.is[2] = t.neg /\ f.is[3] = t.size
  <2> HIDE DEF f
  <2> QED BY <1>4
<1> QED BY <1>2, <1>3, <1>5, Zenon

\* The three fields of a float with another sign and magnitude.
LEMMA FloatReset ==
  ASSUME NEW t \in FloatTexts, NEW neg, NEW size
  PROVE  [t EXCEPT !.neg = neg, !.size = size] = [exact |-> t.exact, neg |-> neg, size |-> size]
<1> DEFINE u == [t EXCEPT !.neg = neg]
<1>1. u = [exact |-> t.exact, neg |-> neg, size |-> t.size]
  BY DEF FloatTexts
<1> HIDE DEF u
<1>2. [u EXCEPT !.size = size] = [exact |-> t.exact, neg |-> neg, size |-> size]
  BY <1>1
<1> QED BY <1>2 DEF u

\* How a float is shown.
LEMMA FloatShown ==
  ASSUME NEW neg, NEW size
  PROVE  Show(<<"float64", neg, size>>).text = [exact |-> TRUE, neg |-> neg /\ size # "NaN", size |-> size]
<1> DEFINE v == <<"float64", neg, size>>
<1>1. v[1] = "float64" /\ v[2] = neg /\ v[3] = size
  OBVIOUS
<1> HIDE DEF v
<1>2. Show(v).text = showFloat(v)
  BY <1>1, ShowIs, Zenon
<1> QED BY <1>1, <1>2, Zenon DEF v, showFloat

\* What is shown for a FLOAT32 reads as that FLOAT32.
LEMMA SingleReadsAgain ==
  ASSUME NEW t \in FloatTexts, parseSingle(t).ok, t.size # "NaN"
  PROVE  parseSingle(Show(parseSingle(t).is).text) = Spells(parseSingle(t).is)
<1> DEFINE x == Rounded(t.size)
           v == <<"float64", t.neg, x>>
           u == [exact |-> TRUE, neg |-> t.neg, size |-> x]
<1>1. parseSingle(t) = Spells(v) /\ t.size \in STRING /\ t.size # "beyond"
  BY SingleRead, Zenon
<1>2. parseSingle(t).is = v
  BY <1>1, SpellsIs, Zenon
<1>3. x # "NaN" /\ x # "beyond" /\ Rounded(x) = x
  BY <1>1, RoundedIs, Zenon
<1>4. Show(v).text = [exact |-> TRUE, neg |-> t.neg /\ x # "NaN", size |-> x]
  BY FloatShown, Zenon
<1>5. t.neg \in BOOLEAN
  BY DEF FloatTexts
<1>6. (t.neg /\ x # "NaN") = t.neg
  <2> HIDE DEF x
  <2> QED BY <1>3, <1>5, Zenon
<1>7. Show(v).text = u
  BY <1>4, <1>6, Zenon
<1>8. u.exact = TRUE /\ u.neg = t.neg /\ u.size = x
  <2> HIDE DEF x
  <2> QED OBVIOUS
<1> HIDE DEF x, u
<1>9. parseFloat(u) = Spells(v)
  BY <1>3, <1>8, Zenon DEF parseFloat
<1>10. parseFloat(u).ok /\ parseFloat(u).is = v
  BY <1>9 DEF Spells
<1>11. parseFloat(u).is[2] = t.neg /\ parseFloat(u).is[3] = x
  BY <1>10
<1>12. parseSingle(u) = Spells(v)
  BY <1>3, <1>10, <1>11, Zenon DEF parseSingle
<1> QED BY <1>2, <1>7, <1>12, Zenon

\* A node that is read is shown as it was written, and has a row.
LEMMA NodeRead ==
  ASSUME NEW t \in [table : STRING, offset : Int], nodeAt(t).ok
  PROVE  Show(nodeAt(t).is).text = t /\ t.offset \in Rows
<1> DEFINE v == <<"NodeAt", t.table, t.offset>>
<1>1. ~SpellsNone.ok
  BY DEF SpellsNone
<1>2. t.offset \in Rows /\ nodeAt(t) = Spells(v)
  BY <1>1, Zenon DEF nodeAt
<1>3. nodeAt(t).is = v
  BY <1>2, SpellsIs, Zenon
<1>4. v[1] = "NodeAt" /\ v[2] = t.table /\ v[3] = t.offset
  OBVIOUS
<1> HIDE DEF v
<1>5. Show(v).text = [table |-> v[2], offset |-> v[3]]
  BY <1>4, ShowIs, Zenon
<1>6. t = [table |-> t.table, offset |-> t.offset]
  OBVIOUS
<1> QED BY <1>2, <1>3, <1>4, <1>5, <1>6, Zenon

\* An edge that is read is shown as it was written, and has two rows.
LEMMA EdgeRead ==
  ASSUME NEW t \in [table : STRING, src : Int, dst : Int], edgeAt(t).ok
  PROVE  Show(edgeAt(t).is).text = t /\ t.src \in Rows /\ t.dst \in Rows
<1> DEFINE v == <<"EdgeAt", t.table, t.src, t.dst>>
<1>1. ~SpellsNone.ok
  BY DEF SpellsNone
<1>2. t.src \in Rows /\ t.dst \in Rows /\ edgeAt(t) = Spells(v)
  BY <1>1, Zenon DEF edgeAt
<1>3. edgeAt(t).is = v
  BY <1>2, SpellsIs, Zenon
<1>4. v[1] = "EdgeAt" /\ v[2] = t.table /\ v[3] = t.src /\ v[4] = t.dst
  OBVIOUS
<1> HIDE DEF v
<1>5. Show(v).text = [table |-> v[2], src |-> v[3], dst |-> v[4]]
  BY <1>4, ShowIs, Zenon
<1>6. t = [table |-> t.table, src |-> t.src, dst |-> t.dst]
  OBVIOUS
<1> QED BY <1>2, <1>3, <1>4, <1>5, <1>6, Zenon

(* What is read is shown as it was written, or as what it is rounded to.   *)
LEMMA ShownAsWritten ==
  ASSUME NEW places, NEW s \in Spellings(places), NEW inside, Payload(s, inside).ok,
         s.type \notin {"DURATION", "LIST", "PATH"}, ~Wraps(s)
  PROVE  Show(Payload(s, inside).is).text = Canonical(s)
<1> DEFINE r == Payload(s, inside)
           v == r.is
           t == s.text
           Goal == Show(v).text = Canonical(s)
           Odd == {"LOCALTIME", "ZONEDTIME", "LOCALDATETIME", "ZONEDDATETIME", "FLOAT32",
                   "FLOAT64"}
<1>1. CASE s.type = "NULL"
  <2>1. s.text = "" /\ v = <<"nil">>
    BY <1>1, ReadIsScalar, SpellsIs, Zenon
  <2>2. v[1] = "nil"
    <3> HIDE DEF v
    <3> QED BY <2>1
  <2>3. Show(v).text = ""
    BY <2>2, ShowIs, Zenon
  <2>4. Canonical(s) = s.text
    BY <1>1, CanonicalIs
  <2> QED BY <2>1, <2>3, <2>4, Zenon
<1>2. ASSUME s.type # "NULL"
      PROVE  r = scalar(s.type, t) /\ s.type \in Types \ {"NULL", "LIST", "PATH"} /\ r.ok
  <2>1. s.type \notin {"NULL", "LIST", "PATH"}
    BY <1>2
  <2>2. r = scalar(s.type, t) /\ s.type \in Types /\ r.ok
    BY <2>1, ReadIsScalar, Zenon
  <2> QED BY <2>1, <2>2
<1>3. CASE s.type = "BOOL"
  <2>1. r = Spells(<<"bool", t>>)
    BY <1>2, <1>3, ScalarIs
  <2>2. v = <<"bool", t>>
    BY <2>1, SpellsIs, Zenon
  <2>3. v[1] = "bool" /\ v[2] = t
    <3> HIDE DEF v
    <3> QED BY <2>2
  <2>4. Show(v).text = t
    BY <2>3, ShowIs, Zenon
  <2>5. Canonical(s) = t
    BY <1>3, CanonicalIs
  <2> QED BY <2>4, <2>5, Zenon
<1>4. CASE s.type = "STRING"
  <2>1. r = Spells(<<"string", t>>)
    BY <1>2, <1>4, ScalarIs
  <2>2. v = <<"string", t>>
    BY <2>1, SpellsIs, Zenon
  <2>3. v[1] = "string" /\ v[2] = t
    <3> HIDE DEF v
    <3> QED BY <2>2
  <2>4. Show(v).text = t
    BY <2>3, ShowIs, Zenon
  <2>5. Canonical(s) = t
    BY <1>4, CanonicalIs
  <2> QED BY <2>4, <2>5, Zenon
<1>5. CASE s.type = "BYTES"
  <2>1. r = fromHexits(t) /\ r.ok
    BY <1>2, <1>5, ScalarIs
  <2>2. t \in Seq(0 .. 15)
    BY <1>5, SpellingText
  <2> HIDE DEF t, r
  <2>3. v[1] = "[]byte" /\ hexits(v[2]) = t
    BY <2>1, <2>2, BytesShownAgain
  <2>4. Show(v).text = hexits(v[2])
    BY <2>3, ShowIs, Zenon
  <2>5. Canonical(s) = t
    BY <1>5, CanonicalIs DEF t
  <2> QED BY <2>3, <2>4, <2>5, Zenon DEF r
<1>6. CASE s.type = "FLOAT64"
  <2>1. r = parseFloat(t) /\ r.ok
    BY <1>2, <1>6, ScalarIs
  <2>2. t \in FloatTexts
    BY <1>6, SpellingText DEF FloatTexts
  <2>3. Canonical(s) = [t EXCEPT !.neg = @ /\ t.size # "NaN"]
    BY <1>6, CanonicalIs, Zenon
  <2> HIDE DEF t, r
  <2> DEFINE neg == t.neg /\ t.size # "NaN"
             size == t.size
  <2>4. t.exact = TRUE /\ t.size \in STRING /\ t.size # "beyond" /\ r = Spells(<<"float64", t.neg, size>>)
    BY <2>1, <2>2, FloatRead, Zenon
  <2>5. v = <<"float64", t.neg, size>>
    BY <2>4, SpellsIs, Zenon
  <2>6. Show(v).text = [exact |-> TRUE, neg |-> t.neg /\ size # "NaN", size |-> size]
    <3>1. Show(<<"float64", t.neg, size>>).text = [exact |-> TRUE, neg |-> t.neg /\ size # "NaN", size |-> size]
      BY FloatShown, Zenon
    <3> HIDE DEF v, size
    <3> QED BY <2>5, <3>1, Zenon
  <2>7. (t.neg /\ size # "NaN") = neg
    BY <2>4, Zenon
  <2>8. [t EXCEPT !.neg = @ /\ t.size # "NaN"] = [t EXCEPT !.neg = neg, !.size = size]
    BY <2>2 DEF FloatTexts
  <2>9. [t EXCEPT !.neg = neg, !.size = size] = [exact |-> TRUE, neg |-> neg, size |-> size]
    <3> DEFINE R(e) == [exact |-> e, neg |-> neg, size |-> size]
    <3>1. [t EXCEPT !.neg = neg, !.size = size] = R(t.exact)
      <4> HIDE DEF neg, size
      <4> QED BY <2>2, FloatReset, Zenon
    <3>2. R(t.exact) = R(TRUE)
      <4> HIDE DEF R
      <4> QED BY <2>4, Zenon
    <3> QED BY <3>1, <3>2, Zenon
  <2>10. Show(v).text = [exact |-> TRUE, neg |-> neg, size |-> size]
    <3> HIDE DEF v
    <3> QED BY <2>6, <2>7, Zenon
  <2> HIDE DEF neg, size, v
  <2> QED BY <2>3, <2>8, <2>9, <2>10, Zenon DEF r, v
<1>7. CASE s.type = "DATE"
  <2>1. r = parseDate(t) /\ r.ok
    BY <1>2, <1>7, ScalarIs
  <2>2. t \in Dates
    BY <1>7, SpellingText
  <2>3. Canonical(s) = t
    BY <1>7, CanonicalIs
  <2> HIDE DEF t, r
  <2>4. dateDays(t).ok /\ r = Spells(<<"Date", dateDays(t).is>>)
    <3>1. ~SpellsNone.ok
      BY DEF SpellsNone
    <3> QED BY <2>1, <3>1, Zenon DEF parseDate
  <2>5. v = <<"Date", dateDays(t).is>>
    BY <2>4, SpellsIs, Zenon
  <2>6. v[1] = "Date" /\ v[2] = dateDays(t).is
    <3> HIDE DEF v
    <3> QED BY <2>5
  <2>7. Show(v).text = showDate(v[2])
    BY <2>6, ShowIs, Zenon
  <2>8. showDate(dateDays(t).is) = t
    BY <2>2, <2>4, DayAgain
  <2> QED BY <2>3, <2>6, <2>7, <2>8, Zenon DEF r
<1>8. CASE s.type = "LOCALTIME"
  <2>1. r = parseLocalTime(t) /\ r.ok
    BY <1>2, <1>8, ScalarIs
  <2>2. t \in Clocks
    BY <1>8, SpellingText
  <2>3. Canonical(s) = ClockAgain(t)
    BY <1>8, CanonicalIs
  <2> HIDE DEF t, r
  <2>4. clockNanos(t).ok /\ r = Spells(<<"LocalTime", clockNanos(t).is>>)
    <3>1. ~SpellsNone.ok
      BY DEF SpellsNone
    <3> QED BY <2>1, <3>1, Zenon DEF parseLocalTime
  <2>5. v = <<"LocalTime", clockNanos(t).is>>
    BY <2>4, SpellsIs, Zenon
  <2>6. v[1] = "LocalTime" /\ v[2] = clockNanos(t).is
    <3> HIDE DEF v
    <3> QED BY <2>5
  <2>7. Show(v).text = showClock(v[2])
    BY <2>6, ShowIs, Zenon
  <2>8. showClock(clockNanos(t).is) = ClockAgain(t)
    BY <2>2, <2>4, ClockAgainIs
  <2> QED BY <2>3, <2>6, <2>7, <2>8, Zenon DEF r
<1>9. CASE s.type = "ZONEDTIME"
  <2>1. r = parseZonedTime(t) /\ r.ok
    BY <1>2, <1>9, ScalarIs
  <2>2. t \in [clock : Clocks, offset : Zones]
    BY <1>9, SpellingText
  <2>3. Canonical(s) = [clock |-> ClockAgain(t.clock), offset |-> OffsetAgain(t.offset)]
    BY <1>9, CanonicalIs, Zenon
  <2>4. t.clock \in Clocks /\ t.offset \in Zones
    BY <2>2
  <2> HIDE DEF t, r
  <2> DEFINE n == clockNanos(t.clock).is
             o == splitOffset(t.offset).is
  <2>5. clockNanos(t.clock).ok /\ splitOffset(t.offset).ok /\ r = Spells(<<"ZonedTime", n, o>>)
    <3>1. ~SpellsNone.ok
      BY DEF SpellsNone
    <3> QED BY <2>1, <3>1, Zenon DEF parseZonedTime
  <2>6. v = <<"ZonedTime", n, o>>
    BY <2>5, SpellsIs, Zenon
  <2>7. v[1] = "ZonedTime" /\ v[2] = n /\ v[3] = o
    <3> HIDE DEF v, n, o
    <3> QED BY <2>6
  <2>8. Show(v).text = [clock |-> showClock(v[2]), offset |-> showOffset(v[3])]
    BY <2>7, ShowIs, Zenon
  <2>9. showClock(n) = ClockAgain(t.clock) /\ showOffset(o) = OffsetAgain(t.offset)
    BY <2>4, <2>5, ClockAgainIs, OffsetShownAgain
  <2> HIDE DEF n, o, v
  <2> QED BY <2>3, <2>7, <2>8, <2>9, Zenon DEF r, v
<1>10. CASE s.type = "LOCALDATETIME"
  <2>1. r = parseLocalDateTime(t) /\ r.ok
    BY <1>2, <1>10, ScalarIs
  <2>2. t \in Stamps
    BY <1>10, SpellingText
  <2>3. Canonical(s) = StampAgain(t)
    BY <1>10, CanonicalIs
  <2> DEFINE day == dateDays(t.date).is
  <2>4. ~((day - 1) * nanosPerDay < Lowest) /\ ~((day + 2) * nanosPerDay > -Lowest)
    <3> DEFINE low == (day - 1) * nanosPerDay < Lowest
               high == (day + 2) * nanosPerDay > -Lowest
    <3>1. s.type \in {"LOCALDATETIME", "ZONEDDATETIME"} /\ (low \/ high) => Wraps(s)
      BY <1>10 DEF Wraps
    <3> HIDE DEF low, high
    <3>2. ~(low \/ high)
      BY <1>10, <3>1
    <3> QED BY <3>2 DEF low, high
  <2> HIDE DEF t, r
  <2>5. stampNanos(t).ok /\ r = Spells(<<"LocalDateTime", stampNanos(t).is>>)
    <3>1. ~SpellsNone.ok
      BY DEF SpellsNone
    <3> QED BY <2>1, <3>1, Zenon DEF parseLocalDateTime
  <2>6. v = <<"LocalDateTime", stampNanos(t).is>>
    BY <2>5, SpellsIs, Zenon
  <2>7. v[1] = "LocalDateTime" /\ v[2] = stampNanos(t).is
    <3> HIDE DEF v
    <3> QED BY <2>6
  <2>8. Show(v).text = showStamp(v[2])
    BY <2>7, ShowIs, Zenon
  <2>9. showStamp(stampNanos(t).is) = StampAgain(t)
    BY <2>2, <2>4, <2>5, StampShownAgain
  <2> QED BY <2>3, <2>7, <2>8, <2>9, Zenon DEF r
<1>11. CASE s.type = "ZONEDDATETIME"
  <2>1. r = parseZonedDateTime(t) /\ r.ok
    BY <1>2, <1>11, ScalarIs
  <2>2. t \in [stamp : Stamps, offset : Zones]
    BY <1>11, SpellingText
  <2>3. Canonical(s) = [stamp |-> StampAgain(t.stamp), offset |-> OffsetAgain(t.offset)]
    BY <1>11, CanonicalIs, Zenon
  <2>4. t.stamp \in Stamps /\ t.offset \in Zones
    BY <2>2
  <2> DEFINE day == dateDays(t.stamp.date).is
  <2>5. ~((day - 1) * nanosPerDay < Lowest) /\ ~((day + 2) * nanosPerDay > -Lowest)
    <3> DEFINE low == (day - 1) * nanosPerDay < Lowest
               high == (day + 2) * nanosPerDay > -Lowest
    <3>1. s.type \in {"LOCALDATETIME", "ZONEDDATETIME"} /\ (low \/ high) => Wraps(s)
      BY <1>11 DEF Wraps
    <3> HIDE DEF low, high
    <3>2. ~(low \/ high)
      BY <1>11, <3>1
    <3> QED BY <3>2 DEF low, high
  <2> HIDE DEF t, r
  <2> DEFINE x == stampNanos(t.stamp).is
             o == splitOffset(t.offset).is
             back == o * nanosPerMinute
             n == Int64(x - back)
  <2>6. stampNanos(t.stamp).ok /\ splitOffset(t.offset).ok /\ r = Spells(<<"ZonedDateTime", n, o>>)
    <3>1. ~SpellsNone.ok
      BY DEF SpellsNone
    <3> QED BY <2>1, <3>1, Zenon DEF parseZonedDateTime
  <2>7. v = <<"ZonedDateTime", n, o>>
    BY <2>6, SpellsIs, Zenon
  <2>8. v[1] = "ZonedDateTime" /\ v[2] = n /\ v[3] = o
    <3> HIDE DEF v, n, o
    <3> QED BY <2>7
  <2>9. Show(v).text = showZoned(v[2], v[3])
    BY <2>8, ShowIs, Zenon
  <2>10. x \in Int64s /\ showStamp(x) = StampAgain(t.stamp)
    BY <2>4, <2>5, <2>6, StampShownAgain
  <2>11. o \in Int /\ showOffset(o) = OffsetAgain(t.offset)
    BY <2>4, <2>6, OffsetShownAgain
  <2>12. Int64(n + back) = x
    <3>1. x \in Int
      BY <2>10, Counts
    <3> HIDE DEF x, o
    <3>2. back \in Int
      <4>1. nanosPerMinute \in Int
        BY Units
      <4> QED BY <2>11, <4>1
    <3> HIDE DEF back
    <3>3. -back \in Int /\ x + (-back) = x - back
      BY <3>1, <3>2
    <3>4. Int64(x + (-back)) \in Int64s /\ Int64(Int64(x + (-back)) - (-back)) = x
      BY <2>10, <3>3, Int64Turn
    <3>5. n \in Int /\ Int64(n - (-back)) = x
      BY <3>3, <3>4, Counts
    <3> HIDE DEF n
    <3>6. n - (-back) = n + back
      BY <3>2, <3>5
    <3> QED BY <3>5, <3>6
  <2>13. showZoned(n, o) = [stamp |-> showStamp(x), offset |-> showOffset(o)]
    <3> HIDE DEF n, x, o
    <3> QED BY <2>12, Zenon DEF showZoned
  <2> HIDE DEF n, o, x, v
  <2> QED BY <2>3, <2>8, <2>9, <2>10, <2>11, <2>13, Zenon DEF r, v
<1>12. CASE s.type = "NODE"
  <2>1. r = nodeAt(t) /\ r.ok
    BY <1>2, <1>12, ScalarIs
  <2>2. t \in [table : STRING, offset : Int]
    BY <1>12, SpellingText
  <2>3. Canonical(s) = t
    BY <1>12, CanonicalIs
  <2> QED BY <2>1, <2>2, <2>3, NodeRead, Zenon
<1>13. CASE s.type = "EDGE"
  <2>1. r = edgeAt(t) /\ r.ok
    BY <1>2, <1>13, ScalarIs
  <2>2. t \in [table : STRING, src : Int, dst : Int]
    BY <1>13, SpellingText
  <2>3. Canonical(s) = t
    BY <1>13, CanonicalIs
  <2> QED BY <2>1, <2>2, <2>3, EdgeRead, Zenon
<1>14. CASE s.type \in Numbers
  <2>1. r = ReadInteger(s.type, t) /\ r.ok
    <3>1. s.type # "NULL"
      BY <1>14 DEF Numbers
    <3> QED BY <1>2, <1>14, <3>1, ScalarIs, Zenon
  <2>2. t \in [n : Int, canonical : BOOLEAN]
    BY <1>14, SpellingText, Zenon
  <2>3. Canonical(s) = t
    <3>1. s.type \notin Odd
      BY <1>14 DEF Numbers
    <3> QED BY <3>1, CanonicalIs, Zenon
  <2> HIDE DEF t, r
  <2>4. v = <<"int64", t.n>> /\ t = [n |-> t.n, canonical |-> TRUE]
    BY <1>14, <2>1, <2>2, NumberRead, Zenon
  <2>5. v[1] = "int64" /\ v[2] = t.n
    <3> HIDE DEF v
    <3> QED BY <2>4
  <2>6. Show(v).text = [n |-> v[2], canonical |-> TRUE]
    BY <2>5, ShowIs, Zenon
  <2> QED BY <2>3, <2>4, <2>5, <2>6, Zenon DEF r
<1>15. s.type # "NULL" => \/ s.type \in {"BOOL", "STRING", "BYTES", "FLOAT32", "FLOAT64", "DATE",
                                        "LOCALTIME", "ZONEDTIME", "LOCALDATETIME", "ZONEDDATETIME",
                                        "NODE", "EDGE"}
                          \/ s.type \in Numbers
  BY <1>2, TypesAre
<1>16. CASE s.type = "FLOAT32"
  <2>1. r = parseSingle(t) /\ r.ok
    BY <1>2, <1>16, ScalarIs
  <2>2. t \in FloatTexts
    BY <1>16, SpellingText DEF FloatTexts
  <2>3. Canonical(s) = [t EXCEPT !.neg = @ /\ t.size # "NaN", !.size = Rounded(@)]
    BY <1>16, CanonicalIs, Zenon
  <2> HIDE DEF t, r
  <2> DEFINE neg == t.neg /\ t.size # "NaN"
             size == Rounded(t.size)
  <2>4. t.exact = TRUE /\ t.size \in STRING /\ t.size # "beyond" /\ r = Spells(<<"float64", t.neg, size>>)
    BY <2>1, <2>2, SingleRead, Zenon
  <2>5. v = <<"float64", t.neg, size>>
    BY <2>4, SpellsIs, Zenon
  <2>6. Show(v).text = [exact |-> TRUE, neg |-> t.neg /\ size # "NaN", size |-> size]
    <3>1. Show(<<"float64", t.neg, size>>).text = [exact |-> TRUE, neg |-> t.neg /\ size # "NaN", size |-> size]
      BY FloatShown, Zenon
    <3> HIDE DEF v, size
    <3> QED BY <2>5, <3>1, Zenon
  <2>7. (t.neg /\ size # "NaN") = neg
    BY <2>4, RoundedIs, Zenon
  <2>8. [t EXCEPT !.neg = @ /\ t.size # "NaN", !.size = Rounded(@)] = [t EXCEPT !.neg = neg, !.size = size]
    BY <2>2 DEF FloatTexts
  <2>9. [t EXCEPT !.neg = neg, !.size = size] = [exact |-> TRUE, neg |-> neg, size |-> size]
    <3> DEFINE R(e) == [exact |-> e, neg |-> neg, size |-> size]
    <3>1. [t EXCEPT !.neg = neg, !.size = size] = R(t.exact)
      <4> HIDE DEF neg, size
      <4> QED BY <2>2, FloatReset, Zenon
    <3>2. R(t.exact) = R(TRUE)
      <4> HIDE DEF R
      <4> QED BY <2>4, Zenon
    <3> QED BY <3>1, <3>2, Zenon
  <2>10. Show(v).text = [exact |-> TRUE, neg |-> neg, size |-> size]
    <3> HIDE DEF v
    <3> QED BY <2>6, <2>7, Zenon
  <2> HIDE DEF neg, size, v
  <2> QED BY <2>3, <2>8, <2>9, <2>10, Zenon DEF r, v
<1> HIDE DEF Goal
<1>17. Goal
  BY <1>1, <1>3, <1>4, <1>5, <1>6, <1>7, <1>8, <1>9, <1>10, <1>11, <1>12, <1>13, <1>14, <1>15,
     <1>16 DEF Goal
<1> QED BY <1>17 DEF Goal

\* A spelling of a case is read as its payload, with what is under it read
\* before.
LEMMA WrittenTyped ==
  ASSUME NEW k \in DOMAIN Written
  PROVE  Typed(Written)[k] = TypedBy(Typed(Written), Written, k)
<1> DEFINE N == Len(Written)
<1>1. N \in Nat /\ DOMAIN Written = 1 .. N
  BY WrittenAssumption
<1>2. ASSUME NEW j \in 1 .. N, NEW i \in DOMAIN Under(Written[j])
      PROVE  Under(Written[j])[i] \in 1 .. j - 1
  <2> DEFINE s == Written[j]
  <2>1. s \in Spellings(1 .. j - 1)
    BY <1>1, WrittenAssumption, Zenon
  <2>2. s.type \in {"LIST", "PATH"}
    BY <1>2 DEF Under
  <2>3. s.text \in Seq(1 .. j - 1)
    BY <2>1, <2>2, SpellingText, Zenon
  <2>4. Under(s) = s.text
    BY <2>2 DEF Under
  <2>5. i \in DOMAIN s.text
    BY <1>2, <2>4
  <2> DEFINE t == s.text
  <2> HIDE DEF t
  <2>6. \A x \in DOMAIN t : t[x] \in 1 .. j - 1
    BY <2>3, Elements DEF t
  <2> QED BY <2>4, <2>5, <2>6 DEF t
<1> HIDE DEF N
<1>3. Typeds(Typed(Written), Written)
  BY <1>1, <1>2, TypedIs
<1> DEFINE f == Typed(Written)
           T(x) == TypedBy(f, Written, x)
<1>4. f = [x \in DOMAIN Written |-> T(x)]
  BY <1>3 DEF Typeds
<1> HIDE DEF f, T
<1>5. f[k] = T(k)
  BY <1>4
<1> QED BY <1>5 DEF f, T

\* Whatever a case may spell is refused or read as what is written: it is
\* shown again as it was, quoted where it must be, in the bounds of its
\* type, a FLOAT32 as the double its nearest float32 is, which reads as the
\* same, and a duration as one that reads as the same (values.go:32, 210
\* and 463, temporal.go:101).
THEOREM ReadAsItIsWritten == EncodingSpec => []ReadsAsWritten
<1> DEFINE Inv == done.op = "read" =>
                     done.spelling \in DOMAIN Written /\ done.read = Typed(Written)[done.spelling]
<1>1. EncodingInit => Inv
  BY DEF EncodingInit, Idle
<1>2. Inv /\ [EncodingNext]_done => Inv'
  <2> SUFFICES ASSUME Inv, [EncodingNext]_done PROVE Inv'
    OBVIOUS
  <2>1. CASE done' = Idle
    BY <2>1 DEF Idle
  <2>2. CASE done' = done
    BY <2>2
  <2>3. ASSUME NEW k, NEW s, done' = [op |-> "show", value |-> k, spelled |-> s] PROVE Inv'
    BY <2>3
  <2>4. ASSUME NEW k, NEW j, NEW b, done' = [op |-> "compare", want |-> j, got |-> k, same |-> b] PROVE Inv'
    BY <2>4
  <2>5. ASSUME NEW k \in DOMAIN Written,
               done' = [op |-> "read", spelling |-> k, read |-> Typed(Written)[k]]
        PROVE  Inv'
    BY <2>5
  <2> HIDE DEF Inv
  <2> QED BY <2>1, <2>2, <2>3, <2>4, <2>5, Zenon DEF EncodingNext
<1>3. Inv => ReadsAsWritten
  <2> SUFFICES ASSUME Inv, done.op = "read", done.read.ok
               PROVE  LET s == Written[done.spelling]
                          shown == Show(done.read.is)
                      IN
                      /\ s.type \notin {"DURATION", "LIST", "PATH"} /\ ~Wraps(s) => shown.text = Canonical(s)
                      /\ s.type \in Quoted => s.quoted
                      /\ s.type \in DOMAIN bounds => done.read.is[2] \in bounds[s.type]
                      /\ s.type = "FLOAT32" /\ s.text.size # "NaN" =>
                            parseSingle(shown.text) = Spells(done.read.is)
                      /\ s.type = "NODE" => shown.text.offset \in Rows
                      /\ s.type = "EDGE" => {shown.text.src, shown.text.dst} \subseteq Rows
                      /\ s.type = "DURATION" /\ done.read.is[2] # Lowest =>
                            parseDuration(shown.text) = Spells(done.read.is)
    BY Zenon DEF ReadsAsWritten
  <2> DEFINE k == done.spelling
             s == Written[k]
             r == done.read
             f == Typed(Written)
             inside == [i \in DOMAIN Under(s) |-> f[Under(s)[i]]]
             places == 1 .. k - 1
  <2>1. k \in DOMAIN Written /\ r = f[k]
    OBVIOUS
  <2>2. s \in Spellings(places)
    BY <2>1, WrittenAssumption
  <2>3. r = Payload(s, inside) /\ r.ok
    BY <2>1, WrittenTyped, Zenon DEF TypedBy
  <2> HIDE DEF k, s, r, f, inside, places
  <2>4. s.type \notin {"DURATION", "LIST", "PATH"} /\ ~Wraps(s) => Show(r.is).text = Canonical(s)
    BY <2>2, <2>3, ShownAsWritten, Zenon
  <2>5. s.type \in Quoted => s.quoted
    BY <2>3, QuotedWhenRead, Zenon
  <2>6. ASSUME s.type \in DOMAIN bounds PROVE r.is[2] \in bounds[s.type]
    <3>1. s.type \in Numbers /\ s.type \notin {"NULL", "LIST", "PATH"}
      BY <2>6, WidthsAssumption DEF bounds, Numbers
    <3>2. r = ReadInteger(s.type, s.text)
      <4>1. r = scalar(s.type, s.text)
        BY <2>3, <3>1, ReadIsScalar, Zenon
      <4>2. scalar(s.type, s.text) = ReadInteger(s.type, s.text)
        BY <3>1, ScalarIs, Zenon
      <4> QED BY <4>1, <4>2, Zenon
    <3>3. s.text \in [n : Int, canonical : BOOLEAN]
      BY <2>2, <3>1, SpellingText, Zenon
    <3>4. r.is = <<"int64", s.text.n>> /\ s.text.n \in bounds[s.type]
      BY <2>3, <3>1, <3>2, <3>3, NumberRead, Zenon
    <3>5. r.is[2] = s.text.n
      BY <3>4
    <3> QED BY <3>4, <3>5, Zenon
  <2>7. ASSUME s.type = "DURATION", r.is[2] # Lowest PROVE parseDuration(Show(r.is).text) = Spells(r.is)
    <3>1. s.type \notin {"NULL", "LIST", "PATH"}
      BY <2>7
    <3>2. r = scalar(s.type, s.text)
      BY <2>3, <3>1, ReadIsScalar, Zenon
    <3>3. r = parseDuration(s.text)
      BY <2>7, <3>2, ScalarIs, Zenon
    <3>4. s.text \in Durations
      BY <2>2, <2>7, SpellingText, Zenon
    <3> QED BY <2>3, <2>7, <3>3, <3>4, DurationAgain, Zenon
  <2>8. ASSUME s.type = "FLOAT32", s.text.size # "NaN" PROVE parseSingle(Show(r.is).text) = Spells(r.is)
    <3>1. s.type \notin {"NULL", "LIST", "PATH"}
      BY <2>8
    <3>2. r = parseSingle(s.text)
      <4>1. r = scalar(s.type, s.text)
        BY <2>3, <3>1, ReadIsScalar, Zenon
      <4>2. scalar(s.type, s.text) = parseSingle(s.text)
        BY <2>8, ScalarIs
      <4> QED BY <4>1, <4>2, Zenon
    <3>3. s.text \in FloatTexts
      BY <2>2, <2>8, SpellingText, Zenon DEF FloatTexts
    <3> QED BY <2>3, <2>8, <3>2, <3>3, SingleReadsAgain, Zenon
  <2>9. ASSUME s.type = "NODE" PROVE Show(r.is).text.offset \in Rows
    <3>1. s.type \notin {"NULL", "LIST", "PATH"}
      BY <2>9
    <3>2. r = nodeAt(s.text)
      <4>1. r = scalar(s.type, s.text)
        BY <2>3, <3>1, ReadIsScalar, Zenon
      <4>2. scalar(s.type, s.text) = nodeAt(s.text)
        BY <2>9, ScalarIs
      <4> QED BY <4>1, <4>2, Zenon
    <3>3. s.text \in [table : STRING, offset : Int]
      BY <2>2, <2>9, SpellingText, Zenon
    <3> QED BY <2>3, <3>2, <3>3, NodeRead, Zenon
  <2>10. ASSUME s.type = "EDGE" PROVE {Show(r.is).text.src, Show(r.is).text.dst} \subseteq Rows
    <3>1. s.type \notin {"NULL", "LIST", "PATH"}
      BY <2>10
    <3>2. r = edgeAt(s.text)
      <4>1. r = scalar(s.type, s.text)
        BY <2>3, <3>1, ReadIsScalar, Zenon
      <4>2. scalar(s.type, s.text) = edgeAt(s.text)
        BY <2>10, ScalarIs
      <4> QED BY <4>1, <4>2, Zenon
    <3>3. s.text \in [table : STRING, src : Int, dst : Int]
      BY <2>2, <2>10, SpellingText, Zenon
    <3>4. Show(r.is).text = s.text /\ s.text.src \in Rows /\ s.text.dst \in Rows
      BY <2>3, <3>2, <3>3, EdgeRead, Zenon
    <3>5. Show(r.is).text.src \in Rows /\ Show(r.is).text.dst \in Rows
      BY <3>4, Zenon
    <3> QED BY <3>5, Zenon
  <2> QED BY <2>4, <2>5, <2>6, <2>7, <2>8, <2>9, <2>10, Zenon DEF s, r, k
<1> HIDE DEF Inv
<1> QED BY <1>1, <1>2, <1>3, PTL DEF EncodingSpec
=============================================================================

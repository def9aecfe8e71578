---------------------------- MODULE ValuesProofs ----------------------------
(***************************************************************************)
(* A cell is read as what it means, a scan keeps its value, and a bound    *)
(* parameter reads back: for cells nested to any depth, integers of any    *)
(* width, every destination and every value a program may bind, where the  *)
(* run takes a few of each.                                                *)
(***************************************************************************)
EXTENDS Values, WellFoundedInduction, TLAPS

(***************************************************************************)
(* Recursive functions.  What the natural numbers leave out of a set that  *)
(* has 0 and every successor has no least member, so there is nothing it   *)
(* leaves out; and a function defined by recursion is its definition,      *)
(* because there is one on every prefix of its domain.                     *)
(***************************************************************************)

\* Induction, said of a set.
LEMMA Induction ==
    ASSUME NEW S \in SUBSET Nat, 0 \in S, \A n \in S : n + 1 \in S
    PROVE  \A n \in Nat : n \in S
<1> SUFFICES ASSUME NEW m \in Nat \ S PROVE FALSE
  OBVIOUS
<1> DEFINE R == OpToRel(<, Nat)
<1>1. PICK n \in Nat \ S : \A k \in Nat \ S : ~ (<<k, n>> \in R)
  <2>1. IsWellFoundedOn(R, Nat)
    BY NatLessThanWellFounded
  <2> HIDE DEF R
  <2> QED BY <2>1, WFMin
<1>2. \A k \in Nat \ S : ~ (k < n)
  BY <1>1 DEF OpToRel
<1>3. n - 1 \in Nat /\ n - 1 \in S
  <2>1. n # 0 /\ n - 1 \in Nat /\ n - 1 < n
    OBVIOUS
  <2> QED BY <1>2, <2>1
<1>4. n \in S
  BY <1>3, (n - 1) + 1 = n
<1> QED BY <1>4

\* One step of Walk, from the steps done before it.
WalkStep(sc, readers, done, i) ==
    IF i = 0 THEN [sc |-> sc, ok |-> TRUE]
    ELSE LET before == done[i - 1]
             one == readers[i][before.sc]
         IN IF before.ok THEN [sc |-> one.sc, ok |-> one.ok] ELSE before

\* Walk goes step by step.
LEMMA WalkIs ==
    ASSUME NEW sc, NEW readers, Len(readers) \in Nat
    PROVE  Walk(sc, readers) =
               [i \in 0 .. Len(readers) |-> WalkStep(sc, readers, Walk(sc, readers), i)]
<1> DEFINE Is(g, n) == g = [i \in 0 .. n |-> WalkStep(sc, readers, g, i)]
           S == {n \in Nat : \E g : Is(g, n)}
<1>1. 0 \in S
  <2> DEFINE g == [i \in 0 .. 0 |-> [sc |-> sc, ok |-> TRUE]]
  <2>1. \A i \in 0 .. 0 : WalkStep(sc, readers, g, i) = [sc |-> sc, ok |-> TRUE]
    BY DEF WalkStep
  <2>2. g = [i \in 0 .. 0 |-> WalkStep(sc, readers, g, i)]
    BY <2>1
  <2> QED BY <2>2
<1>2. ASSUME NEW n \in S PROVE n + 1 \in S
  <2>1. PICK g : Is(g, n)
    OBVIOUS
  <2> DEFINE h == [i \in 0 .. n + 1 |-> IF i = n + 1 THEN WalkStep(sc, readers, g, n + 1) ELSE g[i]]
  <2>2. ASSUME NEW i \in 0 .. n + 1 PROVE h[i] = WalkStep(sc, readers, h, i)
    <3>1. i # 0 => i - 1 \in 0 .. n /\ h[i - 1] = g[i - 1]
      OBVIOUS
    <3>2. WalkStep(sc, readers, h, i) = WalkStep(sc, readers, g, i)
      <4> HIDE DEF h
      <4> QED BY <3>1 DEF WalkStep
    <3>3. CASE i = n + 1
      BY <3>2, <3>3
    <3>4. CASE i # n + 1
      <4>1. i \in 0 .. n
        BY <3>4
      <4>2. g[i] = WalkStep(sc, readers, g, i)
        <5> HIDE DEF Is
        <5>1. g = [j \in 0 .. n |-> WalkStep(sc, readers, g, j)]
          BY <2>1 DEF Is
        <5> QED BY <5>1, <4>1
      <4> QED BY <4>2, <3>4, <3>2
    <3> QED BY <3>3, <3>4
  <2>3. h = [i \in 0 .. n + 1 |-> WalkStep(sc, readers, h, i)]
    BY <2>2
  <2>4. Is(h, n + 1) /\ n + 1 \in Nat
    BY <2>3
  <2> QED
    <3> HIDE DEF h, Is
    <3> QED BY <2>4
<1>3. \E g : Is(g, Len(readers))
  <2> HIDE DEF Is
  <2>1. \A n \in Nat : n \in S
    <3> HIDE DEF S
    <3>1. S \in SUBSET Nat
      BY DEF S
    <3> QED BY <1>1, <1>2, <3>1, Induction
  <2> QED BY <2>1
<1> QED
  <2>1. Walk(sc, readers) =
          CHOOSE g : g = [i \in 0 .. Len(readers) |-> WalkStep(sc, readers, g, i)]
    BY DEF Walk, WalkStep
  <2> HIDE DEF S
  <2> QED BY <1>3, <2>1

(***************************************************************************)
(* Cells within cells.                                                     *)
(***************************************************************************)

\* A cell read, when g reads those before it.
ReadOf(g, k) ==
    [sc \in Scratches |->
        LET v == Cells[k]
        IN Reading(sc, v, [i \in 1 .. Len(Inside(v)) |-> g[Inside(v)[i]]])]

\* The members of a sequence.
LEMMA SeqIs ==
    ASSUME NEW S, NEW s \in Seq(S)
    PROVE  /\ Len(s) \in Nat /\ DOMAIN s = 1 .. Len(s)
           /\ \A i \in 1 .. Len(s) : s[i] \in S
OBVIOUS

\* A sequence given place by place is as long as it says.
LEMMA LenIs ==
    ASSUME NEW n \in Nat, NEW s, DOMAIN s = 1 .. n, s = [i \in 1 .. n |-> s[i]]
    PROVE  Len(s) = n
<1> DEFINE S == {s[i] : i \in 1 .. n}
<1>1. s \in [1 .. n -> S]
  OBVIOUS
<1>2. s \in Seq(S)
  BY <1>1
<1> QED BY <1>2

\* What is inside a cell is before it.
LEMMA InsideBefore ==
    ASSUME NEW k \in DOMAIN Cells
    PROVE  /\ Len(Inside(Cells[k])) \in Nat
           /\ \A i \in 1 .. Len(Inside(Cells[k])) : Inside(Cells[k])[i] \in 1 .. k - 1
<1> DEFINE v == Cells[k]
<1>1. k \in Nat /\ v \in Leaves \union Nests(1 .. k - 1)
  BY CellsAssumption
<1>2. CASE v \in Leaves
  <2>1. v.type \notin {"list", "path", "record"}
    BY <1>2 DEF Leaves, Temps
  <2>2. Inside(v) = <<>>
    BY <2>1 DEF Inside
  <2> QED BY <2>2
<1>3. CASE v \in [type : {"list", "path"}, items : Seq(1 .. k - 1)]
  <2>1. Inside(v) = v.items
    BY <1>3 DEF Inside
  <2>2. v.items \in Seq(1 .. k - 1)
    BY <1>3
  <2>3. /\ Len(v.items) \in Nat
        /\ \A i \in 1 .. Len(v.items) : v.items[i] \in 1 .. k - 1
    <3> HIDE DEF v
    <3> QED BY <2>2, SeqIs
  <2> QED BY <2>1, <2>3
<1>4. CASE v \in [type : {"record"}, fields : Seq([name : STRING, item : 1 .. k - 1])]
  <2>1. v.type = "record" /\ v.fields \in Seq([name : STRING, item : 1 .. k - 1])
    BY <1>4
  <2>2. Inside(v) = [i \in DOMAIN v.fields |-> v.fields[i].item]
    BY <2>1 DEF Inside
  <2> DEFINE F == [name : STRING, item : 1 .. k - 1]
             fields == v.fields
             in == Inside(v)
  <2>3. /\ Len(fields) \in Nat /\ DOMAIN fields = 1 .. Len(fields)
        /\ \A i \in 1 .. Len(fields) : fields[i] \in F
    <3> HIDE DEF F
    <3> QED BY <2>1, SeqIs DEF F
  <2>4. \A i \in 1 .. Len(fields) : fields[i].item \in 1 .. k - 1
    <3> TAKE i \in 1 .. Len(fields)
    <3>1. fields[i] \in F
      BY <2>3
    <3> HIDE DEF fields
    <3> QED BY <3>1
  <2> HIDE DEF fields
  <2>5. in = [i \in 1 .. Len(fields) |-> fields[i].item]
    BY <2>2, <2>3 DEF fields
  <2> HIDE DEF in
  <2>6. Len(in) = Len(fields)
    <3>1. DOMAIN in = 1 .. Len(fields) /\ in = [i \in 1 .. Len(fields) |-> in[i]]
      BY <2>5
    <3> QED BY <3>1, <2>3, LenIs
  <2>7. \A i \in 1 .. Len(in) : in[i] \in 1 .. k - 1
    BY <2>4, <2>5, <2>6
  <2> QED BY <2>3, <2>6, <2>7 DEF in
<1> QED BY <1>1, <1>2, <1>3, <1>4 DEF Nests

\* A cell is read through those inside it.
LEMMA ValueIs == value = [k \in DOMAIN Cells |-> ReadOf(value, k)]
<1> DEFINE N == Len(Cells)
           Is(g, n) == g = [k \in 1 .. n |-> ReadOf(g, k)]
           S == {n \in Nat : n <= N => \E g : Is(g, n)}
<1>1. 0 \in S
  <2>1. Is([k \in 1 .. 0 |-> 0], 0)
    OBVIOUS
  <2> QED BY <2>1
<1>2. ASSUME NEW n \in S PROVE n + 1 \in S
  <2> SUFFICES ASSUME n + 1 <= N PROVE \E h : Is(h, n + 1)
    OBVIOUS
  <2>0. n \in Nat /\ n <= N /\ N \in Nat
    BY CellsAssumption
  <2>1. PICK g : Is(g, n)
    BY <2>0
  <2> DEFINE h == [k \in 1 .. n + 1 |-> IF k = n + 1 THEN ReadOf(g, n + 1) ELSE g[k]]
  <2>2. ASSUME NEW k \in 1 .. n + 1 PROVE h[k] = ReadOf(h, k)
    <3> DEFINE in == Inside(Cells[k])
    <3>0. k \in DOMAIN Cells
      BY <2>0, CellsAssumption
    <3>1. \A i \in 1 .. Len(in) : in[i] \in 1 .. k - 1
      BY <3>0, InsideBefore
    <3>2. \A i \in 1 .. Len(in) : h[in[i]] = g[in[i]]
      <4> HIDE DEF in
      <4> QED BY <3>1
    <3>3. [i \in 1 .. Len(in) |-> h[in[i]]] = [i \in 1 .. Len(in) |-> g[in[i]]]
      <4> HIDE DEF in, h
      <4> QED BY <3>2
    <3>4. ReadOf(h, k) = ReadOf(g, k)
      <4> HIDE DEF h
      <4> QED BY <3>3 DEF ReadOf
    <3>5. CASE k = n + 1
      BY <3>4, <3>5
    <3>6. CASE k # n + 1
      <4>1. k \in 1 .. n
        BY <3>6
      <4>2. g[k] = ReadOf(g, k)
        BY <2>1, <4>1
      <4> QED BY <4>2, <3>6, <3>4
    <3> QED BY <3>5, <3>6
  <2>3. Is(h, n + 1)
    <3> HIDE DEF h
    <3>1. h = [k \in 1 .. n + 1 |-> h[k]]
      BY DEF h
    <3> QED BY <3>1, <2>2
  <2> QED BY <2>3
<1>3. \E g : Is(g, N)
  <2> HIDE DEF Is
  <2>1. \A n \in Nat : n \in S
    <3>1. S \in SUBSET Nat
      OBVIOUS
    <3> HIDE DEF S
    <3> QED BY <1>1, <1>2, <3>1, Induction
  <2> QED BY <2>1, CellsAssumption
<1>4. value = CHOOSE g : g = [k \in DOMAIN Cells |-> ReadOf(g, k)]
  BY DEF value, ReadOf
<1> QED
  <2> HIDE DEF S
  <2> QED BY <1>3, <1>4, CellsAssumption

\* What a cell means, when g is what those before it mean.
MeantOf(g, k) ==
    Meaning(Cells[k], [i \in 1 .. Len(Inside(Cells[k])) |-> g[Inside(Cells[k])[i]]])

\* A cell means what those inside it make of it.
LEMMA MeansIs == Means = [k \in DOMAIN Cells |-> MeantOf(Means, k)]
<1> DEFINE N == Len(Cells)
           Is(g, n) == g = [k \in 1 .. n |-> MeantOf(g, k)]
           S == {n \in Nat : n <= N => \E g : Is(g, n)}
<1>1. 0 \in S
  <2>1. Is([k \in 1 .. 0 |-> 0], 0)
    OBVIOUS
  <2> QED BY <2>1
<1>2. ASSUME NEW n \in S PROVE n + 1 \in S
  <2> SUFFICES ASSUME n + 1 <= N PROVE \E h : Is(h, n + 1)
    OBVIOUS
  <2>0. n \in Nat /\ n <= N /\ N \in Nat
    BY CellsAssumption
  <2>1. PICK g : Is(g, n)
    BY <2>0
  <2> DEFINE h == [k \in 1 .. n + 1 |-> IF k = n + 1 THEN MeantOf(g, n + 1) ELSE g[k]]
  <2>2. ASSUME NEW k \in 1 .. n + 1 PROVE h[k] = MeantOf(h, k)
    <3> DEFINE in == Inside(Cells[k])
    <3>0. k \in DOMAIN Cells
      BY <2>0, CellsAssumption
    <3>1. \A i \in 1 .. Len(in) : in[i] \in 1 .. k - 1
      BY <3>0, InsideBefore
    <3>2. \A i \in 1 .. Len(in) : h[in[i]] = g[in[i]]
      <4> HIDE DEF in
      <4> QED BY <3>1
    <3>3. [i \in 1 .. Len(in) |-> h[in[i]]] = [i \in 1 .. Len(in) |-> g[in[i]]]
      <4> HIDE DEF in, h
      <4> QED BY <3>2
    <3>4. MeantOf(h, k) = MeantOf(g, k)
      <4> HIDE DEF h
      <4> QED BY <3>3 DEF MeantOf
    <3>5. CASE k = n + 1
      BY <3>4, <3>5
    <3>6. CASE k # n + 1
      <4>1. k \in 1 .. n
        BY <3>6
      <4>2. g[k] = MeantOf(g, k)
        BY <2>1, <4>1
      <4> QED BY <4>2, <3>6, <3>4
    <3> QED BY <3>5, <3>6
  <2>3. Is(h, n + 1)
    <3> HIDE DEF h
    <3>1. h = [k \in 1 .. n + 1 |-> h[k]]
      BY DEF h
    <3> QED BY <3>1, <2>2
  <2> QED BY <2>3
<1>3. \E g : Is(g, N)
  <2> HIDE DEF Is
  <2>1. \A n \in Nat : n \in S
    <3>1. S \in SUBSET Nat
      OBVIOUS
    <3> HIDE DEF S
    <3> QED BY <1>1, <1>2, <3>1, Induction
  <2> QED BY <2>1, CellsAssumption
<1>4. Means = CHOOSE g : g = [k \in DOMAIN Cells |-> MeantOf(g, k)]
  BY DEF Means, MeantOf
<1> QED
  <2> HIDE DEF S
  <2> QED BY <1>3, <1>4, CellsAssumption

(***************************************************************************)
(* Reading.                                                                *)
(***************************************************************************)

\* The read r leaves a scratch and answers what m means.
ReadsAs(r, m) == r.sc \in Scratches /\ (r.ok <=> m.ok) /\ (r.ok => r.got = m.is)

\* The halves of a number, joined again.
LEMMA Halves ==
    ASSUME NEW n \in Int
    PROVE  /\ n \div 2 ^ Word \in Int /\ n % 2 ^ Word \in Int
           /\ (n \div 2 ^ Word) * 2 ^ Word + (n % 2 ^ Word) = n
<1> DEFINE d == 2 ^ Word
<1>1. d \in Nat \ {0}
  BY WidthPowers, WidthAssumption DEF Word, Signed
<1> HIDE DEF d
<1>2. n \div d \in Int /\ n % d \in Int /\ n = d * (n \div d) + (n % d)
  BY <1>1
<1>3. d * (n \div d) = (n \div d) * d
  BY <1>1, <1>2
<1> QED BY <1>1, <1>2, <1>3 DEF d

\* A number that fits is what a conversion makes of it.
LEMMA WrappedFits ==
    ASSUME NEW t \in Signed, NEW n \in RangeOf(t)
    PROVE  n \in Int /\ Wrapped(n, Width[t]) = n
<1> DEFINE h == 2 ^ (Width[t] - 1)
<1>1. h \in Nat \ {0} /\ 2 ^ Width[t] = 2 * h /\ n \in -h .. h - 1
  BY WidthPowers, WidthAssumption DEF RangeOf
<1> HIDE DEF h
<1>2. n \in Int /\ n + h \in 0 .. 2 * h - 1
  BY <1>1
<1>3. (n + h) % (2 * h) = n + h
  BY <1>1, <1>2
<1>4. Wrapped(n, Width[t]) = ((n + h) % (2 * h)) - h
  BY <1>1 DEF Wrapped, h
<1> QED BY <1>1, <1>2, <1>3, <1>4

\* A cell is readable when it is known and what is inside it is readable.
LEMMA MeaningOk ==
    ASSUME NEW v, NEW meant
    PROVE  Meaning(v, meant).ok <=> Known(v) /\ \A i \in 1 .. Len(meant) : meant[i].ok
BY Zenon DEF Meaning

\* A date is kept in 32 bits of the 64 of its count, and is not cut by it.
LEMMA TemporalReads ==
    ASSUME NEW sc \in Scratches, NEW v, NEW inside, NEW meant, Len(meant) = 0,
           v.type = "temporal", v.kind \in STRING, v.n \in Int, v.offset \in Int,
           v.kind # "Date" \/ v.n \in RangeOf("int32")
    PROVE  ReadsAs(Reading(sc, v, inside), Meaning(v, meant))
<1> DEFINE s == Accessed(sc, v)
           r == Reading(sc, v, inside)
           m == Meaning(v, meant)
<1>1. s = [sc EXCEPT !.kind = v.kind, !.i64 = v.n, !.off = v.offset]
  BY DEF Accessed
<1>2. s \in Scratches /\ s.kind = v.kind /\ s.i64 = v.n /\ s.off = v.offset
  BY <1>1 DEF Scratches
<1>3. m.ok <=> v.kind \in Kinds
  <2>1. Known(v) <=> v.kind \in Kinds
    BY DEF Known
  <2> QED BY <2>1, MeaningOk
<1>4. CASE v.kind \in Kinds
  <2>1. r = [sc |-> s, ok |-> TRUE, got |-> temporal(s.kind, s.i64, s.off)]
    BY <1>4 DEF Reading
  <2>2. m.is = IF v.kind \in {"ZonedTime", "ZonedDateTime"} THEN <<v.kind, v.n, v.offset>>
               ELSE <<v.kind, v.n>>
    BY DEF Meaning
  <2>3. temporal(v.kind, v.n, v.offset) = m.is
    <3>1. CASE v.kind = "Date"
      <4>1. Wrapped(v.n, Width["int32"]) = v.n
        BY <3>1, WrappedFits DEF Signed
      <4> QED BY <3>1, <4>1, <2>2 DEF temporal
    <3>2. CASE v.kind # "Date"
      BY <3>2, <2>2 DEF temporal
    <3> QED BY <3>1, <3>2
  <2> QED BY <1>2, <1>3, <1>4, <2>1, <2>3 DEF ReadsAs
<1>5. CASE v.kind \notin Kinds
  <2>1. r.sc = s /\ ~r.ok
    BY <1>5 DEF Reading
  <2> QED BY <1>2, <1>3, <1>5, <2>1 DEF ReadsAs
<1> QED BY <1>4, <1>5

\* A cell with nothing inside is read as what it means, whatever the scratch.
LEMMA LeafReads ==
    ASSUME NEW sc \in Scratches, NEW v \in Leaves, NEW inside, NEW meant, Len(meant) = 0
    PROVE  ReadsAs(Reading(sc, v, inside), Meaning(v, meant))
<1> DEFINE s == Accessed(sc, v)
           r == Reading(sc, v, inside)
           m == Meaning(v, meant)
<1>1. CASE v \in [type : {"null", "graph", "binding table", "of a later engine"}]
  <2>1. v.type \in {"null", "graph", "binding table", "of a later engine"}
    BY <1>1
  <2>2. s = sc
    BY <2>1 DEF Accessed
  <2>3. CASE v.type = "null"
    <3>1. r = [sc |-> s, ok |-> TRUE, got |-> Nil]
      BY <2>3 DEF Reading
    <3>2. m.ok /\ m.is = Nil
      <4>1. Known(v)
        BY <2>3 DEF Known
      <4>2. m.ok
        BY <4>1, MeaningOk
      <4>3. m.is = Nil
        BY <2>3 DEF Meaning
      <4> QED BY <4>2, <4>3
    <3> QED BY <2>2, <3>1, <3>2 DEF ReadsAs
  <2>4. CASE v.type \in {"graph", "binding table"}
    <3>1. r = [sc |-> s, ok |-> TRUE, got |-> <<v.type>>]
      BY <2>4 DEF Reading
    <3>2. m.ok /\ m.is = <<v.type>>
      <4>1. Known(v)
        BY <2>4 DEF Known
      <4>2. m.ok
        BY <4>1, MeaningOk
      <4>3. CASE v.type = "graph"
        BY <4>2, <4>3 DEF Meaning
      <4>4. CASE v.type = "binding table"
        BY <4>2, <4>4 DEF Meaning
      <4> QED BY <2>4, <4>3, <4>4
    <3> QED BY <2>2, <3>1, <3>2 DEF ReadsAs
  <2>5. CASE v.type = "of a later engine"
    <3>1. r.sc = s /\ ~r.ok
      BY <2>5 DEF Reading
    <3>2. ~m.ok
      BY <2>5, MeaningOk DEF Known
    <3> QED BY <2>2, <3>1, <3>2 DEF ReadsAs
  <2> QED BY <2>1, <2>3, <2>4, <2>5
<1>2. CASE v \in [type : {"bool"}, n : {0, 1}]
  <2>1. v.type = "bool" /\ v.n \in {0, 1}
    BY <1>2
  <2>2. s \in Scratches /\ s.i32 = v.n
    BY <2>1 DEF Accessed, Scratches
  <2>3. r = [sc |-> s, ok |-> TRUE, got |-> <<"bool", s.i32 # 0>>]
    BY <2>1 DEF Reading
  <2>4. m.ok /\ m.is = <<"bool", v.n = 1>>
    <3>1. Known(v)
      BY <2>1 DEF Known
    <3>2. m.ok
      BY <3>1, MeaningOk
    <3>3. m.is = <<"bool", v.n = 1>>
      BY <2>1 DEF Meaning
    <3> QED BY <3>2, <3>3
  <2> QED BY <2>1, <2>2, <2>3, <2>4 DEF ReadsAs
<1>3. CASE v \in [type : {"int"}, n : RangeOf("int64")]
  <2>1. v.type = "int" /\ v.n \in Int
    BY <1>3 DEF RangeOf, Signed
  <2>2. s \in Scratches /\ s.i64 = v.n
    BY <2>1 DEF Accessed, Scratches
  <2>3. r = [sc |-> s, ok |-> TRUE, got |-> <<"int64", s.i64>>]
    BY <2>1 DEF Reading
  <2>4. m.ok /\ m.is = <<"int64", v.n>>
    <3>1. Known(v)
      BY <2>1 DEF Known
    <3>2. m.ok
      BY <3>1, MeaningOk
    <3>3. m.is = <<"int64", v.n>>
      BY <2>1 DEF Meaning
    <3> QED BY <3>2, <3>3
  <2> QED BY <2>1, <2>2, <2>3, <2>4 DEF ReadsAs
<1>4. CASE v \in [type : {"float"}, f : STRING]
  <2>1. v.type = "float" /\ v.f \in STRING
    BY <1>4
  <2>2. s \in Scratches /\ s.f64 = v.f
    BY <2>1 DEF Accessed, Scratches
  <2>3. r = [sc |-> s, ok |-> TRUE, got |-> <<"float64", s.f64>>]
    BY <2>1 DEF Reading
  <2>4. m.ok /\ m.is = <<"float64", v.f>>
    <3>1. Known(v)
      BY <2>1 DEF Known
    <3>2. m.ok
      BY <3>1, MeaningOk
    <3>3. m.is = <<"float64", v.f>>
      BY <2>1 DEF Meaning
    <3> QED BY <3>2, <3>3
  <2> QED BY <2>1, <2>2, <2>3, <2>4 DEF ReadsAs
<1>5. CASE v \in [type : {"string"}, s : STRING]
  <2>1. v.type = "string" /\ v.s \in STRING
    BY <1>5
  <2>2. s \in Scratches /\ s.txt = v.s
    BY <2>1 DEF Accessed, Scratches
  <2>3. r = [sc |-> s, ok |-> TRUE, got |-> <<"string", s.txt>>]
    BY <2>1 DEF Reading
  <2>4. m.ok /\ m.is = <<"string", v.s>>
    <3>1. Known(v)
      BY <2>1 DEF Known
    <3>2. m.ok
      BY <3>1, MeaningOk
    <3>3. m.is = <<"string", v.s>>
      BY <2>1 DEF Meaning
    <3> QED BY <3>2, <3>3
  <2> QED BY <2>1, <2>2, <2>3, <2>4 DEF ReadsAs
<1>6. CASE v \in [type : {"bytes"}, s : STRING]
  <2>1. v.type = "bytes" /\ v.s \in STRING
    BY <1>6
  <2>2. s \in Scratches /\ s.raw = v.s
    BY <2>1 DEF Accessed, Scratches
  <2>3. r = [sc |-> s, ok |-> TRUE, got |-> <<"[]byte", s.raw>>]
    BY <2>1 DEF Reading
  <2>4. m.ok /\ m.is = <<"[]byte", v.s>>
    <3>1. Known(v)
      BY <2>1 DEF Known
    <3>2. m.ok
      BY <3>1, MeaningOk
    <3>3. m.is = <<"[]byte", v.s>>
      BY <2>1 DEF Meaning
    <3> QED BY <3>2, <3>3
  <2> QED BY <2>1, <2>2, <2>3, <2>4 DEF ReadsAs
<1>7. CASE v \in [type : {"node"}, table : Nat, offset : Nat]
  <2>1. v.type = "node" /\ v.table \in Nat /\ v.offset \in Nat
    BY <1>7
  <2>2. s \in Scratches /\ s.u32 = v.table /\ s.src = v.offset
    BY <2>1 DEF Accessed, Scratches
  <2>3. r = [sc |-> s, ok |-> TRUE, got |-> <<"Node", s.u32, s.src>>]
    BY <2>1 DEF Reading
  <2>4. m.ok /\ m.is = <<"Node", v.table, v.offset>>
    <3>1. Known(v)
      BY <2>1 DEF Known
    <3>2. m.ok
      BY <3>1, MeaningOk
    <3>3. m.is = <<"Node", v.table, v.offset>>
      BY <2>1 DEF Meaning
    <3> QED BY <3>2, <3>3
  <2> QED BY <2>1, <2>2, <2>3, <2>4 DEF ReadsAs
<1>8. CASE v \in [type : {"rel"}, table : Nat, src : Nat, dst : Nat]
  <2>1. v.type = "rel" /\ v.table \in Nat /\ v.src \in Nat /\ v.dst \in Nat
    BY <1>8
  <2>2. s \in Scratches /\ s.u32 = v.table /\ s.src = v.src /\ s.dst = v.dst
    BY <2>1 DEF Accessed, Scratches
  <2>3. r = [sc |-> s, ok |-> TRUE, got |-> <<"Rel", s.u32, s.src, s.dst>>]
    BY <2>1 DEF Reading
  <2>4. m.ok /\ m.is = <<"Rel", v.table, v.src, v.dst>>
    <3>1. Known(v)
      BY <2>1 DEF Known
    <3>2. m.ok
      BY <3>1, MeaningOk
    <3>3. m.is = <<"Rel", v.table, v.src, v.dst>>
      BY <2>1 DEF Meaning
    <3> QED BY <3>2, <3>3
  <2> QED BY <2>1, <2>2, <2>3, <2>4 DEF ReadsAs
<1>9. CASE v \in [type : {"decimal"}, unscaled : Int, scale : Int]
  <2> DEFINE hi == v.unscaled \div 2 ^ Word
             lo == v.unscaled % 2 ^ Word
  <2>1. v.type = "decimal" /\ v.unscaled \in Int /\ v.scale \in Int
    BY <1>9
  <2>2. hi \in Int /\ lo \in Int /\ hi * 2 ^ Word + lo = v.unscaled
    BY <2>1, Halves
  <2>3. s = [sc EXCEPT !.hi = hi, !.lo = lo, !.scale = v.scale]
    BY <2>1 DEF Accessed
  <2> HIDE DEF hi, lo
  <2>4. s \in Scratches /\ s.hi = hi /\ s.lo = lo /\ s.scale = v.scale
    BY <2>1, <2>2, <2>3 DEF Scratches
  <2>5. r = [sc |-> s, ok |-> TRUE, got |-> decimal(s.hi, s.lo, s.scale)]
    BY <2>1 DEF Reading
  <2>6. m.ok /\ m.is = <<"Decimal", v.unscaled, v.scale>>
    <3>1. Known(v)
      BY <2>1 DEF Known
    <3>2. m.ok
      BY <3>1, MeaningOk
    <3>3. m.is = <<"Decimal", v.unscaled, v.scale>>
      BY <2>1 DEF Meaning
    <3> QED BY <3>2, <3>3
  <2>7. decimal(hi, lo, v.scale) = <<"Decimal", v.unscaled, v.scale>>
    BY <2>2 DEF decimal
  <2> QED BY <2>4, <2>5, <2>6, <2>7 DEF ReadsAs
<1>10. CASE v \in {t \in Temps : t.kind = "Date" => t.n \in RangeOf("int32")}
  <2>1. /\ v.type = "temporal" /\ v.kind \in STRING /\ v.n \in RangeOf("int64")
        /\ v.offset \in Int
    BY <1>10 DEF Temps
  <2>2. v.n \in Int
    BY <2>1 DEF RangeOf, Signed
  <2>3. v.kind # "Date" \/ v.n \in RangeOf("int32")
    BY <1>10
  <2> QED BY <2>1, <2>2, <2>3, TemporalReads
<1>12. CASE v \in [type : {"string", "bytes"}, s : STRING]
  <2>1. \/ v \in [type : {"string"}, s : STRING]
        \/ v \in [type : {"bytes"}, s : STRING]
    BY <1>12
  <2> QED BY <2>1, <1>5, <1>6
<1> QED
  BY <1>1, <1>2, <1>3, <1>4, <1>7, <1>8, <1>9, <1>10, <1>12 DEF Leaves

\* What is inside, each read through the scratch the one before it left, is
\* read as what each means alone, and is an error if one of them is.
LEMMA InOrderReads ==
    ASSUME NEW sc \in Scratches, NEW readers, NEW meant, NEW n \in Nat, Len(readers) = n,
           \A i \in 1 .. n : \A s \in Scratches : ReadsAs(readers[i][s], meant[i])
    PROVE  /\ InOrder(sc, readers).sc \in Scratches
           /\ InOrder(sc, readers).ok <=> \A i \in 1 .. n : meant[i].ok
           /\ InOrder(sc, readers).ok =>
                  InOrder(sc, readers).got = [i \in 1 .. n |-> meant[i].is]
<1> DEFINE done == Walk(sc, readers)
           Holds(i) == /\ done[i].sc \in Scratches
                       /\ done[i].ok <=> \A j \in 1 .. i : meant[j].ok
           S == {i \in Nat : i <= n => Holds(i)}
<1>1. \A i \in 0 .. n : done[i] = WalkStep(sc, readers, done, i)
  <2>1. done = [i \in 0 .. n |-> WalkStep(sc, readers, done, i)]
    BY WalkIs
  <2> HIDE DEF done
  <2> QED BY <2>1
<1> HIDE DEF done
<1>2. 0 \in S
  <2>1. done[0] = [sc |-> sc, ok |-> TRUE]
    <3>1. 0 \in 0 .. n
      OBVIOUS
    <3> QED BY <1>1, <3>1 DEF WalkStep
  <2>2. done[0].sc = sc /\ done[0].ok
    BY <2>1
  <2>3. \A j \in 1 .. 0 : meant[j].ok
    OBVIOUS
  <2> QED BY <2>2, <2>3
<1>3. ASSUME NEW i \in S PROVE i + 1 \in S
  <2> SUFFICES ASSUME i + 1 <= n PROVE Holds(i + 1)
    OBVIOUS
  <2>1. i \in Nat /\ i + 1 \in 1 .. n /\ i + 1 \in 0 .. n /\ i + 1 # 0 /\ (i + 1) - 1 = i
    OBVIOUS
  <2>2. Holds(i)
    <3>1. i <= n
      BY <2>1
    <3> HIDE DEF Holds
    <3> QED BY <3>1
  <2> DEFINE one == readers[i + 1][done[i].sc]
  <2>3. done[i + 1] = IF done[i].ok THEN [sc |-> one.sc, ok |-> one.ok] ELSE done[i]
    BY <1>1, <2>1 DEF WalkStep
  <2>4. ReadsAs(one, meant[i + 1])
    BY <2>1, <2>2
  <2>5. \A j : j \in 1 .. i + 1 <=> j \in 1 .. i \/ j = i + 1
    BY <2>1
  <2>6. (\A j \in 1 .. i + 1 : meant[j].ok) <=> (\A j \in 1 .. i : meant[j].ok) /\ meant[i + 1].ok
    BY ONLY <2>5, Zenon
  <2>7. CASE done[i].ok
    <3>1. done[i + 1] = [sc |-> one.sc, ok |-> one.ok]
      BY <2>3, <2>7
    <3>2. done[i + 1].sc = one.sc /\ (done[i + 1].ok <=> one.ok)
      <4> HIDE DEF one
      <4>1. done[i + 1].sc = one.sc
        BY <3>1
      <4>2. done[i + 1].ok = one.ok
        BY <3>1
      <4> QED BY <4>1, <4>2
    <3>3. \A j \in 1 .. i : meant[j].ok
      BY <2>2, <2>7
    <3> HIDE DEF one
    <3>4. done[i + 1].sc \in Scratches
      BY <2>4, <3>2 DEF ReadsAs
    <3>5. done[i + 1].ok <=> meant[i + 1].ok
      BY <2>4, <3>2, Zenon DEF ReadsAs
    <3> QED BY <2>6, <3>3, <3>4, <3>5, Zenon
  <2>8. CASE ~done[i].ok
    <3>1. done[i + 1] = done[i]
      BY <2>3, <2>8
    <3> QED BY <2>2, <2>6, <2>8, <3>1, Zenon
  <2> QED BY <2>7, <2>8
<1>4. \A i \in 0 .. n : Holds(i)
  <2>1. \A i \in Nat : i \in S
    <3>1. S \in SUBSET Nat
      OBVIOUS
    <3> HIDE DEF S
    <3> QED BY <1>2, <1>3, <3>1, Induction
  <2> HIDE DEF Holds
  <2> QED BY <2>1
<1> DEFINE all == InOrder(sc, readers)
           gots == [i \in 1 .. n |-> readers[i][done[i - 1].sc].got]
<1>5. all = [sc |-> done[n].sc, ok |-> done[n].ok,
             got |-> IF done[n].ok THEN gots ELSE Nil]
  BY DEF InOrder, done
<1>6. all.sc = done[n].sc /\ (all.ok <=> done[n].ok) /\ (done[n].ok => all.got = gots)
  <2> HIDE DEF gots, all
  <2>1. all.sc = done[n].sc
    BY <1>5
  <2>2. all.ok <=> done[n].ok
    BY <1>5, Zenon
  <2>3. ASSUME done[n].ok PROVE all.got = gots
    BY <1>5, <2>3
  <2> QED BY <2>1, <2>2, <2>3
<1> HIDE DEF all
<1>7. Holds(n)
  BY <1>4
<1>8. ASSUME done[n].ok PROVE gots = [i \in 1 .. n |-> meant[i].is]
  <2>1. ASSUME NEW i \in 1 .. n PROVE readers[i][done[i - 1].sc].got = meant[i].is
    <3>1. i - 1 \in 0 .. n
      OBVIOUS
    <3>2. done[i - 1].sc \in Scratches
      BY <3>1, <1>4
    <3>3. ReadsAs(readers[i][done[i - 1].sc], meant[i])
      BY <3>2
    <3>4. meant[i].ok
      BY <1>7, <1>8
    <3> QED BY <3>3, <3>4 DEF ReadsAs
  <2> QED BY <2>1
<1>9. all.sc \in Scratches /\ (all.ok <=> \A i \in 1 .. n : meant[i].ok)
  BY <1>6, <1>7, Zenon
<1>10. all.ok => all.got = [i \in 1 .. n |-> meant[i].is]
  <2> HIDE DEF gots
  <2> QED BY <1>6, <1>8
<1> QED BY <1>9, <1>10 DEF all

\* The shape of what a read answers, and what changing its value leaves of it.
IsRead(r) == r = [sc |-> r.sc, ok |-> r.ok, got |-> r.got]

LEMMA Retold ==
    ASSUME NEW r, IsRead(r), NEW x
    PROVE  LET t == [r EXCEPT !.got = x]
           IN IsRead(t) /\ t.sc = r.sc /\ t.ok = r.ok /\ t.got = x
<1> DEFINE t == [r EXCEPT !.got = x]
           a == r.sc
           b == r.ok
           c == r.got
<1>1. r = [sc |-> a, ok |-> b, got |-> c]
  BY DEF IsRead
<1> HIDE DEF a, b, c
<1>2. t = [sc |-> a, ok |-> b, got |-> x]
  BY <1>1
<1>3. r.sc = a /\ r.ok = b
  BY <1>1
<1> HIDE DEF t
<1>4. t.sc = a /\ t.ok = b /\ t.got = x
  BY <1>2
<1>5. IsRead(t)
  BY <1>2, <1>4 DEF IsRead
<1> QED BY <1>3, <1>4, <1>5 DEF t

\* Every walk and every read answers in that shape.
LEMMA InOrderIsRead ==
    ASSUME NEW sc, NEW readers
    PROVE  IsRead(InOrder(sc, readers))
BY DEF IsRead, InOrder

LEMMA ReadingIsRead ==
    ASSUME NEW sc, NEW v, NEW inside
    PROVE  IsRead(Reading(sc, v, inside))
<1> DEFINE s == Accessed(sc, v)
           r == Reading(sc, v, inside)
<1> SUFFICES IsRead(r)
  OBVIOUS
<1>1. ASSUME NEW x, r = [sc |-> s, ok |-> TRUE, got |-> x] PROVE IsRead(r)
  <2> HIDE DEF r, s
  <2>1. r.sc = s /\ r.ok = TRUE /\ r.got = x
    BY <1>1
  <2> QED BY <1>1, <2>1 DEF IsRead
<1>2. CASE \/ v.type \in {"null", "bool", "int", "float", "string", "bytes", "decimal", "node",
                            "rel", "graph", "binding table"}
           \/ v.type = "temporal" /\ v.kind \in Kinds
  <2>1. \E x : r = [sc |-> s, ok |-> TRUE, got |-> x]
    <3>1. CASE v.type = "null"
      BY <3>1 DEF Reading
    <3>2. CASE v.type = "bool"
      BY <3>2, Zenon DEF Reading
    <3>3. CASE v.type = "int"
      BY <3>3 DEF Reading
    <3>4. CASE v.type = "float"
      BY <3>4 DEF Reading
    <3>5. CASE v.type = "string"
      BY <3>5 DEF Reading
    <3>6. CASE v.type = "bytes"
      BY <3>6 DEF Reading
    <3>7. CASE v.type = "decimal"
      BY <3>7 DEF Reading
    <3>8. CASE v.type = "node"
      BY <3>8 DEF Reading
    <3>9. CASE v.type = "rel"
      BY <3>9 DEF Reading
    <3>10. CASE v.type \in {"graph", "binding table"}
      BY <3>10 DEF Reading
    <3>11. CASE v.type = "temporal" /\ v.kind \in Kinds
      BY <3>11 DEF Reading
    <3> QED
      BY <1>2, <3>1, <3>2, <3>3, <3>4, <3>5, <3>6, <3>7, <3>8, <3>9, <3>10, <3>11
  <2> HIDE DEF r, s
  <2> QED BY <1>1, <2>1
<1>3. CASE v.type = "list"
  <2>1. r = [parts(s, v, inside) EXCEPT !.got = <<"[]any", @>>]
    BY <1>3 DEF Reading
  <2>2. IsRead(parts(s, v, inside))
    BY InOrderIsRead DEF parts
  <2> HIDE DEF r, s
  <2> QED BY <2>1, <2>2, Retold
<1>4. CASE v.type = "path"
  <2>1. r = [parts(s, v, inside) EXCEPT !.got = <<"Path", @>>]
    BY <1>4 DEF Reading
  <2>2. IsRead(parts(s, v, inside))
    BY InOrderIsRead DEF parts
  <2> HIDE DEF r, s
  <2> QED BY <2>1, <2>2, Retold
<1>5. CASE v.type = "record"
  <2>1. r = [record(s, v, inside) EXCEPT !.got = <<"Record", @>>]
    BY <1>5 DEF Reading
  <2>2. IsRead(record(s, v, inside))
    BY InOrderIsRead DEF record
  <2> HIDE DEF r, s
  <2> QED BY <2>1, <2>2, Retold
<1>6. CASE /\ v.type \notin {"null", "bool", "int", "float", "string", "bytes", "decimal", "node",
                             "rel", "graph", "binding table", "list", "path", "record"}
           /\ ~(v.type = "temporal" /\ v.kind \in Kinds)
  <2>1. r = [[sc |-> s, ok |-> TRUE, got |-> Nil] EXCEPT !.ok = FALSE]
    BY <1>6 DEF Reading
  <2> HIDE DEF r, s
  <2>2. r = [sc |-> s, ok |-> FALSE, got |-> Nil]
    BY <2>1
  <2>3. r.sc = s /\ r.ok = FALSE /\ r.got = Nil
    BY <2>2
  <2> QED BY <2>2, <2>3 DEF IsRead
<1> QED BY <1>2, <1>3, <1>4, <1>5, <1>6

\* A list, a path or a record is read as what it means once what is inside it
\* is, whatever scratch each part finds: a field's name was copied before.
LEMMA NestReads ==
    ASSUME NEW sc \in Scratches, NEW k \in DOMAIN Cells, NEW inside, NEW meant,
           Cells[k] \in Nests(1 .. k - 1), Len(meant) = Len(Inside(Cells[k])),
           \A i \in 1 .. Len(meant) : \A s \in Scratches :
               IsRead(inside[i][s]) /\ ReadsAs(inside[i][s], meant[i])
    PROVE  ReadsAs(Reading(sc, Cells[k], inside), Meaning(Cells[k], meant))
<1> DEFINE v == Cells[k]
           n == Len(meant)
           r == Reading(sc, v, inside)
           m == Meaning(v, meant)
<1>0. k \in Nat /\ n \in Nat
  BY CellsAssumption, InsideBefore
<1> SUFFICES ReadsAs(r, m)
  OBVIOUS
<1>1. CASE v \in [type : {"list", "path"}, items : Seq(1 .. k - 1)]
  <2>1. v.type \in {"list", "path"} /\ v.items \in Seq(1 .. k - 1)
    BY <1>1
  <2>2. Accessed(sc, v) = sc
    BY <2>1 DEF Accessed
  <2> DEFINE items == v.items
             reader(i) == [s \in Scratches |-> inside[i][[s EXCEPT !.val = items[i]]]]
             readers == [i \in 1 .. n |-> reader(i)]
             all == parts(sc, v, inside)
  <2>3. Len(items) = n /\ \A i \in 1 .. n : items[i] \in Nat
    <3>1. Inside(v) = items
      BY <2>1 DEF Inside
    <3>2. \A i \in 1 .. n : items[i] \in 1 .. k - 1
      BY <3>1, InsideBefore
    <3> HIDE DEF items
    <3> QED BY <1>0, <3>1, <3>2
  <2>4. all = InOrder(sc, readers)
    BY <2>3 DEF parts
  <2> HIDE DEF items, v
  <2>5. Len(readers) = n
    BY <1>0, LenIs
  <2>6. ASSUME NEW i \in 1 .. n, NEW s \in Scratches PROVE ReadsAs(readers[i][s], meant[i])
    <3> DEFINE t == [s EXCEPT !.val = items[i]]
    <3>1. t \in Scratches
      BY <2>3 DEF Scratches
    <3>2. readers[i][s] = inside[i][t]
      OBVIOUS
    <3> HIDE DEF readers, t
    <3> QED BY <3>1, <3>2
  <2>7. IsRead(all)
    BY <2>4, InOrderIsRead
  <2> HIDE DEF readers, all
  <2>8. /\ all.sc \in Scratches
        /\ all.ok <=> \A i \in 1 .. n : meant[i].ok
        /\ all.ok => all.got = [i \in 1 .. n |-> meant[i].is]
    BY <1>0, <2>4, <2>5, <2>6, InOrderReads
  <2>9. m.ok <=> \A i \in 1 .. n : meant[i].ok
    <3>1. Known(v)
      BY <2>1 DEF Known
    <3> QED BY <3>1, MeaningOk, Zenon
  <2>10. CASE v.type = "list"
    <3>1. r = [all EXCEPT !.got = <<"[]any", @>>]
      BY <2>2, <2>10 DEF Reading, all
    <3>2. m.is = <<"[]any", [i \in 1 .. n |-> meant[i].is]>>
      BY <2>10 DEF Meaning
    <3> HIDE DEF r, m
    <3>3. r.sc = all.sc /\ r.ok = all.ok /\ r.got = <<"[]any", all.got>>
      BY <2>7, <3>1, Retold
    <3> QED BY <2>8, <2>9, <3>2, <3>3 DEF ReadsAs
  <2>11. CASE v.type = "path"
    <3>1. r = [all EXCEPT !.got = <<"Path", @>>]
      BY <2>2, <2>11 DEF Reading, all
    <3>2. m.is = <<"Path", [i \in 1 .. n |-> meant[i].is]>>
      BY <2>11 DEF Meaning
    <3> HIDE DEF r, m
    <3>3. r.sc = all.sc /\ r.ok = all.ok /\ r.got = <<"Path", all.got>>
      BY <2>7, <3>1, Retold
    <3> QED BY <2>8, <2>9, <3>2, <3>3 DEF ReadsAs
  <2> QED BY <2>1, <2>10, <2>11
<1>2. CASE v \in [type : {"record"}, fields : Seq([name : STRING, item : 1 .. k - 1])]
  <2> DEFINE F == [name : STRING, item : 1 .. k - 1]
  <2>1. v.type = "record" /\ v.fields \in Seq(F)
    BY <1>2
  <2>2. Accessed(sc, v) = sc
    BY <2>1 DEF Accessed
  <2> DEFINE fields == v.fields
             named(i) == [ok |-> meant[i].ok, is |-> <<fields[i].name, meant[i].is>>]
             names == [i \in 1 .. n |-> named(i)]
             reader(i) == [s \in Scratches |->
                             [inside[i][Field(s, fields[i])] EXCEPT !.got = <<Field(s, fields[i]).txt, @>>]]
             readers == [i \in 1 .. n |-> reader(i)]
             all == record(sc, v, inside)
  <2>3. Len(fields) = n /\ \A i \in 1 .. n : fields[i] \in F
    <3>1. Inside(v) = [i \in DOMAIN fields |-> fields[i].item]
      BY <2>1 DEF Inside
    <3>2. /\ Len(fields) \in Nat /\ DOMAIN fields = 1 .. Len(fields)
          /\ \A i \in 1 .. Len(fields) : fields[i] \in F
      <4> HIDE DEF F
      <4> QED BY <2>1, SeqIs
    <3> DEFINE in == Inside(v)
    <3> HIDE DEF fields, F, in
    <3>3. Len(in) = Len(fields)
      <4>1. in = [i \in 1 .. Len(fields) |-> fields[i].item]
        BY <3>1, <3>2 DEF in
      <4>2. DOMAIN in = 1 .. Len(fields) /\ in = [i \in 1 .. Len(fields) |-> in[i]]
        BY <4>1
      <4> QED BY <4>2, <3>2, LenIs
    <3> QED BY <3>2, <3>3 DEF in
  <2>4. all = InOrder(sc, readers)
    BY <2>3 DEF record
  <2> HIDE DEF fields, v
  <2>5. Len(readers) = n
    BY <1>0, LenIs
  <2>6. ASSUME NEW i \in 1 .. n, NEW s \in Scratches PROVE ReadsAs(readers[i][s], names[i])
    <3> DEFINE t == Field(s, fields[i])
               x == <<t.txt, inside[i][t].got>>
    <3>1. t \in Scratches /\ t.txt = fields[i].name
      <4>1. fields[i].name \in STRING /\ fields[i].item \in Nat
        BY <1>0, <2>3
      <4> QED BY <4>1 DEF Field, Scratches
    <3>2. readers[i][s] = [inside[i][t] EXCEPT !.got = x]
      OBVIOUS
    <3>3. IsRead(inside[i][t]) /\ ReadsAs(inside[i][t], meant[i])
      BY <3>1
    <3>4. x = <<fields[i].name, inside[i][t].got>>
      BY <3>1
    <3>5. names[i] = named(i)
      OBVIOUS
    <3> DEFINE one == readers[i][s]
               two == inside[i][t]
               three == names[i]
    <3>6. (three.ok <=> meant[i].ok) /\ three.is = <<fields[i].name, meant[i].is>>
      <4> HIDE DEF names, three
      <4>1. three = named(i)
        BY <3>5 DEF three
      <4>2. three.ok = meant[i].ok
        BY <4>1
      <4>3. three.is = <<fields[i].name, meant[i].is>>
        BY <4>1
      <4> QED BY <4>2, <4>3
    <3> HIDE DEF one, two, three, names, readers, x, t
    <3>7. one.sc = two.sc /\ one.ok = two.ok /\ one.got = x
      BY <3>2, <3>3, Retold DEF one, two
    <3>8. two.sc \in Scratches /\ (two.ok <=> meant[i].ok) /\ (two.ok => two.got = meant[i].is)
      BY <3>3 DEF two, ReadsAs
    <3>9. x = <<fields[i].name, two.got>>
      BY <3>4 DEF two
    <3>10. ReadsAs(one, three)
      BY <3>6, <3>7, <3>8, <3>9 DEF ReadsAs
    <3> QED BY <3>10 DEF one, three
  <2>7. IsRead(all)
    BY <2>4, InOrderIsRead
  <2> DEFINE gots == [i \in 1 .. n |-> <<fields[i].name, meant[i].is>>]
  <2>8. /\ [i \in 1 .. n |-> names[i].is] = gots
        /\ (\A i \in 1 .. n : names[i].ok) <=> (\A i \in 1 .. n : meant[i].ok)
    <3>1. ASSUME NEW i \in 1 .. n
          PROVE names[i].ok = meant[i].ok /\ names[i].is = <<fields[i].name, meant[i].is>>
      <4> DEFINE three == names[i]
      <4>1. three = named(i)
        OBVIOUS
      <4> HIDE DEF three
      <4>2. three.ok = meant[i].ok
        BY <4>1
      <4>3. three.is = <<fields[i].name, meant[i].is>>
        BY <4>1
      <4> QED BY <4>2, <4>3 DEF three
    <3> HIDE DEF names
    <3>2. [i \in 1 .. n |-> names[i].is] = gots
      BY <3>1
    <3>3. (\A i \in 1 .. n : names[i].ok) <=> (\A i \in 1 .. n : meant[i].ok)
      <4>1. \A i \in 1 .. n : names[i].ok <=> meant[i].ok
        BY <3>1
      <4> QED BY <4>1, Zenon
    <3> QED BY <3>2, <3>3
  <2> HIDE DEF readers, all, names
  <2>9. /\ all.sc \in Scratches
        /\ all.ok <=> \A i \in 1 .. n : names[i].ok
        /\ all.ok => all.got = [i \in 1 .. n |-> names[i].is]
    <3>1. n \in Nat /\ Len(readers) = n
      BY <1>0, <2>5
    <3>2. \A i \in 1 .. n : \A s \in Scratches : ReadsAs(readers[i][s], names[i])
      BY <2>6
    <3> HIDE DEF n
    <3>3. /\ InOrder(sc, readers).sc \in Scratches
          /\ InOrder(sc, readers).ok <=> \A i \in 1 .. n : names[i].ok
          /\ InOrder(sc, readers).ok =>
                 InOrder(sc, readers).got = [i \in 1 .. n |-> names[i].is]
      BY ONLY sc \in Scratches, <3>1, <3>2, InOrderReads, SMTT(30)
    <3> QED BY <2>4, <3>3, Zenon
  <2>10. m.ok <=> \A i \in 1 .. n : meant[i].ok
    <3>1. Known(v)
      BY <2>1 DEF Known
    <3> QED BY <3>1, MeaningOk, Zenon
  <2>11. r = [all EXCEPT !.got = <<"Record", @>>]
    BY <2>1, <2>2 DEF Reading, all
  <2>12. m.is = <<"Record", gots>>
    BY <2>1 DEF Meaning, fields
  <2> HIDE DEF r, m, gots
  <2>13. r.sc = all.sc /\ r.ok = all.ok /\ r.got = <<"Record", all.got>>
    BY <2>7, <2>11, Retold
  <2>14. all.sc \in Scratches /\ (all.ok <=> m.ok) /\ (all.ok => all.got = gots)
    BY <2>8, <2>9, <2>10, Zenon
  <2> QED BY <2>12, <2>13, <2>14 DEF ReadsAs
<1> QED BY <1>1, <1>2 DEF Nests

\* What the scratch holds does not matter, however deep the cell.
LEMMA ValueReads ==
    ASSUME NEW k \in DOMAIN Cells, NEW sc \in Scratches
    PROVE  IsRead(value[k][sc]) /\ ReadsAs(value[k][sc], Means[k])
<1> DEFINE Good(j) == \A s \in Scratches : IsRead(value[j][s]) /\ ReadsAs(value[j][s], Means[j])
           S == {n \in Nat : \A j \in 1 .. n : j \in DOMAIN Cells => Good(j)}
<1>1. 0 \in S
  OBVIOUS
<1>2. ASSUME NEW n \in S PROVE n + 1 \in S
  <2> HIDE DEF Good
  <2> SUFFICES ASSUME n + 1 \in DOMAIN Cells PROVE Good(n + 1)
    OBVIOUS
  <2> DEFINE j == n + 1
             v == Cells[j]
             in == Inside(v)
             meant == [i \in 1 .. Len(in) |-> Means[in[i]]]
             inside == [i \in 1 .. Len(in) |-> value[in[i]]]
  <2>1. Len(in) \in Nat /\ \A i \in 1 .. Len(in) : in[i] \in 1 .. n
    BY InsideBefore
  <2>2. Means[j] = Meaning(v, meant)
    BY MeansIs DEF MeantOf
  <2>3. ASSUME NEW s \in Scratches PROVE value[j][s] = Reading(s, v, inside)
    <3>1. j \in DOMAIN Cells
      OBVIOUS
    <3>2. value[j] = ReadOf(value, j)
      <4> HIDE DEF j
      <4> QED BY <3>1, ValueIs
    <3> HIDE DEF j
    <3> QED BY <3>2 DEF ReadOf
  <2>4. \A i \in 1 .. Len(in) : in[i] \in DOMAIN Cells /\ in[i] \in 1 .. n
    <3> HIDE DEF in
    <3>1. n \in Nat /\ n + 1 <= Len(Cells)
      BY CellsAssumption
    <3> QED BY <2>1, <3>1, CellsAssumption
  <2>5. \A i \in 1 .. Len(in) : Good(in[i])
    <3> HIDE DEF in
    <3> QED BY <2>4
  <2>6. v \in Leaves \union Nests(1 .. j - 1)
    BY CellsAssumption
  <2> HIDE DEF in
  <2>7. Len(meant) = Len(in)
    BY <2>1, LenIs
  <2>8. ASSUME NEW s \in Scratches PROVE ReadsAs(Reading(s, v, inside), Meaning(v, meant))
    <3>1. CASE v \in Leaves
      <4>1. Len(in) = 0
        <5>1. v.type \notin {"list", "path", "record"}
          <6> HIDE DEF v
          <6> QED BY <3>1 DEF Leaves, Temps
        <5>2. in = <<>>
          BY <5>1 DEF Inside, in
        <5> QED BY <5>2
      <4> HIDE DEF v, meant, inside
      <4> QED BY <3>1, <4>1, <2>7, LeafReads
    <3>2. CASE v \in Nests(1 .. j - 1)
      <4>1. ASSUME NEW i \in 1 .. Len(meant), NEW t \in Scratches
            PROVE IsRead(inside[i][t]) /\ ReadsAs(inside[i][t], meant[i])
        <5>1. i \in 1 .. Len(in)
          BY <2>7
        <5>2. inside[i] = value[in[i]] /\ meant[i] = Means[in[i]]
          BY <5>1
        <5> HIDE DEF inside, meant
        <5> QED BY <5>1, <5>2, <2>5 DEF Good
      <4>2. j \in DOMAIN Cells /\ Len(meant) = Len(Inside(Cells[j]))
        BY <2>7 DEF in
      <4> HIDE DEF inside, meant, j
      <4> QED BY <3>2, <4>1, <4>2, NestReads
    <3> QED BY <2>6, <3>1, <3>2
  <2> HIDE DEF j, v, meant, inside
  <2>9. Good(j)
    BY <2>2, <2>3, <2>8, ReadingIsRead DEF Good
  <2> QED BY <2>9 DEF j
<1>3. \A n \in Nat : n \in S
  <2>1. S \in SUBSET Nat
    OBVIOUS
  <2> HIDE DEF S
  <2> QED BY <1>1, <1>2, <2>1, Induction
<1>4. k \in Nat /\ k \in 1 .. k
  BY CellsAssumption
<1>5. Good(k)
  <2> HIDE DEF Good
  <2> QED BY <1>3, <1>4
<1> QED BY <1>5

(***************************************************************************)
(* Scanning.                                                               *)
(***************************************************************************)

\* The type of the Go value a cell is read as.
Tag(v) ==
    CASE v.type = "null" -> "nil" [] v.type = "int" -> "int64" [] v.type = "float" -> "float64"
      [] v.type = "bytes" -> "[]byte" [] v.type = "decimal" -> "Decimal"
      [] v.type = "node" -> "Node" [] v.type = "rel" -> "Rel" [] v.type = "list" -> "[]any"
      [] v.type = "path" -> "Path" [] v.type = "record" -> "Record"
      [] v.type = "temporal" -> v.kind [] OTHER -> v.type

\* A tuple put down under another type.
LEMMA ReTyped ==
    ASSUME NEW a, NEW b, NEW c, NEW d, NEW e
    PROVE  /\ [<<a>> EXCEPT ![1] = e] = <<e>>
           /\ [<<a, b>> EXCEPT ![1] = e] = <<e, b>>
           /\ [<<a, b, c>> EXCEPT ![1] = e] = <<e, b, c>>
           /\ [<<a, b, c, d>> EXCEPT ![1] = e] = <<e, b, c, d>>
OBVIOUS

\* Every value begins with its type.
LEMMA TagIs ==
    ASSUME NEW v, NEW meant
    PROVE  /\ Meaning(v, meant).is[1] = Tag(v)
           /\ [Meaning(v, meant).is EXCEPT ![1] = Tag(v)] = Meaning(v, meant).is
<1> DEFINE is == Meaning(v, meant).is
<1> SUFFICES is[1] = Tag(v) /\ [is EXCEPT ![1] = Tag(v)] = is
  OBVIOUS
<1>1. CASE v.type = "null"
  <2>1. is = <<"nil">>
    BY <1>1 DEF Meaning, Nil
  <2> HIDE DEF is
  <2> QED BY <1>1, <2>1, ReTyped DEF Tag
<1>2. CASE v.type = "bool"
  <2>1. is = <<"bool", v.n = 1>>
    BY <1>2, Zenon DEF Meaning
  <2>2. Tag(v) = "bool"
    BY <1>2 DEF Tag
  <2> DEFINE b == v.n = 1
  <2> HIDE DEF is, b
  <2>3. is = <<"bool", b>>
    BY <2>1 DEF b
  <2> QED BY <2>2, <2>3, ReTyped
<1>3. CASE v.type \in {"int", "float", "string", "bytes"}
  <2>1. v.type = "int" => is = <<"int64", v.n>>
    BY DEF Meaning
  <2>2. v.type = "float" => is = <<"float64", v.f>>
    BY DEF Meaning
  <2>3. v.type = "string" => is = <<"string", v.s>>
    BY DEF Meaning
  <2>4. v.type = "bytes" => is = <<"[]byte", v.s>>
    BY DEF Meaning
  <2> HIDE DEF is
  <2> QED BY <1>3, <2>1, <2>2, <2>3, <2>4, ReTyped DEF Tag
<1>4. CASE v.type \in {"decimal", "node", "rel"}
  <2>1. v.type = "decimal" => is = <<"Decimal", v.unscaled, v.scale>>
    BY DEF Meaning
  <2>2. v.type = "node" => is = <<"Node", v.table, v.offset>>
    BY DEF Meaning
  <2>3. v.type = "rel" => is = <<"Rel", v.table, v.src, v.dst>>
    BY DEF Meaning
  <2> HIDE DEF is
  <2> QED BY <1>4, <2>1, <2>2, <2>3, ReTyped DEF Tag
<1>5. CASE v.type \in {"list", "path", "record"}
  <2>1. v.type = "list" => \E x : is = <<"[]any", x>>
    BY DEF Meaning
  <2>2. v.type = "path" => \E x : is = <<"Path", x>>
    BY DEF Meaning
  <2>3. v.type = "record" => \E x : is = <<"Record", x>>
    BY DEF Meaning
  <2> HIDE DEF is
  <2> QED BY <1>5, <2>1, <2>2, <2>3, ReTyped DEF Tag
<1>6. CASE v.type = "temporal"
  <2>1. is = IF v.kind \in {"ZonedTime", "ZonedDateTime"} THEN <<v.kind, v.n, v.offset>>
             ELSE <<v.kind, v.n>>
    BY <1>6 DEF Meaning
  <2> HIDE DEF is
  <2> QED BY <1>6, <2>1, ReTyped DEF Tag
<1>7. CASE v.type \notin {"null", "bool", "int", "float", "string", "bytes", "decimal", "node", "rel",
                         "list", "path", "record", "temporal"}
  <2>1. is = <<v.type>>
    BY <1>7 DEF Meaning
  <2> HIDE DEF is
  <2> QED BY <1>7, <2>1, ReTyped DEF Tag
<1> QED BY <1>1, <1>2, <1>3, <1>4, <1>5, <1>6, <1>7

\* A cell read with nothing said of what is inside it, which a leaf has not.
LEMMA AloneReads ==
    ASSUME NEW sc \in Scratches, NEW k \in DOMAIN Cells,
           Cells[k].type \notin {"list", "path", "record"}
    PROVE  Cells[k] \in Leaves /\ ReadsAs(Reading(sc, Cells[k], <<>>), Means[k])
<1> DEFINE v == Cells[k]
           in == Inside(v)
           meant == [i \in 1 .. Len(in) |-> Means[in[i]]]
<1>1. v \in Leaves
  <2>1. v \in Leaves \union Nests(1 .. k - 1)
    BY CellsAssumption
  <2> HIDE DEF v
  <2>2. ASSUME v \in Nests(1 .. k - 1) PROVE v.type \in {"list", "path", "record"}
    BY <2>2 DEF Nests
  <2> QED BY <2>1, <2>2 DEF v
<1>2. in = <<>>
  BY DEF Inside
<1>3. Means[k] = Meaning(v, meant)
  BY MeansIs DEF MeantOf
<1>4. Len(meant) = 0
  <2> HIDE DEF in
  <2>1. Len(in) = 0
    BY <1>2
  <2> QED BY <2>1, LenIs
<1> HIDE DEF v, meant
<1>5. ReadsAs(Reading(sc, v, <<>>), Meaning(v, meant))
  BY <1>1, <1>4, LeafReads
<1> QED BY <1>1, <1>3, <1>5 DEF v

\* A cell read through what is inside it, as a scan does.
LEMMA InsideOfReads ==
    ASSUME NEW sc \in Scratches, NEW k \in DOMAIN Cells
    PROVE  /\ ReadsAs(Reading(sc, Cells[k], InsideOf(k)), Means[k])
           /\ Means[k].is[1] = Tag(Cells[k])
           /\ [Means[k].is EXCEPT ![1] = Tag(Cells[k])] = Means[k].is
           /\ Means[k].ok => Known(Cells[k])
<1>1. value[k][sc] = Reading(sc, Cells[k], InsideOf(k))
  <2>1. value[k] = ReadOf(value, k)
    BY ValueIs
  <2> QED BY <2>1 DEF ReadOf, InsideOf
<1> DEFINE meant == [i \in 1 .. Len(Inside(Cells[k])) |-> Means[Inside(Cells[k])[i]]]
<1>2. Means[k] = Meaning(Cells[k], meant)
  BY MeansIs DEF MeantOf
<1> HIDE DEF meant
<1>3. Means[k].ok => Known(Cells[k])
  BY <1>2, MeaningOk
<1> QED BY <1>1, <1>2, <1>3, ValueReads, TagIs

\* What the cells that scan and bind look into mean.
LEMMA MeansByType ==
    ASSUME NEW k \in DOMAIN Cells
    PROVE  LET v == Cells[k]
               is == Means[k].is
           IN
           /\ v.type = "null" => Means[k].ok /\ is = Nil
           /\ v.type = "int" => Means[k].ok /\ is = <<"int64", v.n>> /\ v.n \in RangeOf("int64")
           /\ v.type = "string" => is = <<"string", v.s>>
           /\ v.type = "bytes" => is = <<"[]byte", v.s>>
           /\ v.type = "temporal" =>
                 /\ Means[k].ok <=> v.kind \in Kinds
                 /\ is = IF v.kind \in {"ZonedTime", "ZonedDateTime"} THEN <<v.kind, v.n, v.offset>>
                         ELSE <<v.kind, v.n>>
<1> DEFINE v == Cells[k]
           meant == [i \in 1 .. Len(Inside(v)) |-> Means[Inside(v)[i]]]
           is == Means[k].is
<1>1. Means[k] = Meaning(v, meant)
  BY MeansIs DEF MeantOf
<1>2. ASSUME v.type \in {"null", "int", "temporal"} PROVE Means[k].ok <=> Known(v)
  <2>1. Len(meant) = 0
    <3>1. Inside(v) = <<>>
      BY <1>2 DEF Inside
    <3> DEFINE in == Inside(v)
    <3> HIDE DEF in
    <3>2. Len(in) = 0
      BY <3>1 DEF in
    <3> QED BY <3>2, LenIs DEF in
  <2> HIDE DEF meant
  <2> QED BY <1>1, <2>1, MeaningOk
<1>3. v.type = "int" => v.n \in RangeOf("int64")
  <2>1. v \in Leaves \union Nests(1 .. k - 1)
    BY CellsAssumption
  <2> HIDE DEF v
  <2> QED BY <2>1 DEF Leaves, Nests, Temps
<1> HIDE DEF v, meant
<1>4. v.type = "null" => Means[k].ok /\ is = Nil
  BY <1>1, <1>2 DEF Meaning, Known
<1>5. v.type = "int" => Means[k].ok /\ is = <<"int64", v.n>>
  BY <1>1, <1>2 DEF Meaning, Known
<1>6. v.type = "string" => is = <<"string", v.s>>
  BY <1>1 DEF Meaning
<1>7. v.type = "bytes" => is = <<"[]byte", v.s>>
  BY <1>1 DEF Meaning
<1>8. ASSUME v.type = "temporal"
      PROVE  /\ Means[k].ok <=> v.kind \in Kinds
             /\ is = IF v.kind \in {"ZonedTime", "ZonedDateTime"} THEN <<v.kind, v.n, v.offset>>
                     ELSE <<v.kind, v.n>>
  <2>1. Means[k].ok <=> v.kind \in Kinds
    BY <1>2, <1>8 DEF Known
  <2>2. is = IF v.kind \in {"ZonedTime", "ZonedDateTime"} THEN <<v.kind, v.n, v.offset>>
             ELSE <<v.kind, v.n>>
    BY <1>1, <1>8 DEF Meaning
  <2> QED BY <2>1, <2>2
<1> QED BY <1>3, <1>4, <1>5, <1>6, <1>7, <1>8 DEF v

\* What a scan owes its caller, whatever the scratch: ScanKeepsTheValue, of
\* the answer out, with a scratch that is still one.
Kept(v, m, dest, out) ==
    out.ok /\ dest.base \notin Floats =>
        /\ m.ok
        /\ IF dest.base = "time.Time" /\ v.type # "null" THEN out.put[2] = Instant(m.is)
           ELSE IF dest.base = "time.Duration" /\ v.type = "int" THEN out.put[2] = v.n
           ELSE Stands(out.put) = Stands(m.is)
NullKept(v, dest, out) ==
    v.type = "null" /\ out.ok => dest.depth > 0 \/ dest.base \notin Kinds \union Signed
Taken(v, m, dest, out) ==
    m.ok /\ v.type # "null" /\ ~dest.named =>
        /\ dest.base \in {"any", m.is[1]} => out.ok
        /\ v.type = "int" /\ dest.base \in Signed \union Unsigned =>
               (out.ok <=> v.n \in RangeOf(dest.base))
Scanned(v, m, dest, out) ==
    out.sc \in Scratches /\ Kept(v, m, dest, out) /\ NullKept(v, dest, out) /\ Taken(v, m, dest, out)

\* The types of the cell and of the value tell each other.
LEMMA TagTells ==
    ASSUME NEW k \in DOMAIN Cells, Known(Cells[k])
    PROVE  LET v == Cells[k]
               tag == Tag(v)
           IN
           /\ tag \notin {"any", "float32", "time.Time"}
           /\ tag \in Signed \union Unsigned => tag = "int64"
           /\ v.type = "int" <=> tag = "int64"
           /\ v.type = "float" <=> tag = "float64"
           /\ v.type = "bytes" <=> tag = "[]byte"
           /\ v.type = "string" <=> tag = "string"
           /\ v.type = "bool" <=> tag = "bool"
           /\ \A b \in Composites : v.type = CellOf[b] <=> tag = b
           /\ v.type = "temporal" <=> tag \in Kinds
<1> DEFINE v == Cells[k]
           tag == Tag(v)
<1>1. CASE v.type = "temporal"
  <2>1. tag = v.kind /\ v.kind \in Kinds
    BY <1>1 DEF Tag, Known
  <2> HIDE DEF v, tag
  <2> QED BY <1>1, <2>1 DEF Kinds, Signed, Unsigned, Composites, CellOf, v, tag
<1>2. CASE v.type # "temporal"
  <2>1. v.type \in {"null", "graph", "binding table", "bool", "int", "float", "string", "bytes",
                    "decimal", "node", "rel", "list", "path", "record"}
    <3>1. v \in Leaves \union Nests(1 .. k - 1)
      BY CellsAssumption
    <3> HIDE DEF v
    <3>2. Known(v)
      BY DEF v
    <3> QED BY <1>2, <3>1, <3>2 DEF Leaves, Nests, Temps, Known
  <2> HIDE DEF v
  <2> QED BY <2>1 DEF Tag, Kinds, Signed, Unsigned, Composites, CellOf, v
<1> QED BY <1>1, <1>2

\* The fields of a scan's answer.
LEMMA Answers ==
    ASSUME NEW sc, NEW x
    PROVE  /\ Refused(sc, x).sc = sc /\ ~Refused(sc, x).ok
           /\ Given(sc, x).sc = sc /\ Given(sc, x).ok /\ Given(sc, x).put = x
BY DEF Refused, Given

\* One lemma for each way a destination is filled.  A null:
LEMMA NullScan ==
    ASSUME NEW sc \in Scratches, NEW k \in DOMAIN Cells, NEW dest \in Destinations,
           Cells[k].type = "null"
    PROVE  Scanned(Cells[k], Means[k], dest, scanNull(sc, dest))
<1> DEFINE v == Cells[k]
           m == Means[k]
           out == scanNull(sc, dest)
<1>1. m.ok /\ m.is = Nil
  BY MeansByType
<1>2. CASE dest.depth > 0 \/ dest.base \in {"any", "[]byte", "[]any", "Path", "Record"}
  <2>1. out = Given(sc, Nil)
    BY <1>2 DEF scanNull
  <2> HIDE DEF v, m, out
  <2>2. out.sc = sc /\ out.ok /\ out.put = Nil
    BY <2>1, Answers
  <2>3. Kept(v, m, dest, out)
    BY <1>1, <2>2 DEF Kept, v
  <2>4. NullKept(v, dest, out)
    BY <1>2 DEF NullKept, Kinds, Signed
  <2>5. Taken(v, m, dest, out)
    BY DEF Taken, v
  <2> QED BY <2>2, <2>3, <2>4, <2>5 DEF Scanned, v, m, out
<1>3. CASE ~(dest.depth > 0 \/ dest.base \in {"any", "[]byte", "[]any", "Path", "Record"})
  <2>1. out = Refused(sc, "null")
    BY <1>3 DEF scanNull
  <2> HIDE DEF v, m, out
  <2>2. out.sc = sc /\ ~out.ok
    BY <2>1, Answers
  <2> QED BY <2>2 DEF Scanned, Kept, NullKept, Taken, v, m, out
<1> QED BY <1>2, <1>3

\* The engine's integer in the scratch is the cell's.
LEMMA IntegerAccessed ==
    ASSUME NEW sc \in Scratches, NEW k \in DOMAIN Cells, Cells[k].type = "int"
    PROVE  Accessed(sc, Cells[k]) \in Scratches /\ Accessed(sc, Cells[k]).i64 = Cells[k].n
<1> DEFINE v == Cells[k]
<1>1. v.type = "int" /\ v.n \in Int
  <2>1. v.n \in RangeOf("int64")
    BY MeansByType
  <2> QED BY <2>1 DEF RangeOf, Signed
<1> HIDE DEF v
<1>2. Accessed(sc, v) \in Scratches /\ Accessed(sc, v).i64 = v.n
  BY <1>1 DEF Accessed, Scratches
<1> QED BY <1>2 DEF v

\* An integer is taken exactly when it fits, and is then the one there.
LEMMA IntegerReads ==
    ASSUME NEW sc \in Scratches, NEW k \in DOMAIN Cells, NEW base
    PROVE  LET out == integer(sc, Cells[k], base) IN
           /\ out.sc \in Scratches
           /\ out.ok <=> Cells[k].type = "int" /\ Cells[k].n \in RangeOf(base)
           /\ out.ok => out.put = <<base, Cells[k].n>>
<1> DEFINE v == Cells[k]
           s == Accessed(sc, v)
           out == integer(sc, v, base)
<1>1. CASE v.type # "int"
  <2>1. out = Refused(sc, "mismatch")
    BY <1>1 DEF integer
  <2> QED BY <1>1, <2>1, Answers
<1>2. CASE v.type = "int"
  <2>1. s \in Scratches /\ s.i64 = v.n
    BY <1>2, IntegerAccessed
  <2>2. CASE v.n \in RangeOf(base)
    <3>1. out = Given(s, <<base, v.n>>)
      BY <1>2, <2>1, <2>2 DEF integer
    <3> QED BY <1>2, <2>1, <2>2, <3>1, Answers
  <2>3. CASE v.n \notin RangeOf(base)
    <3>1. \E why : out = Refused(s, why)
      BY <1>2, <2>1, <2>3 DEF integer
    <3> QED BY <2>1, <2>3, <3>1, Answers
  <2> QED BY <2>2, <2>3
<1> QED BY <1>1, <1>2

\* An integer in a destination of any width.
LEMMA IntegerScan ==
    ASSUME NEW sc \in Scratches, NEW k \in DOMAIN Cells, NEW dest \in Destinations,
           Cells[k].type # "null", dest.base \in Signed \union Unsigned
    PROVE  Scanned(Cells[k], Means[k], dest, integer(sc, Cells[k], dest.base))
<1> DEFINE v == Cells[k]
           m == Means[k]
           base == dest.base
           out == integer(sc, v, base)
<1>1. /\ out.sc \in Scratches
      /\ out.ok <=> v.type = "int" /\ v.n \in RangeOf(base)
      /\ out.ok => out.put = <<base, v.n>>
  BY IntegerReads
<1>2. v.type = "int" => m.ok /\ m.is = <<"int64", v.n>> /\ v.n \in RangeOf("int64")
  BY MeansByType
<1>3. m.is[1] = Tag(v) /\ (m.ok => Known(v))
  BY InsideOfReads
<1> HIDE DEF m, out
<1>4. Kept(v, m, dest, out)
  <2> SUFFICES ASSUME out.ok PROVE m.ok /\ Stands(out.put) = Stands(m.is)
    BY DEF Kept, Signed, Unsigned
  <2>1. out.put = <<base, v.n>> /\ m.ok /\ m.is = <<"int64", v.n>>
    BY <1>1, <1>2
  <2>2. Stands(out.put) = <<"number", v.n>> /\ Stands(m.is) = <<"number", v.n>>
    BY <2>1 DEF Stands, Signed, Unsigned
  <2> QED BY <2>1, <2>2
<1>5. Taken(v, m, dest, out)
  <2> SUFFICES ASSUME m.ok, ~dest.named, base \in {"any", m.is[1]} PROVE out.ok
    BY <1>1 DEF Taken
  <2>1. base = Tag(v)
    BY <1>3 DEF Signed, Unsigned
  <2>2. v.type = "int" /\ base = "int64"
    BY <1>3, <2>1, TagTells
  <2> QED BY <1>1, <1>2, <2>2
<1> QED BY <1>1, <1>4, <1>5 DEF Scanned, NullKept, m, out

\* A float destination takes the numbers and nothing else.
LEMMA FloatScan ==
    ASSUME NEW sc \in Scratches, NEW k \in DOMAIN Cells, NEW dest \in Destinations,
           Cells[k].type # "null", dest.base \in Floats
    PROVE  Scanned(Cells[k], Means[k], dest, approximate(sc, Cells[k], dest.base))
<1> DEFINE v == Cells[k]
           m == Means[k]
           base == dest.base
           out == approximate(sc, v, base)
<1>1. CASE v.type \notin {"float", "int", "decimal"}
  <2>1. out = Refused(sc, "mismatch")
    BY <1>1 DEF approximate
  <2>2. m.is[1] = Tag(v) /\ (m.ok => Known(v))
    BY InsideOfReads
  <2> HIDE DEF m, out
  <2>3. out.sc = sc /\ ~out.ok
    BY <2>1, Answers
  <2>4. m.ok => base # Tag(v) /\ base # "any"
    BY <1>1, <2>2, TagTells DEF Floats
  <2> QED
    BY <2>2, <2>3, <2>4 DEF Scanned, Kept, NullKept, Taken, Floats, Signed, Unsigned, m, out
<1>2. CASE v.type \in {"float", "int", "decimal"}
  <2>1. \E x : out = Given(Reading(sc, v, <<>>).sc, x)
    BY <1>2 DEF approximate
  <2>2. Reading(sc, v, <<>>).sc \in Scratches
    BY <1>2, AloneReads DEF ReadsAs
  <2> HIDE DEF m, out
  <2>3. out.sc \in Scratches /\ out.ok
    BY <2>1, <2>2, Answers
  <2> QED
    BY <2>3 DEF Scanned, Kept, NullKept, Taken, Floats, Signed, Unsigned, m, out
<1> QED BY <1>1, <1>2

\* A value put as it was read, under the type of its destination.
LEMMA WholeReads ==
    ASSUME NEW sc \in Scratches, NEW k \in DOMAIN Cells, NEW accepted, NEW base, base # "any"
    PROVE  LET out == Whole(sc, Cells[k], InsideOf(k), accepted, base)
               m == Means[k]
           IN
           /\ out.sc \in Scratches
           /\ out.ok <=> Cells[k].type \in accepted /\ m.ok
           /\ out.ok => out.put = [m.is EXCEPT ![1] = base]
<1> DEFINE v == Cells[k]
           m == Means[k]
           out == Whole(sc, v, InsideOf(k), accepted, base)
           r == Reading(sc, v, InsideOf(k))
<1>1. r.sc \in Scratches /\ (r.ok <=> m.ok) /\ (r.ok => r.got = m.is)
  BY InsideOfReads DEF ReadsAs
<1>2. CASE v.type \notin accepted
  <2>1. out = Refused(sc, "mismatch")
    BY <1>2 DEF Whole
  <2> QED BY <1>2, <2>1, Answers
<1>3. CASE v.type \in accepted /\ ~r.ok
  <2>1. out = Refused(r.sc, "unknown")
    BY <1>3 DEF Whole
  <2> HIDE DEF r
  <2> QED BY <1>1, <1>3, <2>1, Answers
<1>4. CASE v.type \in accepted /\ r.ok
  <2>1. out = Given(r.sc, [r.got EXCEPT ![1] = base])
    BY <1>4 DEF Whole
  <2> HIDE DEF r
  <2> QED BY <1>1, <1>4, <2>1, Answers
<1> QED BY <1>2, <1>3, <1>4

\* A cell put whole in a destination of the type it is read as.
LEMMA WholeScan ==
    ASSUME NEW sc \in Scratches, NEW k \in DOMAIN Cells, NEW dest \in Destinations, NEW type,
           Cells[k].type # "null", dest.base \in Composites \union {"bool", "string"},
           type = CellOf[dest.base]
    PROVE  Scanned(Cells[k], Means[k], dest,
                   Whole(sc, Cells[k], InsideOf(k), {type}, dest.base))
<1> DEFINE v == Cells[k]
           m == Means[k]
           base == dest.base
           out == Whole(sc, v, InsideOf(k), {type}, base)
<1>1. /\ out.sc \in Scratches
      /\ out.ok <=> v.type = type /\ m.ok
      /\ out.ok => out.put = [m.is EXCEPT ![1] = base]
  <2>1. base # "any"
    BY DEF Composites
  <2> QED BY <2>1, WholeReads
<1>2. /\ m.is[1] = Tag(v) /\ (m.ok => Known(v))
      /\ [m.is EXCEPT ![1] = Tag(v)] = m.is
  BY InsideOfReads
<1>3. /\ base \notin {"time.Time", "time.Duration", "any"} /\ base \notin Kinds \union Signed \union Unsigned
      /\ type = CellOf[base] /\ (base \in {"bool", "string"} => type = base)
  BY DEF Composites, Kinds, Signed, Unsigned, CellOf
<1>4. m.ok => (v.type = type <=> Tag(v) = base)
  BY <1>2, <1>3, TagTells
<1> HIDE DEF m, out, base
<1>5. Kept(v, m, dest, out)
  BY <1>1, <1>2, <1>3, <1>4 DEF Kept, base
<1>6. Taken(v, m, dest, out)
  BY <1>1, <1>2, <1>3, <1>4 DEF Taken, base
<1>7. NullKept(v, dest, out)
  BY DEF NullKept
<1> QED BY <1>1, <1>5, <1>6, <1>7 DEF Scanned, m, out, base

\* Octets take text as well.
LEMMA BytesScan ==
    ASSUME NEW sc \in Scratches, NEW k \in DOMAIN Cells, NEW dest \in Destinations,
           Cells[k].type # "null", dest.base = "[]byte"
    PROVE  Scanned(Cells[k], Means[k], dest,
                   Whole(sc, Cells[k], InsideOf(k), {"string", "bytes"}, dest.base))
<1> DEFINE v == Cells[k]
           m == Means[k]
           out == Whole(sc, v, InsideOf(k), {"string", "bytes"}, dest.base)
<1>1. /\ out.sc \in Scratches
      /\ out.ok <=> v.type \in {"string", "bytes"} /\ m.ok
      /\ out.ok => out.put = [m.is EXCEPT ![1] = "[]byte"]
  BY WholeReads
<1>2. m.is[1] = Tag(v) /\ (m.ok => Known(v))
  BY InsideOfReads
<1>3. /\ v.type = "string" => m.is = <<"string", v.s>>
      /\ v.type = "bytes" => m.is = <<"[]byte", v.s>>
  BY MeansByType
<1> HIDE DEF m, out
<1>4. Kept(v, m, dest, out)
  <2> SUFFICES ASSUME out.ok PROVE m.ok /\ Stands(out.put) = Stands(m.is)
    BY DEF Kept
  <2>1. out.put = <<"[]byte", v.s>>
    BY <1>1, <1>3, ReTyped
  <2>2. Stands(out.put) = <<"octets", v.s>> /\ Stands(m.is) = <<"octets", v.s>>
    BY <1>1, <1>3, <2>1 DEF Stands, Signed, Unsigned
  <2> QED BY <1>1, <2>2
<1>5. Taken(v, m, dest, out)
  BY <1>1, <1>2, TagTells DEF Taken, Signed, Unsigned
<1>6. NullKept(v, dest, out)
  BY DEF NullKept
<1> QED BY <1>1, <1>4, <1>5, <1>6 DEF Scanned, m, out

\* An any takes whatever can be read.
LEMMA AnyScan ==
    ASSUME NEW sc \in Scratches, NEW k \in DOMAIN Cells, NEW dest \in Destinations,
           Cells[k].type # "null", dest.base = "any"
    PROVE  Scanned(Cells[k], Means[k], dest,
                   Whole(sc, Cells[k], InsideOf(k), {Cells[k].type}, dest.base))
<1> DEFINE v == Cells[k]
           m == Means[k]
           out == Whole(sc, v, InsideOf(k), {v.type}, dest.base)
<1>1. out.sc \in Scratches /\ (out.ok <=> m.ok) /\ (out.ok => out.put = m.is)
  <2> DEFINE r == Reading(sc, v, InsideOf(k))
  <2>1. r.sc \in Scratches /\ (r.ok <=> m.ok) /\ (r.ok => r.got = m.is)
    BY InsideOfReads DEF ReadsAs
  <2>2. CASE r.ok
    <3>1. out = Given(r.sc, r.got)
      BY <2>2 DEF Whole
    <3> HIDE DEF r, out
    <3> QED BY <2>1, <2>2, <3>1, Answers
  <2>3. CASE ~r.ok
    <3>1. out = Refused(r.sc, "unknown")
      BY <2>3 DEF Whole
    <3> HIDE DEF r, out
    <3> QED BY <2>1, <2>3, <3>1, Answers
  <2> QED BY <2>2, <2>3
<1> HIDE DEF m, out
<1> QED BY <1>1 DEF Scanned, Kept, NullKept, Taken, Signed, Unsigned, m, out

\* A duration a program named takes integers.
LEMMA NamedDurationScan ==
    ASSUME NEW sc \in Scratches, NEW k \in DOMAIN Cells, NEW dest \in Destinations,
           Cells[k].type # "null", dest.base = "time.Duration", dest.named
    PROVE  Scanned(Cells[k], Means[k], dest, NamedDuration(sc, Cells[k]))
<1> DEFINE v == Cells[k]
           m == Means[k]
           r == integer(sc, v, "int64")
           out == NamedDuration(sc, v)
<1>1. /\ r.sc \in Scratches
      /\ r.ok <=> v.type = "int" /\ v.n \in RangeOf("int64")
      /\ r.ok => r.put = <<"int64", v.n>>
  BY IntegerReads
<1>2. v.type = "int" => m.ok
  BY MeansByType
<1>3. out.sc = r.sc /\ (out.ok <=> r.ok) /\ (r.ok => out.put = <<"time.Duration", v.n>>)
  <2>1. out = [r EXCEPT !.put = IF r.ok THEN <<"time.Duration", r.put[2]>> ELSE Nil]
    BY DEF NamedDuration
  <2>2. \E a, b, c, d : r = [sc |-> a, ok |-> b, why |-> c, put |-> d]
    BY DEF integer, Refused, Given
  <2> HIDE DEF r, out
  <2>3. out.sc = r.sc /\ out.ok = r.ok
    BY <2>1, <2>2
  <2>4. out.put = IF r.ok THEN <<"time.Duration", r.put[2]>> ELSE Nil
    BY <2>1, <2>2
  <2> QED BY <1>1, <2>3, <2>4
<1> HIDE DEF m, out, r
<1> QED BY <1>1, <1>2, <1>3 DEF Scanned, Kept, NullKept, Taken, m, out

\* A temporal goes into its own type, and into the two of package time.
LEMMA TemporalScan ==
    ASSUME NEW sc \in Scratches, NEW k \in DOMAIN Cells, NEW dest \in Destinations,
           Cells[k].type # "null", dest.base \in Temporals
    PROVE  Scanned(Cells[k], Means[k], dest, scanTemporal(sc, Cells[k], dest.base))
<1> DEFINE v == Cells[k]
           m == Means[k]
           base == dest.base
           r == Reading(sc, v, <<>>)
           out == scanTemporal(sc, v, base)
<1>1. m.is[1] = Tag(v) /\ (m.ok => Known(v))
  BY InsideOfReads
<1>2. base \notin Signed \union Unsigned \union Floats \union {"any"}
  BY DEF Temporals, Kinds, Signed, Unsigned, Floats
<1>3. CASE v.type # "temporal"
  <2>1. out = Refused(sc, "mismatch")
    BY <1>3 DEF scanTemporal
  <2> HIDE DEF out, m, base
  <2>2. out.sc = sc /\ ~out.ok
    BY <2>1, Answers
  <2>3. m.ok => base # Tag(v)
    BY <1>1, <1>3, TagTells DEF Temporals, base
  <2> QED
    BY <1>1, <1>2, <2>2, <2>3 DEF Scanned, Kept, NullKept, Taken, out, m, base
<1>4. CASE v.type = "temporal"
  <2>1. r.sc \in Scratches /\ (r.ok <=> m.ok) /\ (r.ok => r.got = m.is)
    BY <1>4, AloneReads DEF ReadsAs
  <2>2. /\ m.ok <=> v.kind \in Kinds
        /\ m.is = IF v.kind \in {"ZonedTime", "ZonedDateTime"} THEN <<v.kind, v.n, v.offset>>
                  ELSE <<v.kind, v.n>>
    BY <1>4, MeansByType
  <2>3. Tag(v) = v.kind
    BY <1>4 DEF Tag
  <2>4. CASE ~r.ok
    <3>1. out = Refused(r.sc, "unknown")
      BY <1>4, <2>4 DEF scanTemporal
    <3> HIDE DEF out, m, r
    <3>2. out.sc = r.sc /\ ~out.ok
      BY <3>1, Answers
    <3> QED
      BY <2>1, <2>4, <3>2 DEF Scanned, Kept, NullKept, Taken, out, m
  <2>5. CASE r.ok
    <3> DEFINE got == r.got
    <3>1. m.ok /\ got = m.is /\ v.kind \in Kinds /\ got[1] = v.kind
      BY <1>1, <2>1, <2>2, <2>3, <2>5
    <3>2. out = CASE got[1] = base -> Given(r.sc, got)
                  [] base = "time.Time" /\ got[1] \in {"ZonedDateTime", "LocalDateTime", "Date"} ->
                       Given(r.sc, Time(got))
                  [] base = "time.Duration" /\ got[1] = "LocalTime" -> Given(r.sc, <<base, got[2]>>)
                  [] OTHER -> Refused(r.sc, "mismatch")
      BY <1>4, <2>5 DEF scanTemporal
    <3> HIDE DEF out, m, r, got, base
    <3>3. CASE got[1] = base
      <4>1. base # "time.Time"
        BY <3>1, <3>3 DEF Kinds
      <4>2. out = Given(r.sc, got)
        BY <3>2, <3>3, <4>1, <3>1
      <4>3. out.sc = r.sc /\ out.ok /\ out.put = m.is
        BY <3>1, <4>2, Answers
      <4> QED
        BY <1>2, <1>4, <2>1, <3>1, <4>1, <4>3 DEF Scanned, Kept, NullKept, Taken, out, m, base
    <3>4. CASE base = "time.Time" /\ got[1] \in {"ZonedDateTime", "LocalDateTime", "Date"}
      <4>1. out = Given(r.sc, Time(got))
        BY <3>2, <3>4
      <4>2. out.sc = r.sc /\ out.ok /\ out.put = Time(got)
        BY <4>1, Answers
      <4>3. Time(got)[2] = Instant(got)
        BY <3>4 DEF Time, Instant
      <4> QED
        BY <1>1, <1>2, <1>4, <2>1, <2>3, <3>1, <3>4, <4>2, <4>3
           DEF Scanned, Kept, NullKept, Taken, out, m, base
    <3>5. CASE base = "time.Duration" /\ got[1] = "LocalTime"
      <4>1. out = Given(r.sc, <<base, got[2]>>)
        BY <3>2, <3>5
      <4>2. out.sc = r.sc /\ out.ok /\ out.put = <<base, got[2]>>
        BY <4>1, Answers
      <4>3. Stands(out.put) = <<"nanos", got[2]>> /\ Stands(got) = <<"nanos", got[2]>>
        BY <3>5, <4>2 DEF Stands, Signed, Unsigned
      <4> QED
        BY <1>1, <1>2, <1>4, <2>1, <2>3, <3>1, <3>5, <4>2, <4>3
           DEF Scanned, Kept, NullKept, Taken, out, m, base
    <3>6. CASE /\ got[1] # base
               /\ ~(base = "time.Time" /\ got[1] \in {"ZonedDateTime", "LocalDateTime", "Date"})
               /\ ~(base = "time.Duration" /\ got[1] = "LocalTime")
      <4>1. out = Refused(r.sc, "mismatch")
        BY <3>2, <3>6
      <4>2. out.sc = r.sc /\ ~out.ok
        BY <4>1, Answers
      <4> QED
        BY <1>1, <1>2, <1>4, <2>1, <2>3, <3>1, <3>6, <4>2
           DEF Scanned, Kept, NullKept, Taken, out, m, base
    <3> QED BY <3>3, <3>4, <3>5, <3>6
  <2> QED BY <2>4, <2>5
<1> QED BY <1>3, <1>4

\* Every scan of every cell into every destination keeps ScanKeepsTheValue.
LEMMA ScanScanned ==
    ASSUME NEW sc \in Scratches, NEW k \in DOMAIN Cells, NEW dest \in Destinations
    PROVE  Scanned(Cells[k], Means[k], dest, scan(sc, Cells[k], InsideOf(k), dest))
<1> DEFINE v == Cells[k]
           base == dest.base
           out == scan(sc, v, InsideOf(k), dest)
<1> SUFFICES Scanned(v, Means[k], dest, out)
  OBVIOUS
<1>0. base \in Signed \union Unsigned \union Floats \union Temporals \union Composites
              \union {"any", "bool", "string", "[]byte"}
  BY DEF Destinations
<1>1. CASE v.type = "null"
  <2>1. out = scanNull(sc, dest)
    BY <1>1 DEF scan
  <2> QED BY <1>1, <2>1, NullScan
<1>2. CASE v.type # "null" /\ base \in Signed \union Unsigned
  <2>1. base \notin Floats \union {"bool", "string", "time.Duration"}
    BY <1>2 DEF Signed, Unsigned, Floats
  <2>2. out = integer(sc, v, base)
    BY <1>2, <2>1 DEF scan
  <2> QED BY <1>2, <2>2, IntegerScan
<1>3. CASE v.type # "null" /\ base \in Floats
  <2>1. base \notin Signed \union Unsigned \union {"bool", "string", "time.Duration"}
    BY <1>3 DEF Signed, Unsigned, Floats
  <2>2. out = approximate(sc, v, base)
    BY <1>3, <2>1 DEF scan
  <2> QED BY <1>3, <2>2, FloatScan
<1>4. CASE v.type # "null" /\ base \in {"bool", "string"}
  <2>1. base \notin Signed \union Unsigned \union Floats \union {"time.Duration"}
    BY <1>4 DEF Signed, Unsigned, Floats
  <2>2. out = Whole(sc, v, InsideOf(k), {base}, base)
    BY <1>4, <2>1 DEF scan
  <2>3. CellOf[base] = base
    BY <1>4 DEF CellOf, Composites
  <2> QED BY <1>4, <2>2, <2>3, WholeScan
<1>5. CASE v.type # "null" /\ base = "time.Duration" /\ dest.named
  <2>1. base \notin Signed \union Unsigned \union Floats \union {"bool", "string"}
    BY <1>5 DEF Signed, Unsigned, Floats
  <2>2. out = NamedDuration(sc, v)
    BY <1>5, <2>1 DEF scan
  <2> QED BY <1>5, <2>2, NamedDurationScan
<1> DEFINE Other == base \notin Signed \union Unsigned \union Floats \union {"bool", "string"}
<1>6. CASE v.type # "null" /\ Other /\ base # "time.Duration" /\ dest.named
  <2>1. out = Refused(sc, "mismatch")
    BY <1>6 DEF scan
  <2> HIDE DEF out
  <2>2. out.sc = sc /\ ~out.ok
    BY <2>1, Answers
  <2> QED BY <1>6, <2>2 DEF Scanned, Kept, NullKept, Taken
<1>7. CASE v.type # "null" /\ Other /\ ~dest.named
  <2>1. out = IF base = "any" THEN Whole(sc, v, InsideOf(k), {v.type}, base)
              ELSE IF base \in Composites THEN Whole(sc, v, InsideOf(k), {CellOf[base]}, base)
              ELSE IF base = "[]byte" THEN Whole(sc, v, InsideOf(k), {"string", "bytes"}, base)
              ELSE scanTemporal(sc, v, base)
    BY <1>7 DEF scan
  <2> HIDE DEF out
  <2>2. CASE base = "any"
    <3>1. out = Whole(sc, v, InsideOf(k), {v.type}, base)
      BY <2>1, <2>2
    <3> QED BY <1>7, <2>2, <3>1, AnyScan
  <2>3. CASE base \in Composites
    <3>1. out = Whole(sc, v, InsideOf(k), {CellOf[base]}, base)
      BY <2>1, <2>3 DEF Composites
    <3> QED BY <1>7, <2>3, <3>1, WholeScan
  <2>4. CASE base = "[]byte"
    <3>1. out = Whole(sc, v, InsideOf(k), {"string", "bytes"}, base)
      BY <2>1, <2>4 DEF Composites
    <3> QED BY <1>7, <2>4, <3>1, BytesScan
  <2>5. CASE base \in Temporals
    <3>1. out = scanTemporal(sc, v, base)
      BY <2>1, <2>5 DEF Composites, Temporals, Kinds
    <3> QED BY <1>7, <2>5, <3>1, TemporalScan
  <2> QED BY <1>0, <1>7, <2>2, <2>3, <2>4, <2>5
<1>8. \/ base \in Signed \union Unsigned \/ base \in Floats \/ base \in {"bool", "string"}
      \/ Other
  OBVIOUS
<1>9. CASE v.type # "null" /\ Other
  BY <1>5, <1>6, <1>7, <1>9
<1> QED
  <2> HIDE DEF out, Other
  <2> QED BY <1>1, <1>2, <1>3, <1>4, <1>8, <1>9

(***************************************************************************)
(* Parameters.                                                             *)
(***************************************************************************)
\* A conversion to a signed type is a number of its width.
LEMMA WrappedRange ==
    ASSUME NEW t \in Signed, NEW n \in Int
    PROVE  Wrapped(n, Width[t]) \in RangeOf(t)
<1> DEFINE h == 2 ^ (Width[t] - 1)
           r == (n + h) % (2 * h)
<1>1. h \in Nat \ {0} /\ 2 ^ Width[t] = 2 * h
  BY WidthPowers, WidthAssumption
<1>2. Wrapped(n, Width[t]) = r - h
  BY <1>1 DEF Wrapped
<1>3. RangeOf(t) = -h .. h - 1
  BY DEF RangeOf
<1> HIDE DEF h
<1>4. r \in 0 .. 2 * h - 1
  BY <1>1
<1> HIDE DEF r
<1> QED BY <1>1, <1>2, <1>3, <1>4

\* The widths within each other, and where the engine's own ends.
LEMMA Ranges ==
    ASSUME NEW t \in Signed \union Unsigned, NEW n \in RangeOf(t)
    PROVE  /\ n \in Int
           /\ t \in Signed => n \in RangeOf("int64")
           /\ t \in Unsigned => (n \in RangeOf("int64") <=> ~(n >= 2 ^ (Word - 1)))
<1> DEFINE h == 2 ^ (Width[t] - 1)
           H == 2 ^ (Word - 1)
<1>1. h \in Nat \ {0} /\ 2 ^ Width[t] = 2 * h /\ h <= H
  BY WidthPowers, WidthAssumption
<1>2. H \in Nat \ {0} /\ RangeOf("int64") = -H .. H - 1
  BY WidthPowers, WidthAssumption DEF RangeOf, Signed, Word
<1>3. t \in Signed => RangeOf(t) = -h .. h - 1
  BY DEF RangeOf
<1>4. t \in Unsigned => RangeOf(t) = 0 .. 2 * h - 1
  BY <1>1 DEF RangeOf, Signed, Unsigned
<1> HIDE DEF h, H
<1> QED BY <1>1, <1>2, <1>3, <1>4 DEF H

\* The seconds of an offset as minutes: none is lost exactly when none is over.
LEMMA Quotients ==
    ASSUME NEW n \in RangeOf("int32")
    PROVE  /\ n \in Int /\ Quotient(n, Minute) \in RangeOf("int32")
           /\ Quotient(n, Minute) * Minute = n <=> n % Minute = 0
<1> DEFINE h == 2 ^ (Width["int32"] - 1)
           d == Minute
           q == Quotient(n, d)
<1>1. h \in Nat \ {0} /\ RangeOf("int32") = -h .. h - 1 /\ d \in Nat \ {0}
  BY WidthPowers, WidthAssumption DEF RangeOf, Signed
<1> HIDE DEF h, d
<1>2. n \in -h .. h - 1 /\ n \in Int
  BY <1>1
<1>3. ASSUME NEW m \in Nat
      PROVE /\ m \div d \in 0 .. m /\ m % d \in 0 .. d - 1
            /\ m = d * (m \div d) + (m % d)
  <2> DEFINE a == m \div d
             b == m % d
  <2>1. a \in Int /\ b \in 0 .. d - 1 /\ m = d * a + b
    BY <1>1
  <2> HIDE DEF a, b
  <2>2. a >= 0
    <3> SUFFICES ASSUME a <= -1 PROVE FALSE
      BY <2>1
    <3>1. d * a <= d * (-1)
      BY <1>1, <2>1
    <3> QED BY <1>1, <2>1, <3>1
  <2>3. a <= m
    <3>1. d * a >= a
      BY <1>1, <2>1, <2>2
    <3> QED BY <1>1, <2>1, <3>1
  <2> QED BY <2>1, <2>2, <2>3 DEF a, b
<1>4. CASE n >= 0
  <2> DEFINE a == n \div d
             b == n % d
  <2>1. n \in Nat /\ a \in 0 .. n /\ b \in 0 .. d - 1 /\ n = d * a + b
    BY <1>2, <1>3, <1>4
  <2>2. q = a
    BY <1>4 DEF Quotient
  <2> HIDE DEF a, b, q
  <2>3. d * a = a * d
    BY <1>1, <2>1
  <2>4. (a * d = n) <=> b = 0
    BY <1>1, <2>1, <2>3
  <2>5. a \in RangeOf("int32")
    BY <1>1, <1>2, <2>1
  <2> QED BY <1>2, <2>2, <2>4, <2>5 DEF q, d, b
<1>5. CASE ~(n >= 0)
  <2> DEFINE m == -n
             a == m \div d
             b == m % d
             c == n \div d
             e == n % d
  <2>1. m \in Nat /\ a \in 0 .. m /\ b \in 0 .. d - 1 /\ m = d * a + b
    <3>1. m \in Nat
      BY <1>2, <1>5
    <3> HIDE DEF m
    <3> QED BY <1>3, <3>1
  <2>2. q = -a
    BY <1>5 DEF Quotient
  <2>3. c \in Int /\ e \in 0 .. d - 1 /\ n = d * c + e
    BY <1>1, <1>2
  <2>4. m = -n
    OBVIOUS
  <2> HIDE DEF m, a, b, c, e, q
  <2>5. d * (a + c) + b + e = 0
    <3>1. d * (a + c) = d * a + d * c
      BY <1>1, <2>1, <2>3
    <3> QED BY <1>1, <1>2, <2>1, <2>3, <2>4, <3>1
  <2>6. b = 0 <=> e = 0
    <3> DEFINE s == a + c
    <3>1. s \in Int /\ d * s = -(b + e) /\ b + e \in 0 .. 2 * d - 2
      BY <1>1, <2>1, <2>3, <2>5
    <3> HIDE DEF s
    <3>2. s \in {0, -1}
      <4>1. s >= 1 => d * s >= d
        BY <1>1, <3>1
      <4>2. s <= -2 => d * s <= -(2 * d)
        BY <1>1, <3>1
      <4> QED BY <1>1, <2>1, <2>3, <3>1, <4>1, <4>2
    <3>3. s = 0 => b = 0 /\ e = 0
      BY <1>1, <2>1, <2>3, <3>1
    <3>4. s = -1 => b + e = d
      BY <1>1, <2>1, <2>3, <3>1
    <3>5. s = -1 => b # 0 /\ e # 0
      BY <1>1, <2>1, <2>3, <3>4
    <3> QED BY <3>2, <3>3, <3>5
  <2>7. (-a) * d = n <=> b = 0
    <3>1. (-a) * d = -(d * a)
      BY <1>1, <2>1
    <3> QED BY <1>1, <1>2, <2>1, <2>4, <3>1
  <2>8. -a \in RangeOf("int32")
    BY <1>1, <1>2, <2>1, <2>4
  <2> QED BY <1>2, <2>2, <2>6, <2>7, <2>8 DEF q, d, e
<1> QED BY <1>2, <1>4, <1>5

LEMMA BlankIsScratch == Blank \in Scratches
<1>1. \A x \in {"Date", "", "0"} : x \in STRING
  BY LiteralsAssumption DEF Kinds
<1>2. PICK date, none, zero :
          date \in STRING /\ none \in STRING /\ zero \in STRING
          /\ date = "Date" /\ none = "" /\ zero = "0"
  BY <1>1
<1>3. Blank = [val |-> 0, i64 |-> 0, f64 |-> zero, i32 |-> 0, kind |-> date, off |-> 0, u32 |-> 0,
               src |-> 0, dst |-> 0, txt |-> none, raw |-> none, hi |-> 0, lo |-> 0, scale |-> 0]
  BY <1>2 DEF Blank
<1>4. date \in STRING /\ none \in STRING /\ zero \in STRING
  BY <1>2
<1> QED BY <1>3, <1>4 DEF Scratches

\* A leaf through a new scratch.
LEMMA BlankReads ==
    ASSUME NEW c \in Leaves
    PROVE  ReadsAs(Reading(Blank, c, <<>>), Meaning(c, <<>>))
BY BlankIsScratch, LeafReads

\* BoundReadsBack, of a value and what bind made of it.
Refusable(v, type) ==
    \/ v[1] \in Composites
    \/ type.named /\ v[1] \in (Temporals \union {"[]byte"}) \ {"time.Duration"}
    \/ v[1] \in Unsigned /\ v[2] >= 2 ^ (Word - 1)
Back(v, type, cell) ==
    LET back == scan(Blank, cell, <<>>, type) IN
    /\ back.ok
    /\ back.put = v <=> (v[1] = "time.Time" => v[2] \in RangeOf("int64") /\ v[3] % Minute = 0)
ReadBack(v, type, bound) ==
    /\ bound.ok <=> ~Refusable(v, type)
    /\ bound.ok => Back(v, type, bound.cell)

\* The fields of a bind's answer.
LEMMA Bounds ==
    ASSUME NEW c
    PROVE  Bound(c).ok /\ Bound(c).cell = c /\ ~Unbindable.ok
BY DEF Bound, Unbindable

\* One lemma for each case of bind.  A nil is a null, and reads back as nil.
LEMMA NilBack ==
    ASSUME NEW type \in Destinations, type.depth > 0 \/ type.base = "any"
    PROVE  ReadBack(Nil, type, bind(Nil, type))
<1> DEFINE c == [type |-> "null"]
           b == bind(Nil, type)
           back == scan(Blank, c, <<>>, type)
<1>1. b = Bound(c)
  BY DEF bind, Nil, Signed, Unsigned, Floats, Kinds
<1>2. back = Given(Blank, Nil)
  <2>1. back = scanNull(Blank, type)
    BY DEF scan
  <2> HIDE DEF back
  <2> QED BY <2>1 DEF scanNull
<1> HIDE DEF back, b, c
<1>3. ~Refusable(Nil, type)
  BY DEF Refusable, Nil, Composites, Temporals, Kinds, Unsigned
<1>4. Back(Nil, type, c)
  <2>1. back.ok /\ back.put = Nil /\ Nil[1] # "time.Time"
    BY <1>2, Answers DEF Nil
  <2> QED BY <2>1 DEF Back, back
<1> QED BY <1>1, <1>3, <1>4, Bounds DEF ReadBack, b

\* An integer, or a duration a program named, through an engine's integer.
LEMMA IntegerBack ==
    ASSUME NEW type \in Destinations, NEW n, NEW t,
           \/ t \in Signed \union Unsigned /\ n \in RangeOf(t)
           \/ t = "time.Duration" /\ type.named /\ n \in RangeOf("int64"),
           type.base = t
    PROVE  ReadBack(<<t, n>>, type, bind(<<t, n>>, type))
<1> DEFINE v == <<t, n>>
           c == [type |-> "int", n |-> n]
           b == bind(v, type)
           back == scan(Blank, c, <<>>, type)
           s == [Blank EXCEPT !.i64 = n]
<1>1. v[1] = t /\ v[2] = n /\ v # Nil
  BY DEF Nil
<1>2. b = BindInteger(n)
  <2>1. CASE t \in Signed \union Unsigned
    <3>1. t \notin {"bool", "string", "[]byte", "time.Time", "time.Duration"} \union Floats \union Kinds
      BY <2>1 DEF Signed, Unsigned, Floats, Kinds
    <3> HIDE DEF v
    <3> QED BY <1>1, <2>1, <3>1 DEF bind, Kinds
  <2>2. CASE t = "time.Duration" /\ type.named
    <3>1. t \notin {"bool", "string", "[]byte", "time.Time"} \union Floats \union Signed \union Unsigned
      BY <2>2 DEF Signed, Unsigned, Floats
    <3> HIDE DEF v
    <3> QED BY <1>1, <2>2, <3>1 DEF bind, Kinds
  <2> QED BY <2>1, <2>2
<1>3. n \in RangeOf("int64") <=> ~Refusable(v, type)
  <2>1. CASE t \in Signed
    <3>1. n \in RangeOf("int64")
      BY <2>1, Ranges DEF Signed, Unsigned
    <3> HIDE DEF v
    <3> QED
      BY <1>1, <2>1, <3>1 DEF Refusable, Signed, Unsigned, Composites, Temporals, Kinds
  <2>2. CASE t \in Unsigned
    <3>1. n \in RangeOf("int64") <=> ~(n >= 2 ^ (Word - 1))
      BY <2>2, Ranges DEF Signed, Unsigned
    <3> HIDE DEF v
    <3> QED
      BY <1>1, <2>2, <3>1 DEF Refusable, Signed, Unsigned, Composites, Temporals, Kinds
  <2>3. CASE t = "time.Duration"
    <3>1. n \in RangeOf("int64")
      BY <2>3 DEF Signed, Unsigned
    <3> HIDE DEF v
    <3> QED
      BY <1>1, <2>3, <3>1 DEF Refusable, Signed, Unsigned, Composites, Temporals, Kinds
  <2> QED BY <2>1, <2>2, <2>3
<1>4. ASSUME n \in RangeOf("int64") PROVE Back(v, type, c)
  <2>0. c.type = "int" /\ c.n = n
    OBVIOUS
  <2>1. Accessed(Blank, c) = s
    BY <2>0 DEF Accessed
  <2>2. s.i64 = n
    BY DEF Blank
  <2>3. back.ok /\ back.put = v
    <3>1. CASE t \in Signed \union Unsigned
      <4>1. t \notin {"bool", "string", "time.Duration"} \union Floats
        BY <3>1 DEF Signed, Unsigned, Floats
      <4> HIDE DEF c
      <4>2. back = integer(Blank, c, t)
        BY <2>0, <3>1, <4>1 DEF scan
      <4>3. n \in RangeOf(t)
        BY <3>1 DEF Signed, Unsigned
      <4> HIDE DEF back, s
      <4>4. back = Given(s, v)
        BY <2>0, <2>1, <2>2, <4>2, <4>3 DEF integer
      <4> QED BY <4>4, Answers
    <3>2. CASE t = "time.Duration" /\ type.named
      <4>1. t \notin {"bool", "string"} \union Floats \union Signed \union Unsigned
        BY <3>2 DEF Signed, Unsigned, Floats
      <4> HIDE DEF c
      <4>2. back = NamedDuration(Blank, c)
        BY <2>0, <3>2, <4>1 DEF scan
      <4> HIDE DEF back, s
      <4> DEFINE r == integer(Blank, c, "int64")
      <4>3. r = Given(s, <<"int64", n>>)
        BY <1>4, <2>0, <2>1, <2>2 DEF integer
      <4> HIDE DEF r
      <4>4. r.ok /\ r.put = <<"int64", n>>
        BY <4>3, Answers
      <4>5. back = [r EXCEPT !.put = IF r.ok THEN <<"time.Duration", r.put[2]>> ELSE Nil]
        BY <4>2 DEF NamedDuration, r
      <4>6. back = [r EXCEPT !.put = v]
        BY <3>2, <4>4, <4>5
      <4>7. back.ok = r.ok /\ back.put = v
        BY <4>3, <4>6 DEF Given
      <4> QED BY <4>4, <4>7
    <3> QED BY <3>1, <3>2
  <2>4. t # "time.Time"
    BY DEF Signed, Unsigned
  <2> HIDE DEF v, back
  <2> QED BY <1>1, <2>3, <2>4 DEF Back, back
<1> HIDE DEF v, b, c
<1>5. CASE n \in RangeOf("int64")
  <2>1. b = Bound(c)
    BY <1>2, <1>5 DEF BindInteger, c
  <2> QED BY <1>3, <1>4, <1>5, <2>1, Bounds DEF ReadBack, v, b
<1>6. CASE n \notin RangeOf("int64")
  <2>1. b = Unbindable
    BY <1>2, <1>6 DEF BindInteger
  <2> QED BY <1>3, <1>6, <2>1, Bounds DEF ReadBack, v, b
<1> QED BY <1>5, <1>6

\* A bool is a 0 or a 1 on the way.
LEMMA BoolBack ==
    ASSUME NEW type \in Destinations, NEW is \in BOOLEAN, type.base = "bool"
    PROVE  ReadBack(<<"bool", is>>, type, bind(<<"bool", is>>, type))
<1> DEFINE v == <<"bool", is>>
           n == IF is THEN 1 ELSE 0
           c == [type |-> "bool", n |-> n]
           b == bind(v, type)
           back == scan(Blank, c, <<>>, type)
           r == Reading(Blank, c, <<>>)
<1>1. v[1] = "bool" /\ v # Nil /\ (v[2] <=> is)
  BY DEF Nil
<1>2. b = Bound(c)
  <2>1. b = Bound([type |-> "bool", n |-> IF v[2] THEN 1 ELSE 0])
    <3> HIDE DEF v
    <3> QED BY <1>1 DEF bind, Signed, Unsigned, Floats, Kinds
  <2> HIDE DEF b
  <2> QED BY <2>1
<1>3. ~Refusable(v, type)
  <2> HIDE DEF v
  <2> QED BY <1>1 DEF Refusable, Composites, Temporals, Kinds, Unsigned
<1>4. c \in Leaves /\ c.type = "bool" /\ c.n = n
  BY DEF Leaves
<1>5. r.ok /\ r.got = v
  <2> DEFINE m == Meaning(c, <<>>)
  <2>1. ReadsAs(r, m)
    BY <1>4, BlankReads
  <2> HIDE DEF c
  <2>2. m.ok
    <3>1. Known(c)
      BY <1>4 DEF Known
    <3> QED BY <3>1, MeaningOk
  <2>3. m.is = <<"bool", c.n = 1>>
    BY <1>4, Zenon DEF Meaning
  <2>4. (c.n = 1) = is
    BY <1>4
  <2>5. m.is = v
    BY <2>3, <2>4, Zenon
  <2> HIDE DEF m, r
  <2> QED BY <2>1, <2>2, <2>5 DEF ReadsAs
<1>6. back = Given(r.sc, [v EXCEPT ![1] = "bool"])
  <2> HIDE DEF c, r
  <2>1. back = Whole(Blank, c, <<>>, {"bool"}, "bool")
    BY <1>4 DEF scan, Signed, Unsigned, Floats
  <2> HIDE DEF back, v
  <2> QED BY <1>4, <1>5, <2>1 DEF Whole, r
<1>7. back.ok /\ back.put = v
  <2>1. [v EXCEPT ![1] = "bool"] = v
    BY ReTyped
  <2> HIDE DEF v, back
  <2> QED BY <1>6, <2>1, Answers
<1>8. Back(v, type, c)
  <2> HIDE DEF v, back, c
  <2> QED BY <1>1, <1>7 DEF Back, back
<1> HIDE DEF v, c, b
<1> QED BY <1>2, <1>3, <1>8, Bounds DEF ReadBack, v, b

\* A float is sent as it is.
LEMMA FloatBack ==
    ASSUME NEW type \in Destinations, NEW f \in STRING, NEW t \in Floats, type.base = t
    PROVE  ReadBack(<<t, f>>, type, bind(<<t, f>>, type))
<1> DEFINE v == <<t, f>>
           c == [type |-> "float", f |-> f]
           b == bind(v, type)
           back == scan(Blank, c, <<>>, type)
           r == Reading(Blank, c, <<>>)
<1>0. t \notin Signed \union Unsigned \union Kinds \union Composites \union Temporals
                  \union {"time.Time", "bool", "string", "[]byte", "time.Duration", "nil"}
  BY DEF Signed, Unsigned, Floats, Kinds, Composites, Temporals
<1>1. v[1] = t /\ v # Nil /\ v[2] = f
  BY <1>0 DEF Nil
<1>2. b = Bound(c)
  <2>1. b = Bound([type |-> "float", f |-> v[2]])
    <3> HIDE DEF v
    <3> QED BY <1>0, <1>1 DEF bind, Kinds
  <2> HIDE DEF b
  <2> QED BY <2>1
<1>3. ~Refusable(v, type)
  <2> HIDE DEF v
  <2> QED BY <1>0, <1>1 DEF Refusable
<1>4. c \in Leaves /\ c.type = "float" /\ c.f = f
  BY DEF Leaves
<1>5. r.got = <<"float64", f>>
  <2> DEFINE m == Meaning(c, <<>>)
  <2>1. ReadsAs(r, m)
    BY <1>4, BlankReads
  <2> HIDE DEF c
  <2>2. m.ok
    <3>1. Known(c)
      BY <1>4 DEF Known
    <3> QED BY <3>1, MeaningOk
  <2>3. m.is = <<"float64", c.f>>
    BY <1>4 DEF Meaning
  <2> HIDE DEF m, r
  <2> QED BY <1>4, <2>1, <2>2, <2>3 DEF ReadsAs
<1>6. back = Given(r.sc, v)
  <2> HIDE DEF c, r
  <2>1. back = approximate(Blank, c, t)
    BY <1>0, <1>4 DEF scan
  <2> HIDE DEF back
  <2>2. approximate(Blank, c, t) = Given(r.sc, <<t, r.got[2]>>)
    BY <1>4 DEF approximate, r
  <2> QED BY <1>5, <2>1, <2>2
<1>7. Back(v, type, c)
  <2> HIDE DEF v, back, c
  <2>1. back.ok /\ back.put = v
    BY <1>6, Answers
  <2> QED BY <1>0, <1>1, <2>1 DEF Back, back
<1> HIDE DEF v, c, b
<1> QED BY <1>2, <1>3, <1>7, Bounds DEF ReadBack, v, b

\* Text and octets are both sent as text.
LEMMA TextBack ==
    ASSUME NEW type \in Destinations, NEW s \in STRING, NEW t \in {"string", "[]byte"},
           type.base = t, t = "[]byte" => ~type.named
    PROVE  ReadBack(<<t, s>>, type, bind(<<t, s>>, type))
<1> DEFINE v == <<t, s>>
           c == [type |-> "string", s |-> s]
           b == bind(v, type)
           back == scan(Blank, c, <<>>, type)
           r == Reading(Blank, c, <<>>)
<1>0. t \notin Signed \union Unsigned \union Kinds \union Composites \union Temporals \union Floats
                  \union {"time.Time", "bool", "time.Duration", "nil", "any"}
  BY DEF Signed, Unsigned, Floats, Kinds, Composites, Temporals
<1>1. v[1] = t /\ v # Nil /\ v[2] = s
  BY <1>0 DEF Nil
<1>2. b = Bound(c)
  <2>1. b = Bound([type |-> "string", s |-> v[2]])
    <3> HIDE DEF v
    <3>1. CASE t = "string"
      BY <1>0, <1>1, <3>1 DEF bind, Kinds
    <3>2. CASE t = "[]byte"
      BY <1>0, <1>1, <3>2 DEF bind, Kinds
    <3> QED BY <3>1, <3>2
  <2> HIDE DEF b
  <2> QED BY <2>1
<1>3. ~Refusable(v, type)
  <2> HIDE DEF v
  <2> QED BY <1>0, <1>1 DEF Refusable
<1>4. c \in Leaves /\ c.type = "string" /\ c.s = s
  BY DEF Leaves
<1>5. r.ok /\ r.got = <<"string", s>>
  <2> DEFINE m == Meaning(c, <<>>)
  <2>1. ReadsAs(r, m)
    BY <1>4, BlankReads
  <2> HIDE DEF c
  <2>2. m.ok
    <3>1. Known(c)
      BY <1>4 DEF Known
    <3> QED BY <3>1, MeaningOk
  <2>3. m.is = <<"string", c.s>>
    BY <1>4 DEF Meaning
  <2> HIDE DEF m, r
  <2> QED BY <1>4, <2>1, <2>2, <2>3 DEF ReadsAs
<1>6. back = Given(r.sc, v)
  <2> HIDE DEF c, r
  <2>1. [<<"string", s>> EXCEPT ![1] = t] = v
    BY ReTyped
  <2>2. CASE t = "string"
    <3>1. back = Whole(Blank, c, <<>>, {t}, t)
      BY <1>0, <1>4, <2>2 DEF scan
    <3> HIDE DEF back
    <3>2. Whole(Blank, c, <<>>, {t}, t) = Given(r.sc, [r.got EXCEPT ![1] = t])
      BY <1>0, <1>4, <1>5, <2>2 DEF Whole, r
    <3> QED BY <1>5, <2>1, <3>1, <3>2
  <2>3. CASE t = "[]byte"
    <3>1. back = Whole(Blank, c, <<>>, {"string", "bytes"}, t)
      BY <1>0, <1>4, <2>3 DEF scan
    <3> HIDE DEF back
    <3>2. Whole(Blank, c, <<>>, {"string", "bytes"}, t) = Given(r.sc, [r.got EXCEPT ![1] = t])
      BY <1>0, <1>4, <1>5, <2>3 DEF Whole, r
    <3> QED BY <1>5, <2>1, <3>1, <3>2
  <2> QED BY <2>2, <2>3
<1>7. Back(v, type, c)
  <2> HIDE DEF v, back, c
  <2>1. back.ok /\ back.put = v
    BY <1>6, Answers
  <2> QED BY <1>0, <1>1, <2>1 DEF Back, back
<1> HIDE DEF v, c, b
<1> QED BY <1>2, <1>3, <1>7, Bounds DEF ReadBack, v, b

\* What a temporal cell is read as, by a destination that is not named.
LEMMA TemporalBack ==
    ASSUME NEW type \in Destinations, ~type.named, type.base \in Temporals,
           NEW kind \in Kinds, NEW n \in RangeOf("int64"), NEW offset \in Int,
           kind # "Date" \/ n \in RangeOf("int32")
    PROVE  LET c == [type |-> "temporal", kind |-> kind, n |-> n, offset |-> offset]
               got == IF kind \in {"ZonedTime", "ZonedDateTime"} THEN <<kind, n, offset>>
                      ELSE <<kind, n>>
               back == scan(Blank, c, <<>>, type)
           IN
           /\ type.base = kind => back.ok /\ back.put = got
           /\ type.base = "time.Time" /\ kind = "ZonedDateTime" =>
                 back.ok /\ back.put = <<"time.Time", n, offset * Minute>>
<1> DEFINE c == [type |-> "temporal", kind |-> kind, n |-> n, offset |-> offset]
           got == IF kind \in {"ZonedTime", "ZonedDateTime"} THEN <<kind, n, offset>>
                  ELSE <<kind, n>>
           back == scan(Blank, c, <<>>, type)
           r == Reading(Blank, c, <<>>)
           base == type.base
<1>0. base \notin Signed \union Unsigned \union Composites \union Floats
                  \union {"bool", "string", "nil", "any", "[]byte"}
  BY DEF Signed, Unsigned, Floats, Kinds, Composites, Temporals
<1>1. c.type = "temporal" /\ c.kind = kind /\ c.n = n /\ c.offset = offset
  OBVIOUS
<1>2. c \in Leaves
  <2>1. kind \in STRING
    BY LiteralsAssumption
  <2>2. c \in Temps
    BY <2>1 DEF Temps
  <2> HIDE DEF c
  <2> QED BY <1>1, <2>2 DEF Leaves
<1>3. r.ok /\ r.got = got
  <2> DEFINE m == Meaning(c, <<>>)
  <2>1. ReadsAs(r, m)
    BY <1>2, BlankReads
  <2> HIDE DEF c
  <2>2. m.ok
    <3>1. Known(c)
      BY <1>1 DEF Known
    <3> QED BY <3>1, MeaningOk
  <2>3. m.is = IF c.kind \in {"ZonedTime", "ZonedDateTime"} THEN <<c.kind, c.n, c.offset>>
               ELSE <<c.kind, c.n>>
    BY <1>1 DEF Meaning
  <2> HIDE DEF m, r
  <2> QED BY <1>1, <2>1, <2>2, <2>3 DEF ReadsAs
<1>4. got[1] = kind /\ kind # "time.Time"
  BY DEF Kinds
<1> HIDE DEF c, r, got
<1>5. back = scanTemporal(Blank, c, base)
  BY <1>0, <1>1 DEF scan
<1>6. back = CASE got[1] = base -> Given(r.sc, got)
               [] base = "time.Time" /\ got[1] \in {"ZonedDateTime", "LocalDateTime", "Date"} ->
                    Given(r.sc, Time(got))
               [] base = "time.Duration" /\ got[1] = "LocalTime" -> Given(r.sc, <<base, got[2]>>)
               [] OTHER -> Refused(r.sc, "mismatch")
  <2> HIDE DEF back
  <2> QED BY <1>1, <1>3, <1>5 DEF scanTemporal, r
<1> HIDE DEF back
<1>7. ASSUME base = kind PROVE back.ok /\ back.put = got
  <2>1. back = Given(r.sc, got)
    BY <1>4, <1>6, <1>7
  <2> QED BY <2>1, Answers
<1>8. ASSUME base = "time.Time", kind = "ZonedDateTime"
      PROVE  back.ok /\ back.put = <<"time.Time", n, offset * Minute>>
  <2>1. back = Given(r.sc, Time(got))
    BY <1>4, <1>6, <1>8
  <2>2. Time(got) = <<"time.Time", n, offset * Minute>>
    BY <1>8 DEF Time, got
  <2> QED BY <2>1, <2>2, Answers
<1> QED BY <1>7, <1>8 DEF back, c, got

\* A temporal reads back as its own kind.
LEMMA KindBack ==
    ASSUME NEW type \in Destinations, ~type.named, NEW kind \in Kinds, type.base = kind,
           NEW n \in RangeOf("int64"), NEW offset \in Int, NEW v,
           kind # "Date" \/ n \in RangeOf("int32"),
           v = IF kind \in {"ZonedTime", "ZonedDateTime"} THEN <<kind, n, offset>> ELSE <<kind, n>>
    PROVE  ReadBack(v, type, bind(v, type))
<1> DEFINE zoned == kind \in {"ZonedTime", "ZonedDateTime"}
           off == IF zoned THEN offset ELSE 0
           c == [type |-> "temporal", kind |-> kind, n |-> n, offset |-> off]
           b == bind(v, type)
           back == scan(Blank, c, <<>>, type)
<1>0. kind \notin Signed \union Unsigned \union Composites \union Floats
                  \union {"bool", "string", "nil", "any", "[]byte", "time.Time"}
  BY DEF Signed, Unsigned, Floats, Kinds, Composites
<1>1. v[1] = kind /\ v[2] = n /\ (zoned => v[3] = offset) /\ v # Nil
  BY <1>0 DEF Nil
<1>2. b = Bound(c)
  <2>1. CASE zoned
    <3>1. b = Temporal(v[1], v[2], v[3])
      BY <1>0, <1>1, <2>1 DEF bind, Kinds
    <3> HIDE DEF b
    <3> QED BY <1>1, <2>1, <3>1 DEF Temporal
  <2>2. CASE ~zoned
    <3>1. b = Temporal(v[1], v[2], 0)
      BY <1>0, <1>1, <2>2 DEF bind, Kinds
    <3> HIDE DEF b
    <3> QED BY <1>1, <2>2, <3>1 DEF Temporal
  <2> QED BY <2>1, <2>2
<1>3. ~Refusable(v, type)
  BY <1>0, <1>1 DEF Refusable
<1>4. back.ok /\ back.put = v
  <2>1. off \in Int /\ type.base \in Temporals
    BY DEF Temporals
  <2> HIDE DEF off
  <2>2. back.ok /\ back.put = IF zoned THEN <<kind, n, off>> ELSE <<kind, n>>
    BY <2>1, TemporalBack
  <2>3. zoned => off = offset
    BY DEF off
  <2> HIDE DEF back
  <2> QED BY <2>2, <2>3
<1> HIDE DEF c, b, back
<1>5. Back(v, type, c)
  BY <1>0, <1>1, <1>4 DEF Back, back
<1> QED BY <1>2, <1>3, <1>5, Bounds DEF ReadBack, b

\* An instant is cut to the nanoseconds and to the minutes it is sent in.
LEMMA InstantBack ==
    ASSUME NEW type \in Destinations, ~type.named, type.base = "time.Time",
           NEW n \in Int, NEW seconds \in RangeOf("int32")
    PROVE  ReadBack(<<"time.Time", n, seconds>>, type, bind(<<"time.Time", n, seconds>>, type))
<1> DEFINE v == <<"time.Time", n, seconds>>
           count == Wrapped(n, Word)
           offset == Quotient(seconds, Minute)
           c == [type |-> "temporal", kind |-> "ZonedDateTime", n |-> count, offset |-> offset]
           b == bind(v, type)
           back == scan(Blank, c, <<>>, type)
<1>1. v[1] = "time.Time" /\ v[2] = n /\ v[3] = seconds /\ v # Nil
  BY DEF Nil
<1>2. count \in RangeOf("int64") /\ (n \in RangeOf("int64") => count = n)
  BY WrappedRange, WrappedFits DEF Word, Signed
<1>3. /\ seconds \in Int /\ offset \in RangeOf("int32")
      /\ offset * Minute = seconds <=> seconds % Minute = 0
  BY Quotients
<1>4. offset \in Int /\ Wrapped(offset, Width["int32"]) = offset
  BY <1>3, WrappedFits DEF Signed
<1>5. b = Bound(c)
  <2>1. b = Temporal("ZonedDateTime", Wrapped(v[2], Word),
                     Wrapped(Quotient(v[3], Minute), Width["int32"]))
    <3> HIDE DEF v
    <3> QED BY <1>1 DEF bind, Kinds, Signed, Unsigned, Floats
  <2> HIDE DEF b
  <2> QED BY <1>4, <2>1 DEF Temporal
<1>6. ~Refusable(v, type)
  <2> HIDE DEF v
  <2> QED BY <1>1 DEF Refusable, Composites, Unsigned
<1> HIDE DEF count, offset
<1>7. back.ok /\ back.put = <<"time.Time", count, offset * Minute>>
  BY <1>2, <1>4, TemporalBack DEF Kinds, Temporals
<1> HIDE DEF c, b, back
<1>8. back.put = v <=> n \in RangeOf("int64") /\ seconds % Minute = 0
  <2> DEFINE x == offset * Minute
  <2> HIDE DEF x
  <2>1. back.put = v <=> count = n /\ x = seconds
    BY <1>7 DEF x
  <2> QED BY <1>2, <1>3, <2>1 DEF x
<1>9. Back(v, type, c)
  <2> HIDE DEF v
  <2> QED BY <1>1, <1>7, <1>8 DEF Back, back
<1> HIDE DEF v
<1> QED BY <1>5, <1>6, <1>9, Bounds DEF ReadBack, v, b

\* What is not sent: a composite, and what a program named over bytes or a time.
LEMMA RefusedBack ==
    ASSUME NEW type \in Destinations, NEW v,
           \/ v[1] \in Composites
           \/ type.named /\ v[1] \in (Temporals \union {"[]byte"}) \ {"time.Duration"}
    PROVE  ReadBack(v, type, bind(v, type))
<1>1. Refusable(v, type)
  BY DEF Refusable
<1>2. bind(v, type) = Unbindable
  <2>1. v[1] \notin Signed \union Unsigned \union Floats \union {"bool", "string", "time.Duration"}
    BY DEF Composites, Temporals, Kinds, Signed, Unsigned, Floats
  <2>2. v # Nil
    BY DEF Nil, Composites, Temporals, Kinds
  <2>3. v[1] \in Kinds \union {"[]byte", "time.Time"} => type.named
    BY DEF Composites, Kinds
  <2> QED BY <2>1, <2>2, <2>3 DEF bind, Kinds
<1> QED BY <1>1, <1>2, Bounds DEF ReadBack

\* Every parameter a program may bind keeps BoundReadsBack.
LEMMA BindReadBack ==
    ASSUME NEW p \in Params
    PROVE  ReadBack(p.is, p.type, bind(p.is, p.type))
<1> DEFINE v == p.is
           type == p.type
<1>0. /\ type \in Destinations
      /\ \/ v = Nil /\ (type.depth > 0 \/ type.base = "any")
         \/ v[1] = type.base /\ (v[1] \in Composites \/ v \in GoValues)
  BY ParamsAssumption
<1> HIDE DEF v, type
<1> SUFFICES ReadBack(v, type, bind(v, type))
  BY DEF v, type
<1>1. CASE v = Nil /\ (type.depth > 0 \/ type.base = "any")
  BY <1>0, <1>1, NilBack
<1>2. CASE v[1] \in Composites
  BY <1>0, <1>2, RefusedBack
<1>3. CASE type.named /\ v[1] \in (Temporals \union {"[]byte"}) \ {"time.Duration"}
  BY <1>0, <1>3, RefusedBack
<1>4. ASSUME v[1] = type.base, v \in GoValues,
             ~(type.named /\ v[1] \in (Temporals \union {"[]byte"}) \ {"time.Duration"})
      PROVE  ReadBack(v, type, bind(v, type))
  <2>1. CASE v \in UNION {{t} \X RangeOf(t) : t \in Signed \union Unsigned}
    <3>1. PICK t \in Signed \union Unsigned : v \in {t} \X RangeOf(t)
      BY <2>1
    <3>2. PICK n \in RangeOf(t) : v = <<t, n>>
      BY <3>1
    <3> QED BY <1>0, <1>4, <3>1, <3>2, IntegerBack
  <2>2. CASE v \in {"bool"} \X BOOLEAN
    <3>1. PICK is \in BOOLEAN : v = <<"bool", is>>
      BY <2>2
    <3> QED BY <1>0, <1>4, <3>1, BoolBack
  <2>3. CASE v \in (Floats \union {"string", "[]byte"}) \X STRING
    <3> DEFINE types == Floats \union {"string", "[]byte"}
               strings == STRING
    <3>1. PICK t \in types, s \in strings : v = <<t, s>>
      <4>1. v \in types \X strings
        BY <2>3
      <4> HIDE DEF types, strings
      <4> QED BY <4>1
    <3>2. v[1] = t
      BY <3>1
    <3>3. CASE t \in Floats
      BY <1>0, <1>4, <3>1, <3>2, <3>3, FloatBack
    <3>4. CASE t \in {"string", "[]byte"}
      <4>1. t = "[]byte" => ~type.named
        BY <1>4, <3>2
      <4> QED BY <1>0, <1>4, <3>1, <3>2, <3>4, <4>1, TextBack
    <3> QED BY <3>3, <3>4
  <2>4. CASE v \in {"Date"} \X RangeOf("int32")
    <3>1. PICK n \in RangeOf("int32") : v = <<"Date", n>>
      BY <2>4
    <3>2. v[1] = "Date"
      BY <3>1
    <3>3. ~type.named
      BY <1>4, <3>2 DEF Temporals, Kinds
    <3>4. n \in RangeOf("int64")
      BY Ranges DEF Signed
    <3>5. "Date" \in Kinds /\ "Date" \notin {"ZonedTime", "ZonedDateTime"} /\ 0 \in Int
      BY DEF Kinds
    <3> QED BY <1>0, <1>4, <3>1, <3>2, <3>3, <3>4, <3>5, KindBack
  <2>5. CASE v \in {"LocalTime", "LocalDateTime", "YearMonth", "time.Duration"} \X RangeOf("int64")
    <3>1. PICK kind \in {"LocalTime", "LocalDateTime", "YearMonth", "time.Duration"},
               n \in RangeOf("int64") : v = <<kind, n>>
      BY <2>5
    <3>2. v[1] = kind
      BY <3>1
    <3>3. CASE kind = "time.Duration" /\ type.named
      BY <1>0, <1>4, <3>1, <3>2, <3>3, IntegerBack
    <3>4. CASE ~type.named
      <4>1. kind \in Kinds /\ kind \notin {"Date", "ZonedTime", "ZonedDateTime"} /\ 0 \in Int
        BY DEF Kinds
      <4> QED BY <1>0, <1>4, <3>1, <3>2, <3>4, <4>1, KindBack
    <3>5. ~(kind = "time.Duration" /\ type.named) => ~type.named
      BY <1>4, <3>2 DEF Temporals, Kinds
    <3> QED BY <3>3, <3>4, <3>5
  <2>6. CASE v \in {"ZonedTime", "ZonedDateTime"} \X RangeOf("int64") \X RangeOf("int32")
    <3>1. PICK kind \in {"ZonedTime", "ZonedDateTime"}, n \in RangeOf("int64"),
               offset \in RangeOf("int32") : v = <<kind, n, offset>>
      BY <2>6
    <3>2. v[1] = kind /\ kind \in Kinds /\ kind # "Date"
      BY <3>1 DEF Kinds
    <3>3. ~type.named
      BY <1>4, <3>2 DEF Temporals, Kinds
    <3>4. offset \in Int
      BY Ranges DEF Signed
    <3> QED BY <1>0, <1>4, <3>1, <3>2, <3>3, <3>4, KindBack
  <2>7. CASE v \in {"time.Time"} \X Int \X RangeOf("int32")
    <3>1. PICK n \in Int, seconds \in RangeOf("int32") : v = <<"time.Time", n, seconds>>
      BY <2>7
    <3>2. v[1] = "time.Time"
      BY <3>1
    <3>3. ~type.named
      BY <1>4, <3>2 DEF Temporals
    <3> QED BY <1>0, <1>4, <3>1, <3>2, <3>3, InstantBack
  <2>8. \/ v \in UNION {{t} \X RangeOf(t) : t \in Signed \union Unsigned}
        \/ v \in {"bool"} \X BOOLEAN
        \/ v \in (Floats \union {"string", "[]byte"}) \X STRING
        \/ v \in {"Date"} \X RangeOf("int32")
        \/ v \in {"LocalTime", "LocalDateTime", "YearMonth", "time.Duration"} \X RangeOf("int64")
        \/ v \in {"ZonedTime", "ZonedDateTime"} \X RangeOf("int64") \X RangeOf("int32")
        \/ v \in {"time.Time"} \X Int \X RangeOf("int32")
    <3> DEFINE A1 == UNION {{t} \X RangeOf(t) : t \in Signed \union Unsigned}
               A2 == {"bool"} \X BOOLEAN
               A3 == (Floats \union {"string", "[]byte"}) \X STRING
               A4 == {"Date"} \X RangeOf("int32")
               A5 == {"LocalTime", "LocalDateTime", "YearMonth", "time.Duration"} \X RangeOf("int64")
               A6 == {"ZonedTime", "ZonedDateTime"} \X RangeOf("int64") \X RangeOf("int32")
               A7 == {"time.Time"} \X Int \X RangeOf("int32")
    <3>1. v \in A1 \union A2 \union A3 \union A4 \union A5 \union A6 \union A7
      BY <1>4 DEF GoValues
    <3> SUFFICES v \in A1 \/ v \in A2 \/ v \in A3 \/ v \in A4 \/ v \in A5 \/ v \in A6 \/ v \in A7
      OBVIOUS
    <3> HIDE DEF A1, A2, A3, A4, A5, A6, A7
    <3> QED BY <3>1
  <2> QED BY <2>1, <2>2, <2>3, <2>4, <2>5, <2>6, <2>7, <2>8
<1> QED BY <1>0, <1>1, <1>2, <1>3, <1>4

(***************************************************************************)
(* The program that reads and binds.                                       *)
(***************************************************************************)

\* The inductive invariant: the scratch is one, whatever was read through
\* it; and the last answer was about a cell and a destination there are.
ValuesIInv ==
    /\ scratch \in Scratches /\ read \in Nat
    /\ last.op = "value" => last.cell \in DOMAIN Cells
    /\ ReadsWhatIsThere
    /\ ScanKeepsTheValue
    /\ BoundReadsBack

\* It holds before anything is read.
LEMMA ValuesInvInit == ValuesInit => ValuesIInv
<1> SUFFICES ASSUME ValuesInit PROVE ValuesIInv
  OBVIOUS
<1>1. scratch \in Scratches /\ read \in Nat
  BY BlankIsScratch DEF ValuesInit
<1>2. last.op = "nothing"
  BY DEF ValuesInit, Nothing
<1> QED
  BY <1>1, <1>2 DEF ValuesIInv, ReadsWhatIsThere, ScanKeepsTheValue, BoundReadsBack

\* Every read, scan and bind keeps it.
LEMMA ValuesInvNext == ValuesIInv /\ [ValuesNext]_valueVars => ValuesIInv'
<1> SUFFICES ASSUME ValuesIInv, [ValuesNext]_valueVars PROVE ValuesIInv'
  OBVIOUS
<1>0. scratch \in Scratches /\ read \in Nat
  BY DEF ValuesIInv
<1>1. CASE GoOn \/ NewRows
  <2>1. scratch' \in Scratches /\ read' \in Nat
    BY <1>0, <1>1, BlankIsScratch DEF GoOn, NewRows
  <2>2. last'.op = "nothing"
    BY <1>1 DEF GoOn, NewRows, Nothing
  <2> QED
    BY <2>1, <2>2 DEF ValuesIInv, ReadsWhatIsThere, ScanKeepsTheValue, BoundReadsBack
<1>2. ASSUME NEW k \in DOMAIN Cells, Value(k) PROVE ValuesIInv'
  <2> DEFINE got == value[k][scratch]
  <2>1. ReadsAs(got, Means[k])
    BY <1>0, ValueReads
  <2>2. /\ scratch' = got.sc /\ read' = read + 1
        /\ last' = [op |-> "value", cell |-> k, ok |-> got.ok, got |-> got.got]
    BY <1>2 DEF Value
  <2> HIDE DEF got
  <2>3. last'.op = "value" /\ last'.cell = k /\ last'.ok = got.ok /\ last'.got = got.got
    BY <2>2
  <2>4. ReadsWhatIsThere'
    BY <2>1, <2>3 DEF ReadsWhatIsThere, ReadsAs
  <2> QED
    BY <1>0, <2>1, <2>2, <2>3, <2>4 DEF ValuesIInv, ScanKeepsTheValue, BoundReadsBack, ReadsAs
<1>3. ASSUME NEW k \in DOMAIN Cells, NEW d \in Dests, Scan(k, d) PROVE ValuesIInv'
  <2> DEFINE got == scan(scratch, Cells[k], InsideOf(k), d)
  <2>1. Scanned(Cells[k], Means[k], d, got)
    BY <1>0, ScanScanned, DestsAssumption
  <2>2. /\ scratch' = got.sc /\ read' = read + 1
        /\ last' = [op |-> "scan", cell |-> k, dest |-> d, ok |-> got.ok, put |-> got.put]
    BY <1>3 DEF Scan
  <2> HIDE DEF got
  <2>3. /\ last'.op = "scan" /\ last'.cell = k /\ last'.dest = d /\ last'.ok = got.ok
        /\ last'.put = got.put
    BY <2>2
  <2>4. ScanKeepsTheValue'
    BY <2>1, <2>3 DEF ScanKeepsTheValue, Scanned, Kept, NullKept, Taken
  <2> QED
    BY <1>0, <2>1, <2>2, <2>3, <2>4 DEF ValuesIInv, ReadsWhatIsThere, BoundReadsBack, Scanned
<1>4. ASSUME NEW p \in Params, Bind(p) PROVE ValuesIInv'
  <2> DEFINE bound == bind(p.is, p.type)
  <2>1. ReadBack(p.is, p.type, bound)
    BY BindReadBack
  <2>2. /\ last' = [op |-> "bind", param |-> p, ok |-> bound.ok, cell |-> bound.cell]
        /\ scratch' = scratch /\ read' = read
    BY <1>4 DEF Bind
  <2> HIDE DEF bound
  <2>3. last'.op = "bind" /\ last'.param = p /\ last'.ok = bound.ok /\ last'.cell = bound.cell
    BY <2>2
  <2>4. BoundReadsBack'
    BY <2>1, <2>3 DEF BoundReadsBack, ReadBack, Back, Refusable
  <2> QED
    BY <1>0, <2>2, <2>3, <2>4 DEF ValuesIInv, ReadsWhatIsThere, ScanKeepsTheValue
<1>5. CASE UNCHANGED valueVars
  BY <1>5 DEF valueVars, ValuesIInv, ReadsWhatIsThere, ScanKeepsTheValue, BoundReadsBack
<1> QED BY <1>1, <1>2, <1>3, <1>4, <1>5 DEF ValuesNext

\* However many cells are read through one scratch, in whatever order, the
\* scratch stays one and the last answer keeps its property.
THEOREM ValuesInvariant == ValuesSpec => []ValuesIInv
BY ValuesInvInit, ValuesInvNext, PTL DEF ValuesSpec

\* Every cell, however deep, reads as what it means whatever was read before
\* it: what one read leaves in the scratch reaches no other (value.go).
THEOREM CellReads == ValuesSpec => []ReadsWhatIsThere
<1>1. ValuesIInv => ReadsWhatIsThere
  BY DEF ValuesIInv
<1> QED BY <1>1, ValuesInvariant, PTL

\* Every scan of every cell into every destination puts there what the cell
\* means or refuses, and refuses nothing that fits (scan.go).
THEOREM ScanKeeps == ValuesSpec => []ScanKeepsTheValue
<1>1. ValuesIInv => ScanKeepsTheValue
  BY DEF ValuesIInv
<1> QED BY <1>1, ValuesInvariant, PTL

\* Every parameter that is bound reads back as the value it was, an instant
\* but for what its cell has no room for, and what is not bound is told apart
\* exactly (stmt.go).
THEOREM BindReads == ValuesSpec => []BoundReadsBack
<1>1. ValuesIInv => BoundReadsBack
  BY DEF ValuesIInv
<1> QED BY <1>1, ValuesInvariant, PTL
=============================================================================

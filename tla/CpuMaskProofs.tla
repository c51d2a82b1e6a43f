--------------------------- MODULE CpuMaskProofs ---------------------------
(***************************************************************************)
(* Proofs about CpuMask, for masks of any shape: what append and           *)
(* appendRange do to the set of indices, that the iterator lists this set  *)
(* in order, and that getStr and setStr are inverse to one another. Module *)
(* CpuProofs uses them for the masks that CpuTopology fills.               *)
(***************************************************************************)
EXTENDS CpuMask, FiniteSetTheorems, TLAPS

Masks == [a : [0..(N - 1) -> 0..Mask], n : 0..(N - 1), range : BOOLEAN]

Start(c, k) == c.a[2 * k]
Last(c, k) == c.a[2 * k] + c.a[2 * k + 1]

\* The representation: unused elements are zero (append relies on it for the
\* length of a new interval), single values increase, and the first two are
\* not adjacent; intervals increase and are not adjacent, and the first has
\* two indices or more.
Values(c) ==
  /\ \A i, j \in 0..c.n : i < j => c.a[i] < c.a[j]
  /\ c.n > 0 => c.a[0] + 1 < c.a[1]
Ranges(c) ==
  /\ c.n % 2 = 1 /\ 0 < c.a[1]
  /\ \A k \in Intervals(c) : Last(c, k) <= Mask
  /\ \A j, k \in Intervals(c) : j < k => Last(c, j) + 1 < Start(c, k)
Filled(c) ==
  /\ \A i \in (c.n + 1)..(N - 1) : c.a[i] = 0
  /\ IF c.range THEN Ranges(c) ELSE Values(c)
WellFormed(c) == c \in Masks /\ (c = Empty \/ Filled(c))

\* The set that a mask stands for.
Covered(c) ==
  IF IsEmpty(c) THEN {}
  ELSE IF c.range THEN UNION {Start(c, k)..Last(c, k) : k \in Intervals(c)}
  ELSE {c.a[i] : i \in 0..c.n}

-----------------------------------------------------------------------------
(* Numbers.                                                                *)

LEMMA HalfFacts ==
  /\ N \in Nat /\ N >= 2 /\ Mask \in Nat /\ Mask >= 1
  /\ N \div 2 \in Nat /\ N = 2 * (N \div 2)
BY CpuMaskAssumption

LEMMA EmptyFacts ==
  /\ Empty \in Masks /\ Empty.n = 0 /\ Empty.range = FALSE
  /\ Empty.a[0] = 0 /\ Empty.a[1] = 1
BY HalfFacts DEF Empty, Masks

\* A mask in use is none that clear() leaves.
LEMMA FilledIsNotEmpty ==
  ASSUME NEW c \in Masks, Filled(c)
  PROVE  ~IsEmpty(c)
<1>1. CASE c.n = 0
  <2>1. c.a[1] = 0
    BY <1>1, HalfFacts DEF Filled
  <2>2. QED BY <2>1, EmptyFacts DEF IsEmpty
<1>2. CASE c.n # 0
  BY <1>2, EmptyFacts DEF IsEmpty
<1>3. QED BY <1>1, <1>2

LEMMA IntervalsAre ==
  ASSUME NEW c \in Masks
  PROVE  /\ \A k : k \in Intervals(c) <=> k \in Nat /\ 2 * k < c.n
         /\ \A k \in Intervals(c) : /\ k \in Nat
                                    /\ Start(c, k) \in Nat /\ c.a[2 * k + 1] \in Nat
                                    /\ Last(c, k) \in Nat /\ Start(c, k) <= Last(c, k)
<1>1. c.n \in Nat /\ c.n <= N - 1 /\ c.a \in [0..(N - 1) -> 0..Mask]
  BY HalfFacts DEF Masks
<1>2. ASSUME NEW k PROVE k \in Intervals(c) <=> k \in Nat /\ 2 * k < c.n
  BY <1>1, HalfFacts DEF Intervals
<1>3. ASSUME NEW k \in Intervals(c)
      PROVE  k \in Nat /\ c.a[2 * k] \in 0..Mask /\ c.a[2 * k + 1] \in 0..Mask
  <2>1. k \in Nat /\ 2 * k < c.n
    BY <1>2
  <2>2. PICK h \in Nat : N = 2 * h
    BY HalfFacts
  <2>3. 2 * k \in 0..(N - 1) /\ 2 * k + 1 \in 0..(N - 1)
    BY <1>1, <2>1, <2>2
  <2>4. QED BY <1>1, <2>1, <2>3
<1>4. QED BY <1>2, <1>3, HalfFacts DEF Start, Last

-----------------------------------------------------------------------------
(* The calls.                                                              *)

\* What set_a and the assignments to n_ and range_ do.
AreSet(r, c, e, n, range) ==
  /\ r.ok = TRUE /\ r.m \in Masks /\ r.m.n = n /\ r.m.range = range
  /\ \A j \in 0..(N - 1) : r.m.a[j] = IF j \in DOMAIN e THEN e[j] ELSE c.a[j]

IsSet(r, c, i, v, n, range) ==
  /\ r.ok = TRUE /\ r.m \in Masks /\ r.m.n = n /\ r.m.range = range
  /\ \A j \in 0..(N - 1) : r.m.a[j] = IF j = i THEN v ELSE c.a[j]

LEMMA SetElements ==
  ASSUME NEW c \in Masks, NEW e, NEW n \in 0..(N - 1), NEW range \in BOOLEAN,
         \A i \in DOMAIN e : e[i] \in 0..Mask
  PROVE  AreSet(Set(c, e, n, range), c, e, n, range)
<1> DEFINE r == Set(c, e, n, range)
<1>1. c.a \in [0..(N - 1) -> 0..Mask]
  BY DEF Masks
<1>2. r.ok = TRUE /\ r.m.n = n /\ r.m.range = range
  BY DEF Set, Done
<1>3. r.m.a = [j \in 0..(N - 1) |-> IF j \in DOMAIN e THEN e[j] ELSE c.a[j]]
  BY <1>1 DEF Set, Done
<1>4. r.m \in Masks
  BY <1>1, <1>3 DEF Set, Done, Masks
<1>5. QED BY <1>2, <1>3, <1>4 DEF AreSet

LEMMA SetElement ==
  ASSUME NEW c \in Masks, NEW i \in 0..(N - 1), NEW v \in 0..Mask, NEW n \in 0..(N - 1),
         NEW range \in BOOLEAN
  PROVE  IsSet(Set(c, Element(i, v), n, range), c, i, v, n, range)
<1>1. DOMAIN Element(i, v) = {i} /\ Element(i, v)[i] = v
  BY DEF Element
<1>2. AreSet(Set(c, Element(i, v), n, range), c, Element(i, v), n, range)
  BY <1>1, SetElements
<1>3. QED BY <1>1, <1>2 DEF AreSet, IsSet

\* What a call is to do: refuse, or add the indices, all larger, to the set.
Adds(c, r, new) ==
  /\ r.ok \in BOOLEAN
  /\ ~r.ok => r.m = c
  /\ r.ok => /\ r.m \in Masks /\ Filled(r.m)
             /\ Covered(r.m) = Covered(c) \cup new
             /\ \A x \in Covered(c), y \in new : x < y

LEMMA AppendValueAdds ==
  ASSUME NEW c \in Masks, Filled(c), ~c.range, NEW v \in 0..Mask, NEW r, r = AppendValue(c, v)
  PROVE  Adds(c, r, {v})
<1>1. PICK a, n, prev : a = c.a /\ n = c.n /\ prev = a[n]
  OBVIOUS
<1>2. /\ n \in Nat /\ n <= N - 1 /\ a \in [0..(N - 1) -> 0..Mask]
      /\ N \in Nat /\ N >= 2 /\ Mask \in Nat /\ Mask >= 1 /\ prev \in 0..Mask
  BY <1>1, HalfFacts DEF Masks
<1>3. /\ \A i, j \in 0..n : i < j => a[i] < a[j]
      /\ \A i \in (n + 1)..(N - 1) : a[i] = 0
  BY <1>1 DEF Filled, Values
<1>4. Covered(c) = {a[i] : i \in 0..n}
  BY <1>1, FilledIsNotEmpty DEF Covered
<1>5. \A i \in 0..n : a[i] \in 0..Mask /\ a[i] <= prev
  <2>1. TAKE i \in 0..n
  <2>2. i \in 0..(N - 1)
    BY <1>2
  <2>3. a[i] \in 0..Mask
    BY <1>2, <2>2
  <2>4. CASE i = n
    BY <1>1, <1>2, <2>3, <2>4
  <2>5. CASE i < n
    BY <1>1, <1>2, <1>3, <2>3, <2>5
  <2>6. QED BY <1>2, <2>4, <2>5, <2>3
<1>6. r = IF v <= prev THEN Refused(c)
          ELSE IF n = 0 /\ prev + 1 = v THEN Set(c, Element(1, 1), 1, TRUE)
          ELSE IF n >= N - 1 THEN Refused(c)
          ELSE Set(c, Element(n + 1, v), n + 1, FALSE)
  BY <1>1 DEF AppendValue
<1>7. CASE v > prev /\ n = 0 /\ prev + 1 = v
  <2>0. ~(v <= prev)
    BY <1>2, <1>7
  <2>1. r = Set(c, Element(1, 1), 1, TRUE)
    BY <1>6, <1>7, <2>0, Zenon
  <2>2. /\ r.ok = TRUE /\ r.m \in Masks /\ r.m.n = 1 /\ r.m.range = TRUE
        /\ \A j \in 0..(N - 1) : r.m.a[j] = IF j = 1 THEN 1 ELSE a[j]
    <3>1. 1 \in 0..(N - 1) /\ 1 \in 0..Mask /\ TRUE \in BOOLEAN
      BY <1>2
    <3>2. IsSet(r, c, 1, 1, 1, TRUE)
      BY <2>1, <3>1, SetElement, Zenon
    <3>3. QED BY <1>1, <3>2 DEF IsSet
  <2>3. Intervals(r.m) = {0}
    BY <2>2, IntervalsAre
  <2>4. r.m.a[0] = prev /\ r.m.a[1] = 1
    BY <1>1, <1>2, <1>7, <2>2
  <2>5. Start(r.m, 0) = prev /\ Last(r.m, 0) = v
    BY <1>2, <1>7, <2>4 DEF Start, Last
  <2>6. Filled(r.m)
    <3>1. \A i \in 2..(N - 1) : r.m.a[i] = 0
      BY <1>2, <1>3, <1>7, <2>2
    <3>2. Ranges(r.m)
      BY <1>2, <2>2, <2>3, <2>4, <2>5 DEF Ranges
    <3>3. QED BY <2>2, <3>1, <3>2 DEF Filled
  <2>7. Covered(r.m) = prev..v
    <3>1. Covered(r.m) = UNION {Start(r.m, k)..Last(r.m, k) : k \in {0}}
      BY <2>2, <2>3, <2>6, FilledIsNotEmpty DEF Covered
    <3>2. QED BY <2>5, <3>1
  <2>8. Covered(c) = {prev}
    BY <1>1, <1>4, <1>7
  <2>9. prev..v = {prev, v}
    BY <1>2, <1>7
  <2>10. QED BY <1>7, <2>2, <2>6, <2>7, <2>8, <2>9 DEF Adds
<1>8. CASE v > prev /\ ~(n = 0 /\ prev + 1 = v) /\ n < N - 1
  <2>0. ~(v <= prev) /\ ~(n >= N - 1)
    BY <1>2, <1>8
  <2>1. r = Set(c, Element(n + 1, v), n + 1, FALSE)
    BY <1>6, <1>8, <2>0, Zenon
  <2>2. /\ r.ok = TRUE /\ r.m \in Masks /\ r.m.n = n + 1 /\ r.m.range = FALSE
        /\ \A j \in 0..(N - 1) : r.m.a[j] = IF j = n + 1 THEN v ELSE a[j]
    <3>1. n + 1 \in 0..(N - 1) /\ FALSE \in BOOLEAN
      BY <1>2, <1>8
    <3>2. IsSet(r, c, n + 1, v, n + 1, FALSE)
      BY <2>1, <3>1, SetElement, Zenon
    <3>3. QED BY <1>1, <3>2 DEF IsSet
  <2>3. PICK b : b = r.m.a
    OBVIOUS
  <2>4. (\A i \in 0..n : b[i] = a[i]) /\ b[n + 1] = v
    BY <1>2, <1>8, <2>2, <2>3
  <2>5. Filled(r.m)
    <3>1. \A i, j \in 0..(n + 1) : i < j => b[i] < b[j]
      <4>1. TAKE i \in 0..(n + 1), j \in 0..(n + 1)
      <4>2. CASE j \in 0..n
        BY <1>2, <1>3, <2>4, <4>2
      <4>3. CASE j = n + 1 /\ i \in 0..n
        BY <1>2, <1>5, <1>8, <2>4, <4>3
      <4>4. QED BY <1>2, <4>2, <4>3
    <3>2. \A i \in (n + 2)..(N - 1) : b[i] = 0
      BY <1>2, <1>3, <2>2, <2>3
    <3>3. n + 1 + 1 = n + 2
      BY <1>2
    <3>4. b[0] + 1 < b[1]
      <4>1. CASE n = 0
        BY <1>1, <1>2, <1>8, <2>4, <4>1, SMTT(20)
      <4>2. CASE n > 0
        <5>1. a[0] + 1 < a[1]
          BY <1>1, <4>2 DEF Filled, Values
        <5>2. QED BY <1>2, <2>4, <4>2, <5>1
      <4>3. QED BY <1>2, <4>1, <4>2
    <3>5. QED BY <2>2, <2>3, <3>1, <3>2, <3>3, <3>4 DEF Filled, Values
  <2>6. Covered(r.m) = {b[i] : i \in 0..(n + 1)}
    BY <2>2, <2>3, <2>5, FilledIsNotEmpty DEF Covered
  <2>7. 0..(n + 1) = (0..n) \cup {n + 1}
    BY <1>2
  <2>8. Covered(r.m) = Covered(c) \cup {v}
    BY <1>4, <2>4, <2>6, <2>7
  <2>9. \A x \in Covered(c) : x < v
    BY <1>2, <1>4, <1>5, <1>8
  <2>10. QED BY <2>2, <2>5, <2>8, <2>9 DEF Adds
<1>9. CASE v <= prev \/ (n >= N - 1 /\ ~(n = 0 /\ prev + 1 = v))
  <2>1. r = Refused(c)
    BY <1>2, <1>6, <1>9
  <2>2. QED BY <2>1 DEF Adds, Refused
<1>10. QED BY <1>2, <1>7, <1>8, <1>9

\* The interval that append looks at.
LEMMA LastInterval ==
  ASSUME NEW c \in Masks, Filled(c), c.range
  PROVE  \E h \in Nat : /\ c.n = 2 * h + 1 /\ h < N \div 2 /\ Intervals(c) = 0..h
                        /\ \A k \in 0..h : Last(c, k) <= Last(c, h)
<1>1. c.n \in Nat /\ c.n <= N - 1 /\ c.n % 2 = 1 /\ N \in Nat /\ N = 2 * (N \div 2) /\ N \div 2 \in Nat
  BY HalfFacts DEF Masks, Filled, Ranges
<1>2. PICK h \in Nat : c.n = 2 * h + 1
  BY <1>1
<1>3. h < N \div 2
  BY <1>1, <1>2
<1>4. Intervals(c) = 0..h
  <2>1. \A k : k \in Nat /\ 2 * k < 2 * h + 1 <=> k \in 0..h
    OBVIOUS
  <2>2. QED BY <1>2, <2>1, IntervalsAre
<1>5. ASSUME NEW k \in 0..h PROVE Last(c, k) <= Last(c, h)
  <2>1. k \in Intervals(c) /\ h \in Intervals(c)
    BY <1>4
  <2>2. /\ Last(c, k) \in Nat /\ Last(c, h) \in Nat /\ Start(c, h) \in Nat
        /\ Start(c, h) <= Last(c, h)
    BY <2>1, IntervalsAre
  <2>3. CASE k < h
    <3>1. Last(c, k) + 1 < Start(c, h)
      BY <2>1, <2>3 DEF Filled, Ranges
    <3>2. QED BY <2>2, <3>1
  <2>4. CASE k = h
    BY <2>2, <2>4
  <2>5. QED BY <2>3, <2>4
<1>6. QED BY <1>2, <1>3, <1>4, <1>5

\* One interval more.
IsExtended(d, c, v, w) ==
  /\ d \in Masks /\ d.n = c.n + 2 /\ d.range = TRUE
  /\ \A j \in 0..(N - 1) :
       d.a[j] = IF j = c.n + 1 THEN v ELSE IF j = c.n + 2 THEN w - v ELSE c.a[j]

LEMMA NewInterval ==
  ASSUME NEW c \in Masks, Filled(c), c.range, c.n < N - 1,
         NEW v \in 0..Mask, NEW w \in 0..Mask, v <= w,
         \A k \in Intervals(c) : Last(c, k) + 1 < v,
         NEW d, IsExtended(d, c, v, w)
  PROVE  /\ Filled(d)
         /\ Covered(d) = Covered(c) \cup (v..w)
         /\ \A x \in Covered(c) : x < v
<1> d \in Masks /\ d.n = c.n + 2 /\ d.range = TRUE
  BY DEF IsExtended
<1>1. PICK h \in Nat : c.n = 2 * h + 1 /\ h < N \div 2 /\ Intervals(c) = 0..h
  BY LastInterval
<1>2. PICK a, b : a = c.a /\ b = d.a
  OBVIOUS
<1>3. /\ N \in Nat /\ N = 2 * (N \div 2) /\ N \div 2 \in Nat /\ Mask \in Nat
      /\ a \in [0..(N - 1) -> 0..Mask] /\ b \in [0..(N - 1) -> 0..Mask]
  BY <1>2, HalfFacts DEF Masks
<1>4. h + 1 < N \div 2 /\ d.n = 2 * (h + 1) + 1
  BY <1>1, <1>3
<1>5. /\ b[2 * (h + 1)] = v /\ b[2 * (h + 1) + 1] = w - v
      /\ \A j \in 0..(2 * h + 1) : b[j] = a[j]
      /\ \A j \in (2 * h + 4)..(N - 1) : b[j] = a[j]
  <2>1. \A j \in 0..(N - 1) :
           b[j] = IF j = 2 * h + 2 THEN v ELSE IF j = 2 * h + 3 THEN w - v ELSE a[j]
    <3>1. c.n + 1 = 2 * h + 2 /\ c.n + 2 = 2 * h + 3
      BY <1>1
    <3>2. QED BY <1>2, <3>1 DEF IsExtended
  <2>2. /\ 2 * (h + 1) = 2 * h + 2 /\ 2 * (h + 1) + 1 = 2 * h + 3 /\ 2 * h + 2 # 2 * h + 3
        /\ 2 * h + 2 \in 0..(N - 1) /\ 2 * h + 3 \in 0..(N - 1)
    BY <1>3, <1>4
  <2>3. b[2 * (h + 1)] = v /\ b[2 * (h + 1) + 1] = w - v
    BY <2>1, <2>2
  <2>4. ASSUME NEW j \in 0..(2 * h + 1) PROVE b[j] = a[j]
    <3>1. j \in 0..(N - 1) /\ j # 2 * h + 2 /\ j # 2 * h + 3
      BY <1>3, <2>2
    <3>2. QED BY <2>1, <3>1
  <2>5. ASSUME NEW j \in (2 * h + 4)..(N - 1) PROVE b[j] = a[j]
    <3>1. j \in 0..(N - 1) /\ j # 2 * h + 2 /\ j # 2 * h + 3
      BY <1>3
    <3>2. QED BY <2>1, <3>1
  <2>6. QED BY <2>3, <2>4, <2>5
<1>6. Intervals(d) = 0..(h + 1)
  <2>1. \A k : k \in Nat /\ 2 * k < 2 * (h + 1) + 1 <=> k \in 0..(h + 1)
    OBVIOUS
  <2>2. QED BY <1>4, <2>1, IntervalsAre
<1>7. \A k \in 0..h : Start(d, k) = Start(c, k) /\ Last(d, k) = Last(c, k)
  BY <1>2, <1>3, <1>5, SMTT(20) DEF Start, Last
<1>8. Start(d, h + 1) = v /\ Last(d, h + 1) = w
  BY <1>2, <1>3, <1>5 DEF Start, Last
<1>9. Filled(d)
  <2>1. \A i \in (d.n + 1)..(N - 1) : d.a[i] = 0
    <3>1. \A i \in (c.n + 1)..(N - 1) : a[i] = 0
      BY <1>2 DEF Filled
    <3>2. TAKE i \in (d.n + 1)..(N - 1)
    <3>3. i \in (2 * h + 4)..(N - 1) /\ i \in (c.n + 1)..(N - 1)
      BY <1>1, <1>3, <1>4
    <3>4. QED BY <1>2, <1>5, <3>1, <3>3
  <2>2. d.n % 2 = 1
    BY <1>1, <1>4
  <2>3. 0 < d.a[1]
    <3>1. 0 < c.a[1]
      BY DEF Filled, Ranges
    <3>2. 1 \in 0..(2 * h + 1)
      BY <1>1
    <3>3. QED BY <1>2, <1>5, <3>1, <3>2
  <2>4. \A k \in Intervals(d) : Last(d, k) <= Mask
    <3>1. \A k \in 0..h : Last(c, k) <= Mask
      BY <1>1 DEF Filled, Ranges
    <3>2. ASSUME NEW k \in 0..(h + 1) PROVE Last(d, k) <= Mask
      <4>1. k \in 0..h \/ k = h + 1
        OBVIOUS
      <4>2. w <= Mask
        BY <1>3
      <4>3. QED BY <1>7, <1>8, <3>1, <4>1, <4>2
    <3>3. QED BY <1>6, <3>2
  <2>5. ASSUME NEW j \in Intervals(d), NEW k \in Intervals(d), j < k
        PROVE  Last(d, j) + 1 < Start(d, k)
    <3>1. CASE k \in 0..h
      <4>1. j \in 0..h /\ k \in 0..h
        BY <1>6, <2>5, <3>1
      <4>2. Last(c, j) + 1 < Start(c, k)
        BY <1>1, <2>5, <4>1 DEF Filled, Ranges
      <4>3. QED BY <1>7, <4>1, <4>2
    <3>2. CASE k = h + 1
      <4>1. j \in 0..h
        BY <1>6, <2>5, <3>2
      <4>2. QED BY <1>1, <1>7, <1>8, <3>2, <4>1
    <3>3. QED BY <1>6, <3>1, <3>2
  <2>6. QED BY <2>1, <2>2, <2>3, <2>4, <2>5 DEF Filled, Ranges
<1>10. Covered(d) = Covered(c) \cup (v..w)
  <2>1. Covered(c) = UNION {Start(c, k)..Last(c, k) : k \in 0..h}
    BY <1>1, FilledIsNotEmpty DEF Covered
  <2>2. Covered(d) = UNION {Start(d, k)..Last(d, k) : k \in 0..(h + 1)}
    BY <1>6, <1>9, FilledIsNotEmpty DEF Covered
  <2>3. 0..(h + 1) = (0..h) \cup {h + 1}
    OBVIOUS
  <2>4. QED BY <1>7, <1>8, <2>1, <2>2, <2>3
<1>11. ASSUME NEW x \in Covered(c) PROVE x < v
  <2>1. Covered(c) = UNION {Start(c, k)..Last(c, k) : k \in Intervals(c)}
    BY FilledIsNotEmpty DEF Covered
  <2>2. PICK k \in Intervals(c) : x \in Start(c, k)..Last(c, k)
    BY <2>1
  <2>3. Start(c, k) \in Nat /\ Last(c, k) \in Nat /\ Last(c, k) + 1 < v
    BY IntervalsAre
  <2>4. QED BY <2>2, <2>3, <1>3
<1>12. QED BY <1>9, <1>10, <1>11

LEMMA AppendIntervalAdds ==
  ASSUME NEW c \in Masks, Filled(c), c.range, NEW v \in 0..Mask, NEW r, r = AppendInterval(c, v)
  PROVE  Adds(c, r, {v})
<1>1. PICK h \in Nat : /\ c.n = 2 * h + 1 /\ h < N \div 2 /\ Intervals(c) = 0..h
                       /\ \A k \in 0..h : Last(c, k) <= Last(c, h)
  BY LastInterval
<1>2. PICK a, n, len, prev : a = c.a /\ n = c.n /\ len = a[n] /\ prev = a[n - 1] + len
  OBVIOUS
<1>3. /\ N \in Nat /\ N = 2 * (N \div 2) /\ N \div 2 \in Nat /\ Mask \in Nat
      /\ a \in [0..(N - 1) -> 0..Mask] /\ n = 2 * h + 1 /\ n <= N - 1
  BY <1>1, <1>2, HalfFacts DEF Masks
<1>4. /\ n - 1 = 2 * h /\ n \in 0..(N - 1) /\ 2 * h \in 0..(N - 1)
      /\ a[2 * h] \in 0..Mask /\ len \in 0..Mask /\ prev = a[2 * h] + len
      /\ Start(c, h) = a[2 * h] /\ Last(c, h) = prev
  <2>1. n - 1 = 2 * h /\ n \in 0..(N - 1) /\ 2 * h \in 0..(N - 1)
    BY <1>3
  <2>2. QED BY <1>2, <1>3, <2>1 DEF Start, Last
<1>5. \A k \in 0..h : Start(c, k) \in Nat /\ Last(c, k) \in Nat /\ Start(c, k) <= Last(c, k)
                      /\ Last(c, k) <= prev
  BY <1>1, <1>4, IntervalsAre
<1>6. r = IF prev >= v THEN Refused(c)
          ELSE IF prev + 1 = v THEN Set(c, Element(n, len + 1), n, TRUE)
          ELSE IF n >= N - 1 THEN Refused(c)
          ELSE Set(c, Element(n + 1, v), n + 2, TRUE)
  BY <1>2 DEF AppendInterval
<1>7. CASE prev + 1 = v
  <2>0. ~(prev >= v)
    BY <1>4, <1>7
  <2>1. r = Set(c, Element(n, len + 1), n, TRUE)
    BY <1>6, <1>7, <2>0, Zenon
  <2>2. n \in 0..(N - 1) /\ len + 1 \in 0..Mask /\ TRUE \in BOOLEAN
    BY <1>3, <1>4, <1>7
  <2>3. IsSet(r, c, n, len + 1, n, TRUE)
    BY <2>1, <2>2, SetElement, Zenon
  <2>4. PICK d, b : d = r.m /\ b = d.a
    OBVIOUS
  <2>5. /\ r.ok = TRUE /\ d \in Masks /\ d.n = n /\ d.range = TRUE
        /\ \A j \in 0..(N - 1) : b[j] = IF j = n THEN len + 1 ELSE a[j]
    BY <1>2, <2>3, <2>4 DEF IsSet
  <2>6. Intervals(d) = 0..h
    <3>1. \A k : k \in Intervals(d) <=> k \in Intervals(c)
      BY <1>2, <2>5, IntervalsAre
    <3>2. QED BY <1>1, <3>1
  <2>7. \A k \in 0..h : /\ Start(d, k) = Start(c, k)
                        /\ Last(d, k) = IF k = h THEN v ELSE Last(c, k)
    <3>1. TAKE k \in 0..h
    <3>2. /\ 2 * k \in 0..(N - 1) /\ 2 * k + 1 \in 0..(N - 1) /\ 2 * k # n
          /\ (2 * k + 1 = n <=> k = h)
      BY <1>3
    <3>3. b[2 * k] = a[2 * k] /\ b[2 * k + 1] = IF k = h THEN len + 1 ELSE a[2 * k + 1]
      BY <2>5, <3>2
    <3>4. a[2 * k] + (len + 1) = (a[2 * k] + len) + 1
      BY <1>3, <1>4, <3>2
    <3>5. QED BY <1>2, <1>4, <1>7, <2>4, <3>3, <3>4 DEF Start, Last
  <2>8. Filled(d)
    <3>1. \A i \in (d.n + 1)..(N - 1) : d.a[i] = 0
      <4>1. \A i \in (n + 1)..(N - 1) : a[i] = 0
        BY <1>2 DEF Filled
      <4>2. QED BY <1>3, <2>4, <2>5, <4>1
    <3>2. d.n % 2 = 1
      BY <1>3, <2>5
    <3>3. 0 < d.a[1]
      <4>1. 0 < a[1] /\ 1 \in 0..(N - 1)
        BY <1>2, <1>3 DEF Filled, Ranges
      <4>2. QED BY <1>4, <2>4, <2>5, <4>1
    <3>4. \A k \in Intervals(d) : Last(d, k) <= Mask
      <4>1. \A k \in 0..h : Last(c, k) <= Mask
        BY <1>1 DEF Filled, Ranges
      <4>2. QED BY <2>6, <2>7, <4>1
    <3>5. ASSUME NEW j \in Intervals(d), NEW k \in Intervals(d), j < k
          PROVE  Last(d, j) + 1 < Start(d, k)
      <4>1. j \in 0..h /\ k \in 0..h /\ j # h
        BY <2>6, <3>5
      <4>2. Last(c, j) + 1 < Start(c, k)
        BY <1>1, <3>5, <4>1 DEF Filled, Ranges
      <4>3. QED BY <2>7, <4>1, <4>2
    <3>6. QED BY <2>5, <3>1, <3>2, <3>3, <3>4, <3>5 DEF Filled, Ranges
  <2>9. Covered(c) = UNION {Start(c, k)..Last(c, k) : k \in 0..h}
    BY <1>1, FilledIsNotEmpty DEF Covered
  <2>10. Covered(d) = UNION {Start(d, k)..Last(d, k) : k \in 0..h}
    BY <2>5, <2>6, <2>8, FilledIsNotEmpty DEF Covered
  <2>11. \A x : x \in Start(d, h)..Last(d, h) <=> x \in Start(c, h)..Last(c, h) \/ x = v
    <3>1. h \in 0..h
      OBVIOUS
    <3>2. QED BY <1>4, <1>5, <1>7, <2>7, <3>1
  <2>12. Covered(d) = Covered(c) \cup {v}
    <3>1. ASSUME NEW x \in Covered(d) PROVE x \in Covered(c) \cup {v}
      <4>1. PICK k \in 0..h : x \in Start(d, k)..Last(d, k)
        BY <2>10
      <4>2. QED BY <2>7, <2>9, <2>11, <4>1
    <3>2. ASSUME NEW x \in Covered(c) PROVE x \in Covered(d)
      <4>1. PICK k \in 0..h : x \in Start(c, k)..Last(c, k)
        BY <2>9
      <4>2. QED BY <2>7, <2>10, <2>11, <4>1
    <3>3. v \in Covered(d)
      <4>1. h \in 0..h
        OBVIOUS
      <4>2. QED BY <2>10, <2>11, <4>1
    <3>4. QED BY <3>1, <3>2, <3>3
  <2>13. ASSUME NEW x \in Covered(c) PROVE x < v
    <3>1. PICK k \in 0..h : x \in Start(c, k)..Last(c, k)
      BY <2>9
    <3>2. QED BY <1>4, <1>5, <1>7, <3>1
  <2>14. QED BY <2>4, <2>5, <2>8, <2>12, <2>13 DEF Adds
<1>8. CASE prev + 1 < v /\ n < N - 1
  <2>0. ~(prev >= v) /\ ~(n >= N - 1) /\ prev + 1 # v
    BY <1>3, <1>4, <1>8
  <2>1. r = Set(c, Element(n + 1, v), n + 2, TRUE)
    BY <1>6, <2>0, Zenon
  <2>2. n + 1 \in 0..(N - 1) /\ n + 2 \in 0..(N - 1) /\ TRUE \in BOOLEAN
    BY <1>3, <1>8
  <2>3. IsSet(r, c, n + 1, v, n + 2, TRUE)
    BY <2>1, <2>2, SetElement, Zenon
  <2>4. a[n + 2] = 0
    BY <1>2, <1>3, <2>2 DEF Filled
  <2>5. r.ok = TRUE /\ IsExtended(r.m, c, v, v)
    <3>1. v - v = 0 /\ n + 1 # n + 2
      BY <1>3
    <3>2. QED BY <1>2, <2>3, <2>4, <3>1 DEF IsSet, IsExtended
  <2>6. ASSUME NEW k \in Intervals(c) PROVE Last(c, k) + 1 < v
    <3>1. Last(c, k) \in Nat /\ Last(c, k) <= prev
      BY <1>1, <1>5
    <3>2. QED BY <1>4, <1>8, <3>1
  <2>7. c.n < N - 1 /\ v <= v
    BY <1>2, <1>8
  <2>8. Filled(r.m) /\ Covered(r.m) = Covered(c) \cup (v..v) /\ \A x \in Covered(c) : x < v
    BY <2>5, <2>6, <2>7, NewInterval
  <2>9. v..v = {v}
    OBVIOUS
  <2>10. QED BY <2>5, <2>8, <2>9 DEF Adds, IsExtended
<1>9. CASE prev >= v \/ (n >= N - 1 /\ prev + 1 # v)
  <2>1. r = Refused(c)
    BY <1>6, <1>9, <1>4
  <2>2. QED BY <2>1 DEF Adds, Refused
<1>10. QED BY <1>3, <1>4, <1>7, <1>8, <1>9, SMTT(20)

\* What appendRange does to an empty mask or to one of intervals.
IsInterval(r, c, n, v, w) ==
  /\ r.ok = TRUE /\ r.m \in Masks /\ r.m.n = n /\ r.m.range = TRUE
  /\ \A j \in 0..(N - 1) :
       r.m.a[j] = IF j = n - 1 THEN v ELSE IF j = n THEN w - v ELSE c.a[j]

LEMMA SetInterval ==
  ASSUME NEW c \in Masks, NEW n \in 1..(N - 1), NEW v \in 0..Mask, NEW w \in 0..Mask, v <= w,
         NEW e, e = [i \in {n - 1, n} |-> IF i = n THEN w - v ELSE v]
  PROVE  IsInterval(Set(c, e, n, TRUE), c, n, v, w)
<1>1. Mask \in Nat /\ w - v \in 0..Mask /\ n # n - 1 /\ n \in 0..(N - 1) /\ TRUE \in BOOLEAN
  BY HalfFacts
<1>2. DOMAIN e = {n - 1, n} /\ e[n - 1] = v /\ e[n] = w - v
  BY <1>1
<1>3. \A i \in DOMAIN e : e[i] \in 0..Mask
  BY <1>1, <1>2
<1>4. AreSet(Set(c, e, n, TRUE), c, e, n, TRUE)
  BY <1>1, <1>3, SetElements, Zenon
<1>5. QED BY <1>1, <1>2, <1>4 DEF AreSet, IsInterval

LEMMA AppendRangeAdds ==
  ASSUME NEW c, WellFormed(c), NEW v \in Nat, NEW w \in Nat, v < w,
         \A x \in Covered(c) : x + 1 < v,
         NEW r, r = AppendRangeTo(c, v, w)
  PROVE  Adds(c, r, v..w)
<1>1. PICK n : n = IF c.n = 0 THEN 1 ELSE c.n + 2
  OBVIOUS
<1>a. PICK e : e = [i \in {n - 1, n} |-> IF i = n THEN w - v ELSE v]
  OBVIOUS
<1>2. r = IF (IsEmpty(c) \/ (c.range /\ c.n < N - 1)) /\ v <= w /\ w <= Mask
          THEN Set(c, e, n, TRUE) ELSE Refused(c)
  BY <1>1, <1>a DEF AppendRangeTo
<1>b. v <= w
  OBVIOUS
<1>3. c \in Masks /\ c.n \in Nat /\ c.n <= N - 1 /\ c.a \in [0..(N - 1) -> 0..Mask]
  BY HalfFacts DEF WellFormed, Masks
<1>4. CASE IsEmpty(c) /\ w <= Mask
  <2>1. n = 1 /\ c.n = 0 /\ c = Empty
    BY <1>1, <1>4, EmptyFacts DEF IsEmpty
  <2>2. r = Set(c, e, n, TRUE)
    BY <1>2, <1>4, <1>b, Zenon
  <2>3. n \in 1..(N - 1) /\ v \in 0..Mask /\ w \in 0..Mask /\ v <= w
    BY <1>4, <2>1, HalfFacts
  <2>4. /\ r.ok = TRUE /\ r.m \in Masks /\ r.m.n = 1 /\ r.m.range = TRUE
        /\ \A j \in 0..(N - 1) :
             r.m.a[j] = IF j = n - 1 THEN v ELSE IF j = n THEN w - v ELSE c.a[j]
    <3>1. IsInterval(r, c, n, v, w)
      BY <1>3, <1>a, <2>2, <2>3, SetInterval, Zenon
    <3>2. QED BY <2>1, <3>1 DEF IsInterval
  <2>5. /\ r.m.a[0] = v /\ r.m.a[1] = w - v
        /\ \A j \in 2..(N - 1) : r.m.a[j] = 0
    BY <2>1, <2>4, HalfFacts DEF Empty
  <2>6. Start(r.m, 0) = v /\ Last(r.m, 0) = w
    BY <2>5 DEF Start, Last
  <2>7. Intervals(r.m) = {0}
    BY <2>4, IntervalsAre
  <2>8. Filled(r.m)
    <3>1. 0 < w - v /\ 1 % 2 = 1 /\ 1 + 1 = 2
      OBVIOUS
    <3>2. QED BY <1>4, <2>4, <2>5, <2>6, <2>7, <3>1 DEF Filled, Ranges
  <2>9. Covered(r.m) = UNION {Start(r.m, k)..Last(r.m, k) : k \in {0}}
    BY <2>4, <2>7, <2>8, FilledIsNotEmpty DEF Covered
  <2>10. Covered(r.m) = v..w /\ Covered(c) = {}
    BY <1>4, <2>6, <2>9 DEF Covered
  <2>11. QED BY <2>4, <2>8, <2>10 DEF Adds
<1>5. CASE ~IsEmpty(c) /\ c.range /\ c.n < N - 1 /\ w <= Mask
  <2>1. Filled(c)
    BY <1>5 DEF WellFormed, IsEmpty
  <2>2. PICK h \in Nat : c.n = 2 * h + 1 /\ Intervals(c) = 0..h
    BY <1>3, <1>5, <2>1, LastInterval
  <2>3. /\ n = c.n + 2 /\ n - 1 = c.n + 1
        /\ n \in 1..(N - 1) /\ v \in 0..Mask /\ w \in 0..Mask /\ v <= w
    <3>1. n = c.n + 2 /\ n - 1 = c.n + 1 /\ v \in 0..Mask /\ w \in 0..Mask /\ v <= w
      BY <1>1, <1>3, <1>5, <2>2, HalfFacts
    <3>2. N - 1 = 2 * (N \div 2) - 1 /\ N \div 2 \in Nat
      BY HalfFacts
    <3>3. QED BY <1>5, <2>2, <3>1, <3>2
  <2>4. r = Set(c, e, n, TRUE)
    BY <1>2, <1>5, <1>b, Zenon
  <2>5. IsInterval(r, c, n, v, w)
    BY <1>3, <1>a, <2>3, <2>4, SetInterval, Zenon
  <2>6. r.ok = TRUE /\ r.m \in Masks /\ IsExtended(r.m, c, v, w)
    BY <2>3, <2>5 DEF IsInterval, IsExtended
  <2>7. ASSUME NEW k \in Intervals(c) PROVE Last(c, k) + 1 < v
    <3>1. Last(c, k) \in Start(c, k)..Last(c, k)
      BY <1>3, IntervalsAre
    <3>2. Last(c, k) \in Covered(c)
      BY <1>5, <3>1 DEF Covered
    <3>3. QED BY <3>2
  <2>8. /\ Filled(r.m) /\ Covered(r.m) = Covered(c) \cup (v..w)
        /\ \A x \in Covered(c) : x < v
    BY <1>3, <1>5, <2>1, <2>3, <2>6, <2>7, NewInterval
  <2>9. \A x \in Covered(c), y \in v..w : x < y
    <3>1. TAKE x \in Covered(c), y \in v..w
    <3>2. x \in Nat
      BY <1>3, <1>5, IntervalsAre DEF Covered
    <3>3. QED BY <2>8, <3>2
  <2>10. QED BY <2>6, <2>8, <2>9 DEF Adds
<1>6. CASE ~(IsEmpty(c) \/ (c.range /\ c.n < N - 1)) \/ ~(w <= Mask)
  <2>1. r = Refused(c)
    BY <1>2, <1>6
  <2>2. QED BY <2>1 DEF Adds, Refused
<1>7. QED BY <1>4, <1>5, <1>6

LEMMA AppendAdds ==
  ASSUME NEW c, WellFormed(c), NEW v \in Nat, NEW r, r = AppendTo(c, v)
  PROVE  Adds(c, r, {v})
<1>1. c \in Masks /\ c.a \in [0..(N - 1) -> 0..Mask] /\ c.range \in BOOLEAN
  BY DEF WellFormed, Masks
<1>2. CASE v > Mask
  <2>1. r = Refused(c)
    BY <1>2 DEF AppendTo
  <2>2. QED BY <2>1 DEF Adds, Refused
<1>3. CASE ~(v > Mask) /\ IsEmpty(c)
  <2>1. r = Set(c, [i \in DOMAIN c.a |-> IF i = 0 THEN v ELSE 0], 0, FALSE)
    BY <1>3 DEF AppendTo
  <2>2. v \in 0..Mask /\ N \in Nat /\ N >= 2 /\ Mask \in Nat /\ 0 \in 0..(N - 1) /\ FALSE \in BOOLEAN
    BY <1>3, HalfFacts
  <2>3. PICK e : e = [i \in DOMAIN c.a |-> IF i = 0 THEN v ELSE 0]
    OBVIOUS
  <2>4. DOMAIN e = 0..(N - 1) /\ e[0] = v /\ (\A i \in 1..(N - 1) : e[i] = 0)
        /\ \A i \in DOMAIN e : e[i] \in 0..Mask
    BY <1>1, <2>2, <2>3
  <2>a. AreSet(r, c, e, 0, FALSE)
    BY <1>1, <2>1, <2>2, <2>3, <2>4, SetElements, ZenonT(30)
  <2>5. /\ r.ok = TRUE /\ r.m \in Masks /\ r.m.n = 0 /\ r.m.range = FALSE
        /\ r.m.a[0] = v /\ \A i \in 1..(N - 1) : r.m.a[i] = 0
    BY <2>2, <2>4, <2>a DEF AreSet
  <2>6. Filled(r.m)
    BY <2>5 DEF Filled, Values
  <2>7. Covered(r.m) = {v}
    <3>1. Covered(r.m) = {r.m.a[i] : i \in 0..0}
      BY <2>5, <2>6, FilledIsNotEmpty DEF Covered
    <3>2. QED BY <2>5, <3>1
  <2>8. Covered(c) = {}
    BY <1>3 DEF Covered
  <2>9. QED BY <2>5, <2>6, <2>7, <2>8 DEF Adds
<1>4. CASE ~(v > Mask) /\ ~IsEmpty(c)
  <2>1. Filled(c) /\ v \in 0..Mask
    BY <1>4, HalfFacts DEF WellFormed, IsEmpty
  <2>2. CASE c.range
    <3>1. r = AppendInterval(c, v)
      BY <1>4, <2>2 DEF AppendTo
    <3>2. QED BY <1>1, <2>1, <2>2, <3>1, AppendIntervalAdds
  <2>3. CASE ~c.range
    <3>1. r = AppendValue(c, v)
      BY <1>4, <2>3 DEF AppendTo
    <3>2. QED BY <1>1, <2>1, <2>3, <3>1, AppendValueAdds
  <2>4. QED BY <2>2, <2>3
<1>5. QED BY <1>2, <1>3, <1>4

-----------------------------------------------------------------------------
(* The iterator. What holds for every number is shown by the least number  *)
(* for which it would not hold.                                            *)

LEMMA LessThanIsWellFounded == IsWellFoundedOn({ss \in Nat \X Nat : ss[1] < ss[2]}, Nat)
BY NatLessThanWellFounded DEF OpToRel

LEMMA Least ==
  ASSUME NEW T, T \subseteq Nat, T # {}
  PROVE  \E x \in T : \A y \in T : x <= y
<1> DEFINE R == {ss \in Nat \X Nat : ss[1] < ss[2]}
<1>1. \E x \in T : \A y \in T : ~ (<<y, x>> \in R)
  <2> HIDE DEF R
  <2>1. IsWellFoundedOn(R, Nat)
    BY LessThanIsWellFounded DEF R
  <2>2. QED BY <2>1, WFMin
<1>2. PICK x \in T : \A y \in T : ~ (<<y, x>> \in R)
  BY <1>1
<1>3. ASSUME NEW y \in T PROVE x <= y
  <2>1. ~(<<y, x>> \in R)
    BY <1>2
  <2>2. x \in Nat /\ y \in Nat
    OBVIOUS
  <2>3. QED BY <2>1, <2>2
<1>4. QED BY <1>3

\* The sums of the first lengths exist.
IsSum(f, h, l) ==
  f \in [0..h -> Nat] /\ f[0] = 0 /\ \A k \in 0..(h - 1) : f[k + 1] = f[k] + l[k]

LEMMA SumsExist ==
  ASSUME NEW h \in Nat, NEW l \in [Nat -> Nat]
  PROVE  \E f : IsSum(f, h, l)
<1> DEFINE T == {j \in Nat : ~\E f : IsSum(f, j, l)}
<1>1. SUFFICES ASSUME T # {} PROVE FALSE
  OBVIOUS
<1>2. PICK j \in T : \A y \in T : j <= y
  <2>1. T \subseteq Nat
    OBVIOUS
  <2> HIDE DEF T
  <2>2. QED BY <1>1, <2>1, Least
<1>3. j # 0
  <2>1. IsSum([k \in 0..0 |-> 0], 0, l)
    BY DEF IsSum
  <2>2. QED BY <2>1
<1>4. PICK i \in Nat : j = i + 1
  BY <1>3
<1>5. PICK f : IsSum(f, i, l)
  BY <1>2, <1>4
<1>6. IsSum([k \in 0..j |-> IF k = j THEN f[i] + l[i] ELSE f[k]], j, l)
  <2> DEFINE g == [k \in 0..j |-> IF k = j THEN f[i] + l[i] ELSE f[k]]
  <2>1. f[i] \in Nat /\ l[i] \in Nat
    BY <1>5 DEF IsSum
  <2>2. ASSUME NEW k \in 0..i PROVE g[k] = f[k] /\ f[k] \in Nat
    <3>1. k \in 0..j /\ k # j
      BY <1>4
    <3>2. QED BY <1>5, <3>1 DEF IsSum
  <2>3. g[j] = f[i] + l[i]
    OBVIOUS
  <2>a. g = [k \in 0..j |-> g[k]]
    OBVIOUS
  <2>4. g \in [0..j -> Nat]
    <3> HIDE DEF g
    <3>1. ASSUME NEW k \in 0..j PROVE g[k] \in Nat
      <4>1. k = j \/ k \in 0..i
        BY <1>4
      <4>2. QED BY <2>1, <2>2, <2>3, <4>1
    <3>2. QED BY <2>a, <3>1
  <2> HIDE DEF g
  <2>5. g[0] = 0
    BY <1>5, <2>2 DEF IsSum
  <2>6. ASSUME NEW k \in 0..(j - 1) PROVE g[k + 1] = g[k] + l[k]
    <3>1. CASE k = i
      BY <1>4, <2>2, <2>3, <3>1
    <3>2. CASE k # i
      <4>1. k \in 0..(i - 1) /\ k + 1 \in 0..i /\ k \in 0..i
        BY <1>4, <3>2
      <4>2. QED BY <1>5, <2>2, <4>1 DEF IsSum
    <3>3. QED BY <3>1, <3>2
  <2>7. QED BY <2>4, <2>5, <2>6 DEF IsSum, g
<1>7. QED BY <1>2, <1>6

\* Whatever satisfies the recursion is such a function of numbers.
Recurs(g, h, l) ==
  /\ g = [k \in 0..h |-> g[k]] /\ g[0] = 0
  /\ \A k \in 0..(h - 1) : g[k + 1] = g[k] + l[k]

LEMMA SumIsUnique ==
  ASSUME NEW h \in Nat, NEW l, NEW f, IsSum(f, h, l), NEW g, Recurs(g, h, l)
  PROVE  g = f
<1> DEFINE T == {j \in 0..h : g[j] # f[j]}
<1>1. ASSUME T # {} PROVE FALSE
  <2>1. PICK j \in T : \A y \in T : j <= y
    <3>1. T \subseteq Nat
      OBVIOUS
    <3> HIDE DEF T
    <3>2. QED BY <1>1, <3>1, Least
  <2>2. j # 0
    BY DEF IsSum, Recurs
  <2>3. j - 1 \in 0..(h - 1) /\ (j - 1) + 1 = j /\ j - 1 \in 0..h /\ ~(j <= j - 1)
    BY <2>2
  <2>4. g[j - 1] = f[j - 1]
    BY <2>1, <2>3
  <2>5. g[j] = f[j]
    BY <2>3, <2>4 DEF IsSum, Recurs
  <2>6. QED BY <2>5
<1>2. f \in [0..h -> Nat] /\ \A j \in 0..h : g[j] = f[j]
  BY <1>1 DEF IsSum
<1>3. QED BY <1>2 DEF Recurs

\* Before(c) is the sequence of these sums.
LEMMA BeforeIs ==
  ASSUME NEW c \in Masks
  PROVE  \E f \in [0..(N \div 2) -> Nat] :
           /\ Before(c) = f /\ f[0] = 0
           /\ \A k \in 0..(N \div 2 - 1) : Length(c, k) \in Nat \ {0} /\ f[k + 1] = f[k] + Length(c, k)
<1>1. PICK h : h \in Nat /\ h = N \div 2 /\ N = 2 * h
  BY HalfFacts
<1>2. \A k \in 0..(h - 1) : Length(c, k) \in Nat \ {0}
  <2>1. TAKE k \in 0..(h - 1)
  <2>2. 2 * k + 1 \in 0..(N - 1)
    BY <1>1
  <2>3. c.a[2 * k + 1] \in Nat
    BY <2>2, HalfFacts DEF Masks
  <2>4. QED BY <2>3 DEF Length
<1>3. PICK l : l = [k \in Nat |-> IF k \in 0..(h - 1) THEN Length(c, k) ELSE 0]
  OBVIOUS
<1>4. l \in [Nat -> Nat] /\ \A k \in 0..(h - 1) : l[k] = Length(c, k)
  BY <1>2, <1>3
<1> DEFINE F(f) == [k \in 0..h |-> IF k = 0 THEN 0 ELSE f[k - 1] + Length(c, k - 1)]
<1>5. ASSUME NEW f, IsSum(f, h, l) PROVE f = F(f)
  <2>1. ASSUME NEW k \in 0..h PROVE f[k] = IF k = 0 THEN 0 ELSE f[k - 1] + Length(c, k - 1)
    <3>1. CASE k = 0
      BY <1>5, <3>1 DEF IsSum
    <3>2. CASE k # 0
      <4>1. k - 1 \in 0..(h - 1) /\ (k - 1) + 1 = k
        BY <1>1, <3>2
      <4>2. QED BY <1>4, <1>5, <3>2, <4>1 DEF IsSum
    <3>3. QED BY <3>1, <3>2
  <2>2. f = [k \in 0..h |-> f[k]]
    BY <1>5 DEF IsSum
  <2>3. QED BY <2>1, <2>2
<1>6. PICK f : IsSum(f, h, l)
  BY <1>1, <1>4, SumsExist
<1>7. Before(c) = CHOOSE g : g = F(g)
  BY <1>1 DEF Before
<1>8. Before(c) = F(Before(c))
  <2>1. \E g : g = F(g)
    BY <1>5, <1>6
  <2> HIDE DEF F
  <2>2. QED BY <1>7, <2>1
<1>9. Before(c) = f
  <2>0. PICK b : b = Before(c)
    OBVIOUS
  <2>1. b = F(b)
    BY <1>8, <2>0
  <2>2. DOMAIN b = 0..h /\ b = [k \in 0..h |-> b[k]]
    BY <1>1, <2>1
  <2>3. b[0] = 0
    BY <1>1, <2>1
  <2>4. ASSUME NEW k \in 0..(h - 1) PROVE b[k + 1] = b[k] + l[k]
    <3>1. k + 1 \in 0..h /\ k + 1 # 0 /\ (k + 1) - 1 = k
      BY <1>1
    <3>2. QED BY <1>4, <2>1, <3>1
  <2> HIDE DEF F
  <2>5. Recurs(b, h, l)
    BY <2>2, <2>3, <2>4 DEF Recurs
  <2>6. QED BY <1>1, <1>6, <2>0, <2>5, SumIsUnique
<1>10. QED BY <1>1, <1>2, <1>4, <1>6, <1>9 DEF IsSum

LEMMA SumsIncrease ==
  ASSUME NEW h \in Nat, NEW f \in [0..h -> Nat], \A k \in 0..(h - 1) : f[k] < f[k + 1]
  PROVE  \A j, k \in 0..h : j < k => f[j + 1] <= f[k]
<1> SUFFICES ASSUME NEW j \in 0..h, NEW k \in 0..h, j < k, ~(f[j + 1] <= f[k]) PROVE FALSE
  OBVIOUS
<1> DEFINE T == {x \in 0..h : j < x /\ ~(f[j + 1] <= f[x])}
<1>1. PICK x \in T : \A y \in T : x <= y
  <2>1. T \subseteq Nat /\ k \in T
    OBVIOUS
  <2> HIDE DEF T
  <2>2. QED BY <2>1, Least
<1>2. x \in 0..h /\ j < x /\ ~(f[j + 1] <= f[x])
  OBVIOUS
<1>3. j + 1 \in 0..h /\ f[j + 1] \in Nat /\ f[x] \in Nat
  BY <1>2
<1>4. x # j + 1
  BY <1>2, <1>3
<1>5. x - 1 \in 0..(h - 1) /\ (x - 1) + 1 = x /\ j < x - 1 /\ x - 1 \in 0..h /\ ~(x <= x - 1)
  BY <1>2, <1>4
<1>6. f[j + 1] <= f[x - 1]
  BY <1>1, <1>5
<1>7. f[x - 1] < f[x] /\ f[x - 1] \in Nat
  BY <1>5
<1>8. QED BY <1>2, <1>3, <1>6, <1>7

\* The places that the iterator passes: the indices of the k-th interval are
\* those from the k-th sum on.
Places(c, h, f) ==
  /\ f \in [0..(h + 1) -> Nat]
  /\ Intervals(c) = 0..h /\ h < N \div 2 /\ Size(c) = f[h + 1] /\ f[0] = 0
  /\ \A k \in 0..h : f[k + 1] = f[k] + ((Last(c, k) - Start(c, k)) + 1)
  /\ \A j, k \in 0..(h + 1) : j < k => f[j + 1] <= f[k]
  /\ \A k \in 0..h, i \in Nat :
       f[k] <= i /\ i < f[k + 1] => Get(c, i) = Start(c, k) + (i - f[k])
  /\ \A i \in 0..(Size(c) - 1) : \E k \in 0..h : f[k] <= i /\ i < f[k + 1]

LEMMA PlacesOfIntervals ==
  ASSUME NEW c \in Masks, Filled(c), c.range
  PROVE  \E h \in Nat : \E f : Places(c, h, f)
<1>1. PICK h \in Nat : c.n = 2 * h + 1 /\ h < N \div 2 /\ Intervals(c) = 0..h
  BY LastInterval
<1>2. PICK b \in [0..(N \div 2) -> Nat] :
        /\ Before(c) = b /\ b[0] = 0
        /\ \A k \in 0..(N \div 2 - 1) : Length(c, k) \in Nat \ {0} /\ b[k + 1] = b[k] + Length(c, k)
  BY BeforeIs
<1>3. PICK f : f = [k \in 0..(h + 1) |-> b[k]]
  OBVIOUS
<1>4. N \div 2 \in Nat /\ 0..h \subseteq 0..(N \div 2 - 1) /\ 0..(h + 1) \subseteq 0..(N \div 2)
  BY <1>1, HalfFacts
<1>5. f \in [0..(h + 1) -> Nat] /\ f[0] = 0
  BY <1>2, <1>3, <1>4
<1>6. ASSUME NEW k \in 0..h
      PROVE  /\ Length(c, k) \in Nat \ {0} /\ f[k + 1] = f[k] + Length(c, k) /\ f[k] < f[k + 1]
             /\ Length(c, k) = (Last(c, k) - Start(c, k)) + 1
             /\ f[k] = b[k] /\ f[k + 1] = b[k + 1] /\ f[k] \in Nat /\ f[k + 1] \in Nat
  <2>1. k \in 0..(N \div 2 - 1) /\ k \in 0..(h + 1) /\ k + 1 \in 0..(h + 1) /\ k \in Intervals(c)
    BY <1>1, <1>4
  <2>2. f[k] = b[k] /\ f[k + 1] = b[k + 1] /\ f[k] \in Nat /\ f[k + 1] \in Nat
    BY <1>3, <1>5, <2>1
  <2>3. Length(c, k) \in Nat \ {0} /\ b[k + 1] = b[k] + Length(c, k)
    BY <1>2, <2>1
  <2>4. Start(c, k) \in Nat /\ c.a[2 * k + 1] \in Nat
    BY <2>1, IntervalsAre
  <2>5. Length(c, k) = (Last(c, k) - Start(c, k)) + 1
    BY <2>4 DEF Length, Last, Start
  <2>6. QED BY <2>2, <2>3, <2>5
<1>7. \A j, k \in 0..(h + 1) : j < k => f[j + 1] <= f[k]
  <2>1. \A k \in 0..((h + 1) - 1) : f[k] < f[k + 1]
    BY <1>6
  <2>2. h + 1 \in Nat
    OBVIOUS
  <2>3. QED BY <1>5, <2>1, <2>2, SumsIncrease
<1>8. Size(c) = f[h + 1]
  <2>1. (c.n + 1) \div 2 = h + 1
    BY <1>1
  <2>2. Size(c) = Before(c)[h + 1]
    BY <2>1, FilledIsNotEmpty DEF Size
  <2>3. QED BY <1>2, <1>3, <2>2
<1>9. ASSUME NEW k \in 0..h, NEW i \in Nat, f[k] <= i, i < f[k + 1]
      PROVE  Get(c, i) = Start(c, k) + (i - f[k])
  <2> DEFINE P(x) == Before(c)[x] <= i /\ i < Before(c)[x + 1]
  <2>1. P(k) /\ k \in Intervals(c)
    BY <1>1, <1>2, <1>6, <1>9
  <2>2. ASSUME NEW x \in Intervals(c), P(x) PROVE x = k
    <3>1. x \in 0..h /\ f[x] <= i /\ i < f[x + 1]
      BY <1>1, <1>2, <1>6, <2>2
    <3>2. CASE x < k
      <4>1. f[x + 1] <= f[k]
        BY <1>7, <3>1, <3>2
      <4>2. QED BY <1>6, <1>9, <3>1, <4>1
    <3>3. CASE k < x
      <4>1. f[k + 1] <= f[x]
        BY <1>7, <3>1, <3>3
      <4>2. QED BY <1>6, <1>9, <3>1, <4>1, SMTT(20)
    <3>4. QED BY <3>1, <3>2, <3>3
  <2>3. k = CHOOSE x \in Intervals(c) : P(x)
    BY <2>1, <2>2
  <2>4. Get(c, i) = c.a[2 * k] + (i - Before(c)[k])
    BY <1>2, <2>3, Zenon DEF Get
  <2>5. Before(c)[k] = f[k]
    BY <1>2, <1>6
  <2>6. QED BY <2>4, <2>5, Zenon DEF Start
<1>10. ASSUME NEW i \in 0..(Size(c) - 1) PROVE \E k \in 0..h : f[k] <= i /\ i < f[k + 1]
  <2> DEFINE T == {k \in 0..h : i < f[k + 1]}
  <2>1. h \in T
    BY <1>5, <1>8
  <2>2. PICK k \in T : \A y \in T : k <= y
    <3>1. T \subseteq Nat /\ T # {}
      BY <2>1
    <3> HIDE DEF T
    <3>2. QED BY <3>1, Least
  <2>3. k \in 0..h /\ i < f[k + 1]
    OBVIOUS
  <2>4. f[k] <= i
    <3>1. CASE k = 0
      BY <1>5, <3>1
    <3>2. CASE k # 0
      <4>1. k - 1 \in 0..h /\ (k - 1) + 1 = k /\ ~(k <= k - 1)
        BY <2>3, <3>2
      <4>2. ~(i < f[k])
        BY <2>2, <4>1
      <4>3. QED BY <1>6, <2>3, <4>2
    <3>3. QED BY <3>1, <3>2
  <2>5. QED BY <2>3, <2>4
<1>11. Places(c, h, f)
  BY <1>1, <1>5, <1>6, <1>7, <1>8, <1>9, <1>10 DEF Places
<1>12. QED BY <1>11

LEMMA PlacesAreNumbers ==
  ASSUME NEW c \in Masks, NEW h \in Nat, NEW f, Places(c, h, f)
  PROVE  \A k \in 0..h : /\ Start(c, k) \in Nat /\ Last(c, k) \in Nat
                         /\ f[k] \in Nat /\ f[k + 1] \in Nat
<1>1. TAKE k \in 0..h
<1>2. k \in Intervals(c) /\ k \in 0..(h + 1) /\ k + 1 \in 0..(h + 1)
  BY DEF Places
<1>3. f[k] \in Nat /\ f[k + 1] \in Nat
  BY <1>2 DEF Places
<1>4. QED BY <1>2, <1>3, IntervalsAre

\* What the iterator of a mask of any shape returns.
LEMMA ElementsAreCovered ==
  ASSUME NEW c, WellFormed(c)
  PROVE  Elements(c) = Covered(c)
<1>1. c \in Masks /\ c.n \in Nat
  BY HalfFacts DEF WellFormed, Masks
<1>2. CASE IsEmpty(c)
  <2>1. 0..(Size(c) - 1) = {}
    BY <1>2 DEF Size
  <2>2. QED BY <1>2, <2>1 DEF Elements, Covered
<1>3. CASE ~IsEmpty(c) /\ ~c.range
  <2>1. 0..(Size(c) - 1) = 0..c.n
    BY <1>1, <1>3 DEF Size
  <2>2. \A i : Get(c, i) = c.a[i]
    BY <1>3 DEF Get
  <2>3. QED BY <1>3, <2>1, <2>2 DEF Elements, Covered
<1>4. CASE ~IsEmpty(c) /\ c.range
  <2>1. PICK h \in Nat : \E f : Places(c, h, f)
    BY <1>4, PlacesOfIntervals DEF WellFormed, IsEmpty
  <2>2. PICK f : Places(c, h, f)
    BY <2>1
  <2>3. Covered(c) = UNION {Start(c, k)..Last(c, k) : k \in 0..h}
    BY <1>4, <2>2 DEF Covered, Places
  <2>4. \A k \in 0..h : Start(c, k) \in Nat /\ Last(c, k) \in Nat /\ f[k] \in Nat /\ f[k + 1] \in Nat
    BY <1>1, <2>2, PlacesAreNumbers
  <2>5. ASSUME NEW x \in Elements(c) PROVE x \in Covered(c)
    <3>1. PICK i \in 0..(Size(c) - 1) : x = Get(c, i)
      BY DEF Elements
    <3>2. PICK k \in 0..h : f[k] <= i /\ i < f[k + 1]
      BY <2>2 DEF Places
    <3>3. x = Start(c, k) + (i - f[k]) /\ f[k + 1] = f[k] + ((Last(c, k) - Start(c, k)) + 1)
      BY <2>2, <3>1, <3>2 DEF Places
    <3>4. x \in Start(c, k)..Last(c, k)
      BY <2>4, <3>2, <3>3
    <3>5. QED BY <2>3, <3>4
  <2>6. ASSUME NEW x \in Covered(c) PROVE x \in Elements(c)
    <3>1. PICK k \in 0..h : x \in Start(c, k)..Last(c, k)
      BY <2>3
    <3>2. PICK i : i = f[k] + (x - Start(c, k))
      OBVIOUS
    <3>3. f[k + 1] = f[k] + ((Last(c, k) - Start(c, k)) + 1)
      BY <2>2 DEF Places
    <3>4. i \in Nat /\ f[k] <= i /\ i < f[k + 1] /\ x = Start(c, k) + (i - f[k])
      BY <2>4, <3>1, <3>2, <3>3
    <3>5. x = Get(c, i)
      BY <2>2, <3>4 DEF Places
    <3>6. Size(c) \in Nat /\ f[k + 1] <= Size(c)
      <4>1. CASE k = h
        BY <2>2, <2>4, <4>1 DEF Places
      <4>2. CASE k < h
        <5>1. k \in 0..(h + 1) /\ h + 1 \in 0..(h + 1) /\ k < h + 1
          OBVIOUS
        <5>2. QED BY <2>2, <5>1 DEF Places
      <4>3. QED BY <4>1, <4>2
    <3>7. i \in 0..(Size(c) - 1)
      BY <2>4, <3>4, <3>6
    <3>8. QED BY <3>5, <3>7 DEF Elements
  <2>7. QED BY <2>5, <2>6
<1>5. QED BY <1>2, <1>3, <1>4

LEMMA IteratorIncreases ==
  ASSUME NEW c, WellFormed(c), NEW i \in 0..(Size(c) - 1), NEW j \in 0..(Size(c) - 1), i < j
  PROVE  Get(c, i) < Get(c, j)
<1>1. c \in Masks /\ c.n \in Nat
  BY HalfFacts DEF WellFormed, Masks
<1>2. ~IsEmpty(c)
  BY DEF Size
<1>3. CASE ~c.range
  <2>1. i \in 0..c.n /\ j \in 0..c.n
    BY <1>1, <1>2, <1>3 DEF Size
  <2>2. QED BY <1>2, <1>3, <2>1 DEF Get, WellFormed, Filled, Values, IsEmpty
<1>4. CASE c.range
  <2>1. Filled(c)
    BY <1>2 DEF WellFormed, IsEmpty
  <2>2. PICK h \in Nat : \E f : Places(c, h, f)
    BY <1>1, <1>4, <2>1, PlacesOfIntervals
  <2>3. PICK f : Places(c, h, f)
    BY <2>2
  <2>4. \A k \in 0..h : Start(c, k) \in Nat /\ Last(c, k) \in Nat /\ f[k] \in Nat /\ f[k + 1] \in Nat
    BY <1>1, <2>3, PlacesAreNumbers
  <2>5. PICK k \in 0..h : f[k] <= i /\ i < f[k + 1]
    BY <2>3 DEF Places
  <2>6. PICK l \in 0..h : f[l] <= j /\ j < f[l + 1]
    BY <2>3 DEF Places
  <2>7. Get(c, i) = Start(c, k) + (i - f[k]) /\ Get(c, j) = Start(c, l) + (j - f[l])
    BY <2>3, <2>5, <2>6 DEF Places
  <2>8. CASE k = l
    BY <2>4, <2>7, <2>8
  <2>9. CASE k < l
    <3>1. Last(c, k) + 1 < Start(c, l)
      BY <1>4, <2>1, <2>3, <2>9 DEF Filled, Ranges, Places
    <3>2. f[k + 1] = f[k] + ((Last(c, k) - Start(c, k)) + 1)
      BY <2>3 DEF Places
    <3>3. QED BY <2>4, <2>5, <2>6, <2>7, <3>1, <3>2
  <2>10. CASE l < k
    <3>1. f[l + 1] <= f[k]
      BY <2>3, <2>10 DEF Places
    <3>2. QED BY <2>4, <2>5, <2>6, <3>1
  <2>11. QED BY <2>8, <2>9, <2>10
<1>5. QED BY <1>3, <1>4

-----------------------------------------------------------------------------
(* The specification.                                                      *)

\* The indices are numbers up to Mask.
LEMMA CoveredAreIndices ==
  ASSUME NEW c, WellFormed(c)
  PROVE  Covered(c) \subseteq 0..Mask
<1>1. c \in Masks /\ c.n \in Nat /\ c.n <= N - 1 /\ c.a \in [0..(N - 1) -> 0..Mask] /\ Mask \in Nat
  BY HalfFacts DEF WellFormed, Masks
<1>2. CASE IsEmpty(c)
  BY <1>2 DEF Covered
<1>3. CASE ~IsEmpty(c) /\ ~c.range
  <2>1. ASSUME NEW i \in 0..c.n PROVE c.a[i] \in 0..Mask
    <3>1. i \in 0..(N - 1)
      BY <1>1, HalfFacts
    <3>2. QED BY <1>1, <3>1
  <2>2. QED BY <1>3, <2>1 DEF Covered
<1>4. CASE ~IsEmpty(c) /\ c.range
  <2>1. \A k \in Intervals(c) : Start(c, k) \in Nat /\ Last(c, k) \in Nat /\ Last(c, k) <= Mask
    BY <1>1, <1>4, IntervalsAre DEF WellFormed, IsEmpty, Filled, Ranges
  <2>2. Covered(c) = UNION {Start(c, k)..Last(c, k) : k \in Intervals(c)}
    BY <1>4 DEF Covered
  <2>3. QED BY <1>1, <2>1, <2>2
<1>5. QED BY <1>2, <1>3, <1>4

\* The iterator lists every index once.
LEMMA InvIncreasing == ASSUME WellFormed(m) PROVE Increasing
BY IteratorIncreases DEF Increasing

\* The mask is well formed: set's invariant of CpuMask.
MaskInv == WellFormed(m) /\ ok \in BOOLEAN

LEMMA InitMaskInv == MaskInit => MaskInv
BY EmptyFacts DEF MaskInit, MaskInv, WellFormed

\* What the calls do to the set of a mask.
LEMMA ClearSteps ==
  ASSUME Clear
  PROVE  MaskInv' /\ Elements(m)' = {} /\ ok' = TRUE
<1>1. m' = Empty /\ ok' = TRUE
  BY DEF Clear
<1>2. WellFormed(Empty) /\ Covered(Empty) = {}
  BY EmptyFacts DEF WellFormed, Covered, IsEmpty
<1>3. Elements(Empty) = {}
  BY <1>2, ElementsAreCovered
<1>4. QED BY <1>1, <1>2, <1>3 DEF MaskInv

\* Either the indices come after those that are there, or nothing changes.
Step(new) ==
  /\ MaskInv'
  /\ \/ /\ ok' = TRUE /\ Elements(m)' = Elements(m) \cup new
        /\ \A x \in Elements(m), y \in new : x < y
     \/ ok' = FALSE /\ m' = m

LEMMA AddingSteps ==
  ASSUME MaskInv, NEW r, NEW new, Adds(m, r, new), m' = r.m, ok' = r.ok
  PROVE  Step(new)
<1>1. CASE r.ok
  <2>1. r.ok = TRUE /\ r.m \in Masks /\ Filled(r.m) /\ Covered(r.m) = Covered(m) \cup new
        /\ \A x \in Covered(m), y \in new : x < y
    BY <1>1 DEF Adds
  <2>2. WellFormed(r.m)
    BY <2>1 DEF WellFormed
  <2>3. Elements(r.m) = Covered(r.m) /\ Elements(m) = Covered(m)
    BY <2>2, ElementsAreCovered DEF MaskInv
  <2>4. QED BY <2>1, <2>2, <2>3 DEF Step, MaskInv
<1>2. CASE ~r.ok
  <2>1. r.ok = FALSE /\ r.m = m
    BY <1>2 DEF Adds
  <2>2. QED BY <2>1 DEF Step, MaskInv
<1>3. QED BY <1>1, <1>2

LEMMA AppendIndexSteps ==
  ASSUME MaskInv, NEW v \in Nat, AppendIndex(v)
  PROVE  Step({v})
<1>1. PICK r : r = AppendTo(m, v)
  OBVIOUS
<1>2. m' = r.m /\ ok' = r.ok
  BY <1>1 DEF AppendIndex
<1>3. Adds(m, r, {v})
  BY <1>1, AppendAdds DEF MaskInv
<1>4. QED BY <1>2, <1>3, AddingSteps

LEMMA AppendRangeSteps ==
  ASSUME MaskInv, NEW v \in Nat, NEW w \in Nat, v < w, \A x \in Elements(m) : x + 1 < v,
         AppendRange(v, w)
  PROVE  Step(v..w)
<1>1. PICK r : r = AppendRangeTo(m, v, w)
  OBVIOUS
<1>2. m' = r.m /\ ok' = r.ok
  BY <1>1 DEF AppendRange
<1>3. \A x \in Covered(m) : x + 1 < v
  BY ElementsAreCovered DEF MaskInv
<1>4. Adds(m, r, v..w)
  BY <1>1, <1>3, AppendRangeAdds DEF MaskInv
<1>5. QED BY <1>2, <1>4, AddingSteps

\* Such a step is one of a set that grows at its end.
LEMMA StepRefines ==
  ASSUME MaskInv, NEW v \in Nat, NEW w \in Nat, v <= w, Step(v..w)
  PROVE  Indices!Next
<1>1. CASE ok' = FALSE /\ m' = m
  <2>1. Indices!Refuse
    BY <1>1 DEF Indices!Refuse
  <2>2. QED BY <2>1 DEF Indices!Next
<1>2. CASE /\ ok' = TRUE /\ Elements(m)' = Elements(m) \cup (v..w)
           /\ \A x \in Elements(m), y \in v..w : x < y
  <2>1. Elements(m)' \subseteq 0..Mask
    <3>1. WellFormed(m')
      BY DEF Step, MaskInv
    <3>2. Elements(m') \subseteq 0..Mask
      BY <3>1, ElementsAreCovered, CoveredAreIndices
    <3>3. QED BY <3>2
  <2>2. v \in v..w /\ w \in v..w
    OBVIOUS
  <2>3. v \in 0..Mask /\ w \in 0..Mask /\ w <= Mask
    BY <1>2, <2>1, <2>2, HalfFacts
  <2>4. \A x \in Elements(m) : x < v
    BY <1>2, <2>2
  <2>5. Indices!Add(v, w)
    BY <1>2, <2>3, <2>4 DEF Indices!Add
  <2>6. QED BY <2>3, <2>5 DEF Indices!Next
<1>3. QED BY <1>1, <1>2 DEF Step

LEMMA MaskStep ==
  ASSUME MaskInv, MaskNext
  PROVE  MaskInv' /\ Indices!Next
<1>1. CASE Clear
  <2>1. MaskInv' /\ Elements(m)' = {} /\ ok' = TRUE
    BY <1>1, ClearSteps
  <2>2. Indices!Clear
    BY <2>1 DEF Indices!Clear
  <2>3. QED BY <2>1, <2>2 DEF Indices!Next
<1>2. ASSUME NEW v \in 0..(Mask + 1), AppendIndex(v)
      PROVE  MaskInv' /\ Indices!Next
  <2>1. v \in Nat /\ v <= v /\ v..v = {v}
    BY HalfFacts
  <2>2. Step(v..v)
    BY <1>2, <2>1, AppendIndexSteps
  <2>3. QED BY <2>1, <2>2, StepRefines DEF Step
<1>3. ASSUME NEW v \in 0..(Mask + 1), NEW w \in 0..(Mask + 1), MayAsk(v, w), AppendRange(v, w)
      PROVE  MaskInv' /\ Indices!Next
  <2>1. v \in Nat /\ w \in Nat /\ v < w /\ v <= w /\ \A x \in Elements(m) : x + 1 < v
    BY <1>3, HalfFacts DEF MayAsk
  <2>2. Step(v..w)
    BY <1>3, <2>1, AppendRangeSteps
  <2>3. QED BY <2>1, <2>2, StepRefines DEF Step
<1>4. QED BY <1>1, <1>2, <1>3 DEF MaskNext

\* A mask that a program fills by itself is the set that it asked for, as the
\* variant of the class with a std::set is (append, appendRange, clear).
THEOREM MaskIsIndexSet == MaskSpec => ImplementsIndexSet
<1>1. MaskInit => MaskInv /\ Indices!Init
  <2>1. Elements(Empty) = {}
    <3>1. WellFormed(Empty) /\ Covered(Empty) = {}
      BY EmptyFacts DEF WellFormed, Covered, IsEmpty
    <3>2. QED BY <3>1, ElementsAreCovered
  <2>2. QED BY <2>1, InitMaskInv DEF MaskInit, Indices!Init
<1>2. ASSUME MaskInv, [MaskNext]_maskVars PROVE MaskInv' /\ [Indices!Next]_(Indices!vars)
  <2>1. CASE MaskNext
    BY <1>2, <2>1, MaskStep
  <2>2. CASE UNCHANGED maskVars
    BY <1>2, <2>2 DEF maskVars, MaskInv, Indices!vars
  <2>3. QED BY <1>2, <2>1, <2>2
<1>3. QED BY <1>1, <1>2, PTL DEF MaskSpec, ImplementsIndexSet, Indices!Spec

-----------------------------------------------------------------------------
(* What is refused.                                                        *)

LEMMA AtLeast ==
  ASSUME NEW n \in Nat, NEW S, S \subseteq Int, IsFiniteSet(S), NEW f \in [0..n -> S],
         \A i, j \in 0..n : i < j => f[i] < f[j]
  PROVE  Cardinality(S) \in Nat /\ n + 1 <= Cardinality(S)
<1>1. f \in Injection(0..n, S)
  <2>1. ASSUME NEW i \in 0..n, NEW j \in 0..n, f[i] = f[j] PROVE i = j
    <3>1. f[i] \in Int /\ f[j] \in Int
      OBVIOUS
    <3>2. CASE i < j
      BY <2>1, <3>1, <3>2
    <3>3. CASE j < i
      BY <2>1, <3>1, <3>3
    <3>4. QED BY <3>2, <3>3
  <2>2. QED BY <2>1 DEF Injection, IsInjective
<1>2. Cardinality(0..n) <= Cardinality(S)
  BY <1>1, FS_Injection
<1>3. Cardinality(0..n) = n + 1
  BY FS_Interval
<1>4. QED BY <1>2, <1>3, FS_CardinalityType

\* A mask of intervals that is full, and an interval after them.
LEMMA FullOfIntervals ==
  ASSUME NEW c \in Masks, Filled(c), c.range, c.n >= N - 1,
         NEW v \in 0..Mask, NEW w \in 0..Mask, v <= w, \A k \in Intervals(c) : Last(c, k) + 1 < v
  PROVE  N \div 2 < Fragments(Covered(c) \cup (v..w))
<1> DEFINE S == Covered(c) \cup (v..w)
           T == {x \in S : x - 1 \notin S}
<1>1. PICK h \in Nat : /\ c.n = 2 * h + 1 /\ h < N \div 2 /\ Intervals(c) = 0..h
                       /\ \A k \in 0..h : Last(c, k) <= Last(c, h)
  BY LastInterval
<1>2. h + 1 = N \div 2
  BY <1>1, HalfFacts
<1>3. Covered(c) = UNION {Start(c, k)..Last(c, k) : k \in 0..h}
  BY <1>1, FilledIsNotEmpty DEF Covered
<1>4. /\ \A k \in 0..h : /\ Start(c, k) \in Nat /\ Last(c, k) \in Nat
                         /\ Start(c, k) <= Last(c, k) /\ Last(c, k) + 1 < v
      /\ \A j, k \in 0..h : j < k => Last(c, j) + 1 < Start(c, k)
  BY <1>1, IntervalsAre DEF Filled, Ranges
<1>5. IsFiniteSet(T) /\ T \subseteq Nat
  <2>1. S \subseteq 0..Mask
    BY CoveredAreIndices, HalfFacts DEF WellFormed
  <2>2. IsFiniteSet(0..Mask) /\ T \in SUBSET (0..Mask)
    BY <2>1, FS_Interval, HalfFacts
  <2> HIDE DEF T
  <2>3. IsFiniteSet(T)
    BY <2>2, FS_Subset, Zenon
  <2>4. QED BY <2>2, <2>3, HalfFacts
<1>6. ASSUME NEW k \in 0..h PROVE Start(c, k) \in T
  <2>1. Start(c, k) \in S
    BY <1>3, <1>4
  <2>2. ASSUME Start(c, k) - 1 \in S PROVE FALSE
    <3>1. CASE Start(c, k) - 1 \in v..w
      BY <1>4, <3>1
    <3>2. CASE Start(c, k) - 1 \in Covered(c)
      <4>1. PICK j \in 0..h : Start(c, k) - 1 \in Start(c, j)..Last(c, j)
        BY <1>3, <3>2
      <4>2. CASE j < k
        BY <1>4, <4>1, <4>2
      <4>3. CASE k < j
        BY <1>4, <4>1, <4>3
      <4>4. CASE j = k
        BY <1>4, <4>1, <4>4
      <4>5. QED BY <4>2, <4>3, <4>4
    <3>3. QED BY <2>2, <3>1, <3>2
  <2>3. QED BY <2>1, <2>2
<1>7. v \in T
  <2>1. v \in S
    OBVIOUS
  <2>2. ASSUME v - 1 \in S PROVE FALSE
    <3>1. v - 1 \in Covered(c)
      BY <2>2
    <3>2. PICK j \in 0..h : v - 1 \in Start(c, j)..Last(c, j)
      BY <1>3, <3>1
    <3>3. QED BY <1>4, <3>2
  <2>3. QED BY <2>1, <2>2
<1>8. h + 2 <= Cardinality(T) /\ Cardinality(T) \in Nat
  <2> DEFINE f == [k \in 0..(h + 1) |-> IF k = h + 1 THEN v ELSE Start(c, k)]
  <2> HIDE DEF T
  <2>1. f \in [0..(h + 1) -> T]
    <3>1. ASSUME NEW k \in 0..(h + 1) PROVE f[k] \in T
      <4>1. k = h + 1 \/ k \in 0..h
        OBVIOUS
      <4>2. QED BY <1>6, <1>7, <4>1
    <3>2. QED BY <3>1
  <2>2. ASSUME NEW j \in 0..(h + 1), NEW k \in 0..(h + 1), j < k PROVE f[j] < f[k]
    <3>1. j \in 0..h /\ (k = h + 1 \/ k \in 0..h)
      BY <2>2
    <3>2. f[j] = Start(c, j)
      BY <3>1
    <3>3. CASE k = h + 1
      BY <1>4, <3>1, <3>2, <3>3
    <3>4. CASE k \in 0..h
      <4>1. f[k] = Start(c, k)
        BY <3>4
      <4>2. Last(c, j) + 1 < Start(c, k)
        BY <1>4, <2>2, <3>1, <3>4
      <4>3. QED BY <1>4, <3>1, <3>2, <3>4, <4>1, <4>2
    <3>5. QED BY <3>1, <3>3, <3>4
  <2> HIDE DEF f
  <2>3. h + 1 \in Nat /\ h + 1 + 1 = h + 2 /\ T \subseteq Int
    BY <1>5
  <2>4. QED BY <1>5, <2>1, <2>2, <2>3, AtLeast
<1>9. QED BY <1>2, <1>8, HalfFacts DEF Fragments

\* A mask of single values that is full, and a value after them.
LEMMA FullOfValues ==
  ASSUME NEW c \in Masks, Filled(c), ~c.range, c.n >= N - 1,
         NEW v \in 0..Mask, \A x \in Covered(c) : x < v
  PROVE  N < Cardinality(Covered(c) \cup {v})
<1> DEFINE S == Covered(c) \cup {v}
<1>1. PICK a : a = c.a
  OBVIOUS
<1>2. c.n = N - 1 /\ N \in Nat /\ N >= 2 /\ a \in [0..(N - 1) -> 0..Mask]
  BY <1>1, HalfFacts DEF Masks
<1>3. Covered(c) = {a[i] : i \in 0..(N - 1)}
  BY <1>1, <1>2, FilledIsNotEmpty DEF Covered
<1>4. \A i, j \in 0..(N - 1) : i < j => a[i] < a[j]
  BY <1>1, <1>2 DEF Filled, Values
<1>5. IsFiniteSet(S) /\ S \subseteq Int
  <2>1. S \subseteq 0..Mask
    BY CoveredAreIndices, HalfFacts DEF WellFormed
  <2>2. IsFiniteSet(0..Mask) /\ S \in SUBSET (0..Mask)
    BY <2>1, FS_Interval, HalfFacts
  <2> HIDE DEF S
  <2>3. IsFiniteSet(S)
    BY <2>2, FS_Subset, Zenon
  <2>4. QED BY <2>2, <2>3, HalfFacts
<1>6. N + 1 <= Cardinality(S) /\ Cardinality(S) \in Nat
  <2> DEFINE f == [k \in 0..N |-> IF k = N THEN v ELSE a[k]]
  <2>1. \A k \in 0..(N - 1) : a[k] \in Covered(c)
    BY <1>3
  <2>2. v \in S /\ Covered(c) \subseteq S
    OBVIOUS
  <2> HIDE DEF S
  <2>3. f \in [0..N -> S]
    <3>1. ASSUME NEW k \in 0..N PROVE f[k] \in S
      <4>1. k = N \/ k \in 0..(N - 1)
        BY <1>2
      <4>2. QED BY <2>1, <2>2, <4>1
    <3>2. QED BY <3>1
  <2>4. ASSUME NEW j \in 0..N, NEW k \in 0..N, j < k PROVE f[j] < f[k]
    <3>1. j \in 0..(N - 1) /\ (k = N \/ k \in 0..(N - 1))
      BY <1>2, <2>4
    <3>2. f[j] = a[j]
      BY <1>2, <3>1
    <3>3. CASE k = N
      BY <2>1, <3>1, <3>2, <3>3
    <3>4. CASE k \in 0..(N - 1)
      <4>1. f[k] = a[k]
        BY <1>2, <3>4
      <4>2. QED BY <1>4, <2>4, <3>1, <3>2, <3>4, <4>1
    <3>5. QED BY <3>1, <3>3, <3>4
  <2> HIDE DEF f
  <2>5. QED BY <1>2, <1>5, <2>3, <2>4, AtLeast
<1>7. QED BY <1>2, <1>6

\* An index after those of the mask is refused by a mask that is full.
LEMMA RefusedIndex ==
  ASSUME WellFormed(m), NEW v \in 0..Mask, \A x \in Elements(m) : x < v, ~AppendTo(m, v).ok
  PROVE  /\ ~IsEmpty(m)
         /\ IF m.range THEN N \div 2 < Fragments(Elements(m) \cup {v})
            ELSE N < Cardinality(Elements(m) \cup {v})
<1>0. m \in Masks /\ m.n \in Nat /\ m.n <= N - 1 /\ Elements(m) = Covered(m) /\ m.range \in BOOLEAN
  BY ElementsAreCovered, HalfFacts DEF WellFormed, Masks
<1>1. ~(v > Mask)
  BY HalfFacts
<1>2. ~IsEmpty(m)
  BY <1>1 DEF AppendTo, Set, Done
<1>3. Filled(m)
  BY <1>2 DEF WellFormed, IsEmpty
<1>4. CASE m.range
  <2>1. PICK h \in Nat : /\ m.n = 2 * h + 1 /\ h < N \div 2 /\ Intervals(m) = 0..h
                         /\ \A k \in 0..h : Last(m, k) <= Last(m, h)
    BY <1>0, <1>3, <1>4, LastInterval
  <2>2. PICK prev : prev = m.a[m.n - 1] + m.a[m.n]
    OBVIOUS
  <2>3. AppendTo(m, v) = AppendInterval(m, v)
    BY <1>1, <1>2, <1>4 DEF AppendTo
  <2>4. prev >= v \/ (prev + 1 # v /\ m.n >= N - 1)
    BY <2>2, <2>3 DEF AppendInterval, Set, Done
  <2>5. m.n - 1 = 2 * h /\ prev = Last(m, h)
    BY <2>1, <2>2 DEF Last
  <2>6. \A k \in 0..h : Start(m, k) \in Nat /\ Last(m, k) \in Nat /\ Start(m, k) <= Last(m, k)
    BY <1>0, <2>1, IntervalsAre
  <2>7. \A k \in 0..h : Last(m, k) \in Covered(m)
    <3>1. Covered(m) = UNION {Start(m, k)..Last(m, k) : k \in 0..h}
      BY <1>2, <1>4, <2>1 DEF Covered
    <3>2. TAKE k \in 0..h
    <3>3. Last(m, k) \in Start(m, k)..Last(m, k)
      BY <2>6
    <3>4. QED BY <3>1, <3>3
  <2>8. h \in 0..h /\ Last(m, h) \in Nat /\ Last(m, h) < v
    BY <1>0, <2>6, <2>7
  <2>9. m.n >= N - 1 /\ Last(m, h) + 1 < v
    BY <2>4, <2>5, <2>8
  <2>10. \A k \in Intervals(m) : Last(m, k) + 1 < v
    BY <2>1, <2>6, <2>9
  <2>11. v <= v /\ v..v = {v}
    OBVIOUS
  <2>12. N \div 2 < Fragments(Covered(m) \cup (v..v))
    BY <1>0, <1>3, <1>4, <2>9, <2>10, <2>11, FullOfIntervals
  <2>13. QED BY <1>0, <1>2, <1>4, <2>11, <2>12
<1>5. CASE ~m.range
  <2>1. PICK prev : prev = m.a[m.n]
    OBVIOUS
  <2>2. AppendTo(m, v) = AppendValue(m, v)
    BY <1>1, <1>2, <1>5 DEF AppendTo
  <2>3. v <= prev \/ m.n >= N - 1
    BY <2>1, <2>2 DEF AppendValue, Set, Done
  <2>4. prev \in Covered(m)
    <3>1. m.n \in 0..m.n
      BY <1>0
    <3>2. Covered(m) = {m.a[i] : i \in 0..m.n}
      BY <1>2, <1>5 DEF Covered
    <3>3. QED BY <2>1, <3>1, <3>2
  <2>5. prev \in Nat /\ prev < v
    BY <1>0, <2>4, CoveredAreIndices, HalfFacts
  <2>6. m.n >= N - 1
    BY <2>3, <2>5
  <2>7. N < Cardinality(Covered(m) \cup {v})
    BY <1>0, <1>3, <1>5, <2>6, FullOfValues
  <2>8. QED BY <1>0, <1>2, <1>5, <2>7
<1>6. QED BY <1>0, <1>4, <1>5

\* So is an interval.
LEMMA RefusedRange ==
  ASSUME WellFormed(m), NEW v \in 0..Mask, NEW w \in 0..Mask, v <= w,
         \A x \in Elements(m) : x + 1 < v, ~AppendRangeTo(m, v, w).ok
  PROVE  /\ ~IsEmpty(m)
         /\ m.range => N \div 2 < Fragments(Elements(m) \cup (v..w))
<1>1. m \in Masks /\ m.n \in Nat /\ m.n <= N - 1 /\ Elements(m) = Covered(m) /\ m.range \in BOOLEAN
  BY ElementsAreCovered, HalfFacts DEF WellFormed, Masks
<1>2. v <= w /\ w <= Mask
  BY HalfFacts
<1>3. ~(IsEmpty(m) \/ (m.range /\ m.n < N - 1))
  BY <1>2 DEF AppendRangeTo, Set, Done
<1>4. ASSUME m.range PROVE N \div 2 < Fragments(Elements(m) \cup (v..w))
  <2>1. ~IsEmpty(m) /\ m.n >= N - 1
    BY <1>1, <1>3, <1>4, HalfFacts
  <2>2. Filled(m)
    BY <2>1 DEF WellFormed, IsEmpty
  <2>3. ASSUME NEW k \in Intervals(m) PROVE Last(m, k) + 1 < v
    <3>1. Last(m, k) \in Start(m, k)..Last(m, k)
      BY <1>1, IntervalsAre
    <3>2. Last(m, k) \in Covered(m)
      BY <1>4, <2>1, <3>1 DEF Covered
    <3>3. QED BY <1>1, <3>2
  <2>4. QED BY <1>1, <1>2, <1>4, <2>1, <2>2, <2>3, FullOfIntervals
<1>5. QED BY <1>3, <1>4

\* Only a mask of intervals begins with two adjacent indices.
LEMMA RangeIsAdjacent ==
  ASSUME WellFormed(m), ~IsEmpty(m)
  PROVE  /\ Elements(m) # {}
         /\ m.range => \E x \in Elements(m) : x + 1 \in Elements(m)
         /\ ~m.range => \A x \in Elements(m) :
              x + 1 \in Elements(m) => \E y \in Elements(m) : y < x
<1>1. m \in Masks /\ Filled(m) /\ Elements(m) = Covered(m) /\ Covered(m) \subseteq Nat
  BY ElementsAreCovered, CoveredAreIndices, HalfFacts DEF WellFormed, IsEmpty
<1>2. CASE m.range
  <2>1. PICK h \in Nat : m.n = 2 * h + 1 /\ Intervals(m) = 0..h
    BY <1>1, <1>2, LastInterval
  <2>2. Start(m, 0) = m.a[0] /\ Last(m, 0) = m.a[0] + m.a[1]
    BY DEF Start, Last
  <2>3. m.a[0] \in Nat /\ m.a[1] \in Nat /\ 0 < m.a[1]
    BY <1>1, <1>2, HalfFacts DEF Masks, Filled, Ranges
  <2>4. m.a[0] \in Start(m, 0)..Last(m, 0) /\ m.a[0] + 1 \in Start(m, 0)..Last(m, 0)
    BY <2>2, <2>3
  <2>5. m.a[0] \in Covered(m) /\ m.a[0] + 1 \in Covered(m)
    BY <1>2, <2>1, <2>4 DEF Covered
  <2>6. QED BY <1>1, <1>2, <2>5
<1>3. CASE ~m.range
  <2>1. PICK a, n : a = m.a /\ n = m.n
    OBVIOUS
  <2>2. Covered(m) = {a[i] : i \in 0..n} /\ n \in Nat
    BY <1>1, <1>3, <2>1, HalfFacts DEF Covered, Masks
  <2>3. \A i \in 0..n : a[i] \in Nat
    BY <1>1, <2>2
  <2>4. /\ \A i, j \in 0..n : i < j => a[i] < a[j]
        /\ n > 0 => a[0] + 1 < a[1]
    BY <1>1, <1>3, <2>1 DEF Filled, Values
  <2>5. a[0] \in Covered(m)
    BY <2>2
  <2>6. ASSUME NEW x \in Covered(m), x + 1 \in Covered(m) PROVE a[0] < x
    <3>1. PICK i \in 0..n, j \in 0..n : x = a[i] /\ x + 1 = a[j]
      BY <2>2, <2>6
    <3>2. i # 0
      <4>1. SUFFICES ASSUME i = 0 PROVE FALSE
        OBVIOUS
      <4>2. j # 0 /\ j > 0 /\ n > 0 /\ 1 \in 0..n /\ 0 \in 0..n
        BY <2>2, <2>3, <3>1, <4>1
      <4>3. a[0] + 1 < a[1] /\ (1 < j => a[1] < a[j]) /\ (j = 1 \/ 1 < j)
        BY <2>2, <2>4, <4>2
      <4>4. QED BY <2>3, <3>1, <4>1, <4>2, <4>3
    <3>3. 0 < i /\ 0 \in 0..n
      BY <2>2, <3>2
    <3>4. QED BY <2>4, <3>1, <3>3
  <2>7. QED BY <1>1, <1>3, <2>5, <2>6
<1>4. QED BY <1>1, <1>2, <1>3 DEF Masks

\* The layout follows from the set.
LEMMA LayoutOfSet ==
  ASSUME WellFormed(m), ~IsEmpty(m)
  PROVE  m.range <=> AsIntervals(Elements(m))
<1>1. m \in Masks /\ Filled(m) /\ Elements(m) = Covered(m) /\ Covered(m) \subseteq Nat
      /\ m.range \in BOOLEAN
  BY ElementsAreCovered, CoveredAreIndices, HalfFacts DEF WellFormed, IsEmpty, Masks
<1>2. ASSUME m.range PROVE AsIntervals(Elements(m))
  <2>1. Covered(m) = UNION {Start(m, k)..Last(m, k) : k \in Intervals(m)}
    BY <1>2 DEF Covered
  <2>2. PICK h \in Nat : Intervals(m) = 0..h
    BY <1>1, <1>2, LastInterval
  <2>3. 0 \in Intervals(m) /\ \A k \in Intervals(m) : k # 0 => 0 < k
    BY <2>2
  <2>4. \A k \in Intervals(m) : Start(m, k) \in Nat /\ Last(m, k) \in Nat /\ Start(m, k) <= Last(m, k)
    BY <1>1, IntervalsAre
  <2>5. Start(m, 0) < Last(m, 0)
    BY <1>1, <1>2, HalfFacts DEF Start, Last, Masks, Filled, Ranges
  <2>6. Start(m, 0) \in Covered(m) /\ Start(m, 0) + 1 \in Covered(m)
    <3>1. Start(m, 0) \in Start(m, 0)..Last(m, 0) /\ Start(m, 0) + 1 \in Start(m, 0)..Last(m, 0)
      BY <2>3, <2>4, <2>5
    <3>2. QED BY <2>1, <2>3, <3>1
  <2>7. ASSUME NEW y \in Covered(m) PROVE Start(m, 0) <= y
    <3>1. PICK k \in Intervals(m) : y \in Start(m, k)..Last(m, k)
      BY <2>1, <2>7
    <3>2. Start(m, 0) <= Start(m, k)
      <4>1. 0 < k => Last(m, 0) + 1 < Start(m, k)
        BY <1>1, <1>2, <2>3 DEF Filled, Ranges
      <4>2. QED BY <2>3, <2>4, <4>1
    <3>3. QED BY <2>3, <2>4, <3>1, <3>2
  <2>8. QED BY <1>1, <2>6, <2>7 DEF AsIntervals
<1>3. ASSUME ~m.range PROVE ~AsIntervals(Elements(m))
  <2>1. \A x \in Elements(m) : x + 1 \in Elements(m) => \E y \in Elements(m) : y < x
    BY <1>3, RangeIsAdjacent
  <2>2. QED BY <1>1, <2>1 DEF AsIntervals
<1>4. QED BY <1>1, <1>2, <1>3

LEMMA InvRefusedOnlyWhenFull == ASSUME WellFormed(m) PROVE RefusedOnlyWhenFull
<1>1. N \div 2 \in Nat /\ N \in Nat
  BY HalfFacts
<1>2. ASSUME NEW v \in 0..Mask, \A x \in Elements(m) : x < v, ~AppendTo(m, v).ok
      PROVE  IF AsIntervals(Elements(m)) THEN N \div 2 < Fragments(Elements(m) \cup {v})
             ELSE N < Cardinality(Elements(m) \cup {v})
  BY <1>2, RefusedIndex, LayoutOfSet
<1>3. ASSUME NEW v \in 0..Mask, NEW w \in 0..Mask, MayAsk(v, w), ~AppendRangeTo(m, v, w).ok
      PROVE  N \div 2 < Fragments(Elements(m) \cup (v..w))
  <2>1. v <= w /\ (IsEmpty(m) \/ m.range) /\ \A x \in Elements(m) : x + 1 < v
    BY <1>3, HalfFacts DEF MayAsk
  <2>2. QED BY <1>3, <2>1, RefusedRange
<1>4. QED BY <1>1, <1>2, <1>3 DEF RefusedOnlyWhenFull

-----------------------------------------------------------------------------
(* getStr and setStr.                                                      *)

\* setStr follows any sequence of masks of which every item makes the next.
Follows(q, c, items) ==
  /\ Len(items) \in Nat /\ q[0] = c
  /\ \A k \in 1..Len(items) : AddItem(q[k - 1], items[k]) = Done(q[k])

LEMMA SetStrFollows ==
  ASSUME NEW c, NEW items, NEW q, Follows(q, c, items)
  PROVE  SetStr(c, items) = Done(q[Len(items)])
<1> DEFINE F(r) == [k \in 0..Len(items) |->
                      IF k = 0 THEN Done(c)
                      ELSE IF r[k - 1].ok THEN AddItem(r[k - 1].m, items[k])
                      ELSE r[k - 1]]
<1>1. PICK L \in Nat : L = Len(items)
  BY DEF Follows
<1>2. \A x : Done(x).ok = TRUE /\ Done(x).m = x
  BY DEF Done
<1>3. ASSUME NEW r, r = F(r), NEW k \in 0..L PROVE r[k] = Done(q[k])
  <2> DEFINE T == {j \in 0..L : r[j] # Done(q[j])}
  <2>1. ASSUME T # {} PROVE FALSE
    <3>1. PICK j \in T : \A y \in T : j <= y
      <4>1. T \subseteq Nat
        OBVIOUS
      <4> HIDE DEF T
      <4>2. QED BY <2>1, <4>1, Least
    <3>2. j # 0
      <4>1. r[0] = Done(c)
        BY <1>1, <1>3
      <4>2. QED BY <4>1 DEF Follows
    <3>3. j \in 1..L /\ j - 1 \in 0..L /\ ~(j <= j - 1)
      BY <3>2
    <3>4. r[j - 1] = Done(q[j - 1])
      BY <3>1, <3>3
    <3>5. r[j] = IF r[j - 1].ok THEN AddItem(r[j - 1].m, items[j]) ELSE r[j - 1]
      BY <1>1, <1>3, <3>2
    <3>6. r[j] = AddItem(q[j - 1], items[j])
      BY <1>2, <3>4, <3>5, Zenon
    <3>7. r[j] = Done(q[j])
      BY <1>1, <3>3, <3>6 DEF Follows
    <3>8. QED BY <3>7
  <2>2. QED BY <2>1
<1>4. \E r : r = F(r)
  <2> DEFINE p == [k \in 0..L |-> Done(q[k])]
  <2>1. ASSUME NEW k \in 0..L PROVE p[k] = F(p)[k]
    <3>1. CASE k = 0
      BY <1>1, <3>1 DEF Follows
    <3>2. CASE k # 0
      <4>1. k \in 1..L /\ k - 1 \in 0..L
        BY <3>2
      <4>2. p[k - 1] = Done(q[k - 1]) /\ p[k] = Done(q[k])
        BY <4>1
      <4>3. F(p)[k] = IF p[k - 1].ok THEN AddItem(p[k - 1].m, items[k]) ELSE p[k - 1]
        BY <1>1, <3>2
      <4> HIDE DEF p, F
      <4>4. F(p)[k] = AddItem(q[k - 1], items[k])
        BY <1>2, <4>2, <4>3, Zenon
      <4>5. AddItem(q[k - 1], items[k]) = Done(q[k])
        BY <1>1, <4>1 DEF Follows
      <4>6. QED BY <4>2, <4>4, <4>5
    <3>3. QED BY <3>1, <3>2
  <2>2. p = [k \in 0..L |-> p[k]] /\ F(p) = [k \in 0..L |-> F(p)[k]]
    BY <1>1
  <2> HIDE DEF p, F
  <2>3. p = F(p)
    BY <2>1, <2>2
  <2>4. QED BY <2>3
<1>5. PICK r : r = CHOOSE x : x = F(x)
  OBVIOUS
<1>6. SetStr(c, items) = r[L]
  BY <1>1, <1>5 DEF SetStr
<1>7. r = F(r)
  <2> HIDE DEF F
  <2>1. QED BY <1>4, <1>5
<1>8. L \in 0..L
  OBVIOUS
<1>9. r[L] = Done(q[L])
  <2> HIDE DEF F
  <2>1. QED BY <1>3, <1>7, <1>8
<1>10. QED BY <1>1, <1>6, <1>9

LEMMA SameMask ==
  ASSUME NEW c \in Masks, NEW d \in Masks, c.n = d.n, c.range = d.range,
         \A i \in 0..(N - 1) : c.a[i] = d.a[i]
  PROVE  c = d
<1>1. c.a \in [0..(N - 1) -> 0..Mask] /\ d.a \in [0..(N - 1) -> 0..Mask]
  BY DEF Masks
<1>2. c.a = d.a
  <2>1. c.a = [i \in 0..(N - 1) |-> c.a[i]] /\ d.a = [i \in 0..(N - 1) |-> d.a[i]]
    BY <1>1
  <2>2. QED BY <2>1, Zenon
<1>3. c = [a |-> c.a, n |-> c.n, range |-> c.range] /\ d = [a |-> d.a, n |-> d.n, range |-> d.range]
  BY DEF Masks
<1>4. QED BY <1>2, <1>3

LEMMA SetMakes ==
  ASSUME NEW c \in Masks, NEW d \in Masks, NEW e, \A i \in DOMAIN e : e[i] \in 0..Mask,
         \A i \in 0..(N - 1) : d.a[i] = IF i \in DOMAIN e THEN e[i] ELSE c.a[i]
  PROVE  Set(c, e, d.n, d.range) = Done(d)
<1>0. d.n \in 0..(N - 1) /\ d.range \in BOOLEAN
  BY DEF Masks
<1>1. PICK r : r = Set(c, e, d.n, d.range)
  OBVIOUS
<1>2. AreSet(r, c, e, d.n, d.range)
  BY <1>0, <1>1, SetElements, Zenon
<1>3. r.m = d
  BY <1>2, SameMask DEF AreSet
<1>4. r = [m |-> r.m, ok |-> r.ok]
  BY <1>1 DEF Set, Done
<1>5. QED BY <1>1, <1>2, <1>3, <1>4 DEF AreSet, Done

\* The first elements of a mask.
Prefix(c, n) == [a |-> [i \in 0..(N - 1) |-> IF i <= n THEN c.a[i] ELSE 0],
                 n |-> n, range |-> c.range]

LEMMA PrefixFacts ==
  ASSUME NEW c \in Masks, Filled(c), NEW n \in 0..c.n, c.range => n > 0
  PROVE  /\ Prefix(c, n) \in Masks /\ Prefix(c, n).n = n /\ Prefix(c, n).range = c.range
         /\ \A i \in 0..(N - 1) : Prefix(c, n).a[i] = IF i <= n THEN c.a[i] ELSE 0
         /\ ~IsEmpty(Prefix(c, n))
         /\ n = c.n => Prefix(c, n) = c
<1> DEFINE p == Prefix(c, n)
<1>1. c.n \in Nat /\ c.n <= N - 1 /\ n \in 0..(N - 1) /\ N \in Nat /\ N >= 2 /\ Mask \in Nat
      /\ c.a \in [0..(N - 1) -> 0..Mask] /\ c.range \in BOOLEAN
  BY HalfFacts DEF Masks
<1>2. p.a = [i \in 0..(N - 1) |-> IF i <= n THEN c.a[i] ELSE 0] /\ p.n = n /\ p.range = c.range
  BY DEF Prefix
<1>3. p.a \in [0..(N - 1) -> 0..Mask]
  BY <1>1, <1>2
<1>4. p \in Masks
  BY <1>1, <1>3 DEF Prefix, Masks
<1>5. ~IsEmpty(p)
  <2>1. CASE n = 0
    <3>1. p.a[1] = 0
      BY <1>1, <1>2, <2>1
    <3>2. QED BY <3>1, EmptyFacts DEF IsEmpty
  <2>2. CASE n # 0
    BY <1>2, <2>2, EmptyFacts DEF IsEmpty
  <2>3. QED BY <2>1, <2>2
<1>6. n = c.n => p = c
  <2> SUFFICES ASSUME n = c.n PROVE p = c
    OBVIOUS
  <2>1. ASSUME NEW i \in 0..(N - 1) PROVE p.a[i] = c.a[i]
    <3>1. ~(i <= n) => c.a[i] = 0
      BY <1>1 DEF Filled
    <3>2. QED BY <1>2, <3>1
  <2>2. p.n = c.n /\ p.range = c.range
    BY <1>2
  <2> HIDE DEF p
  <2>3. QED BY <1>4, <2>1, <2>2, SameMask
<1>7. QED BY <1>2, <1>4, <1>5, <1>6

LEMMA ValuesAreRead ==
  ASSUME NEW c \in Masks, Filled(c), ~c.range
  PROVE  SetStr(Empty, GetStr(c)) = Done(c)
<1>1. PICK a, n : a = c.a /\ n = c.n
  OBVIOUS
<1>2. /\ n \in Nat /\ n <= N - 1 /\ a \in [0..(N - 1) -> 0..Mask]
      /\ N \in Nat /\ N >= 2 /\ Mask \in Nat /\ c.range = FALSE
  BY <1>1, HalfFacts DEF Masks
<1>3. PICK items : items = GetStr(c)
  OBVIOUS
<1>4. items = [k \in 1..(n + 1) |-> <<a[k - 1]>>] /\ Len(items) = n + 1
  <2>1. items = [k \in 1..(n + 1) |-> <<a[k - 1]>>]
    BY <1>1, <1>3, FilledIsNotEmpty DEF GetStr
  <2>2. QED BY <1>2, <2>1
<1>5. PICK q : q = [k \in 0..(n + 1) |-> IF k = 0 THEN Empty ELSE Prefix(c, k - 1)]
  OBVIOUS
<1>6. ASSUME NEW k \in 1..(n + 1) PROVE AddItem(q[k - 1], items[k]) = Done(q[k])
  <2>1. PICK v, d, e : v = a[k - 1] /\ d = q[k] /\ e = q[k - 1]
    OBVIOUS
  <2>2. k - 1 \in 0..n /\ k - 1 \in 0..(N - 1) /\ k - 1 \in 0..c.n /\ v \in 0..Mask /\ ~(v > Mask)
    BY <1>1, <1>2, <2>1, SMTT(20)
  <2>3. d = Prefix(c, k - 1)
    BY <1>2, <1>5, <2>1
  <2>4. /\ d \in Masks /\ d.n = k - 1 /\ d.range = FALSE
        /\ \A i \in 0..(N - 1) : d.a[i] = IF i <= k - 1 THEN a[i] ELSE 0
    BY <1>1, <1>2, <2>2, <2>3, PrefixFacts
  <2>5. AddItem(e, items[k]) = AppendTo(e, v)
    <3>1. items[k] = <<v>> /\ Len(<<v>>) = 1
      BY <1>4, <2>1
    <3>2. QED BY <3>1 DEF AddItem
  <2>6. CASE k = 1
    <3>1. e = Empty /\ IsEmpty(e)
      BY <1>2, <1>5, <2>1, <2>6 DEF IsEmpty
    <3>2. PICK f : f = [i \in DOMAIN e.a |-> IF i = 0 THEN v ELSE 0]
      OBVIOUS
    <3>3. AppendTo(e, v) = Set(e, f, 0, FALSE)
      BY <2>2, <3>1, <3>2 DEF AppendTo
    <3>4. DOMAIN f = 0..(N - 1)
      BY <3>1, <3>2 DEF Empty
    <3>5. \A i \in 0..(N - 1) : f[i] = d.a[i] /\ f[i] \in 0..Mask
      BY <1>2, <2>1, <2>2, <2>4, <2>6, <3>2, <3>4
    <3>6. e \in Masks /\ 0 \in 0..(N - 1) /\ FALSE \in BOOLEAN /\ d.n = 0 /\ d.range = FALSE
      BY <1>2, <2>4, <2>6, <3>1, EmptyFacts
    <3>7. /\ \A i \in DOMAIN f : f[i] \in 0..Mask
          /\ \A i \in 0..(N - 1) : d.a[i] = IF i \in DOMAIN f THEN f[i] ELSE e.a[i]
      BY <3>4, <3>5
    <3>8. Set(e, f, d.n, d.range) = Done(d)
      BY <2>4, <3>6, <3>7, SetMakes, Zenon
    <3>9. QED BY <2>1, <2>5, <3>3, <3>6, <3>8
  <2>7. CASE k > 1
    <3>1. k - 2 \in 0..n /\ k - 2 \in 0..c.n /\ k - 2 \in 0..(N - 1) /\ k - 1 = (k - 2) + 1
      BY <1>1, <1>2, <2>2, <2>7, SMTT(20)
    <3>2. e = Prefix(c, k - 2)
      <4>1. k - 1 # 0 /\ k - 1 \in 0..(n + 1) /\ (k - 1) - 1 = k - 2
        BY <1>2, <2>7
      <4>2. QED BY <1>5, <2>1, <4>1
    <3>3. /\ e \in Masks /\ e.n = k - 2 /\ e.range = FALSE /\ ~IsEmpty(e)
          /\ \A i \in 0..(N - 1) : e.a[i] = IF i <= k - 2 THEN a[i] ELSE 0
      BY <1>1, <1>2, <3>1, <3>2, PrefixFacts
    <3>4. AppendTo(e, v) = AppendValue(e, v)
      BY <2>2, <3>3 DEF AppendTo
    <3>5. PICK prev : prev = e.a[e.n]
      OBVIOUS
    <3>6. prev = a[k - 2] /\ prev \in Nat
      BY <1>2, <3>1, <3>3, <3>5
    <3>7. /\ ~(v <= prev) /\ ~(e.n = 0 /\ prev + 1 = v) /\ ~(e.n >= N - 1)
      <4>1. prev < v
        BY <1>1, <2>1, <2>2, <3>1, <3>6 DEF Filled, Values
      <4>2. e.n = 0 => prev + 1 < v
        <5> SUFFICES ASSUME e.n = 0 PROVE prev + 1 < v
          OBVIOUS
        <5>1. k = 2 /\ n > 0
          BY <1>2, <2>2, <3>3
        <5>2. a[0] + 1 < a[1]
          BY <1>1, <5>1 DEF Filled, Values
        <5>3. QED BY <2>1, <3>6, <5>1, <5>2
      <4>3. QED BY <1>2, <2>2, <3>1, <3>3, <3>6, <4>1, <4>2
    <3>8. AppendValue(e, v) = Set(e, Element(e.n + 1, v), e.n + 1, FALSE)
      BY <3>5, <3>7 DEF AppendValue
    <3>9. e.n + 1 = k - 1
      BY <3>1, <3>3
    <3>10. DOMAIN Element(k - 1, v) = {k - 1} /\ Element(k - 1, v)[k - 1] = v
      BY DEF Element
    <3>11. \A i \in 0..(N - 1) :
             d.a[i] = IF i \in DOMAIN Element(k - 1, v) THEN Element(k - 1, v)[i] ELSE e.a[i]
      BY <2>1, <2>2, <2>4, <3>1, <3>3, <3>10
    <3>12. \A i \in DOMAIN Element(k - 1, v) : Element(k - 1, v)[i] \in 0..Mask
      BY <2>2, <3>10
    <3>13. Set(e, Element(k - 1, v), d.n, d.range) = Done(d)
      BY <2>4, <3>3, <3>11, <3>12, SetMakes, Zenon
    <3>14. QED BY <2>1, <2>4, <2>5, <3>4, <3>8, <3>9, <3>13
  <2>8. QED BY <2>6, <2>7
<1>7. Follows(q, Empty, items)
  <2>1. q[0] = Empty
    BY <1>2, <1>5
  <2>2. QED BY <1>2, <1>4, <1>6, <2>1 DEF Follows
<1>8. q[n + 1] = c
  <2>1. n \in 0..c.n /\ n = c.n
    BY <1>1, <1>2
  <2>2. Prefix(c, n) = c
    BY <2>1, PrefixFacts
  <2>3. q[n + 1] = Prefix(c, n)
    BY <1>2, <1>5
  <2>4. QED BY <2>2, <2>3
<1>9. SetStr(Empty, items) = Done(q[Len(items)])
  BY <1>7, SetStrFollows, Zenon
<1>10. Len(items) = n + 1
  BY <1>4
<1>11. QED BY <1>3, <1>8, <1>9, <1>10

LEMMA IntervalsAreRead ==
  ASSUME NEW c \in Masks, Filled(c), c.range
  PROVE  SetStr(Empty, GetStr(c)) = Done(c)
<1>1. PICK h \in Nat : c.n = 2 * h + 1 /\ h < N \div 2 /\ Intervals(c) = 0..h
  BY LastInterval
<1>2. PICK a : a = c.a
  OBVIOUS
<1>3. /\ N \in Nat /\ N = 2 * (N \div 2) /\ N \div 2 \in Nat /\ N >= 2 /\ Mask \in Nat
      /\ a \in [0..(N - 1) -> 0..Mask] /\ c.range = TRUE /\ c.n <= N - 1
  BY <1>2, HalfFacts DEF Masks
<1>4. PICK items : items = GetStr(c)
  OBVIOUS
<1>5. /\ Len(items) = h + 1
      /\ \A k \in 1..(h + 1) :
           items[k] = IF a[2 * k - 1] > 0 THEN <<a[2 * k - 2], a[2 * k - 2] + a[2 * k - 1]>>
                      ELSE <<a[2 * k - 2]>>
  <2>1. (c.n + 1) \div 2 = h + 1
    BY <1>1
  <2>2. items = [k \in 1..(h + 1) |->
                   IF a[2 * k - 1] > 0 THEN <<a[2 * k - 2], a[2 * k - 2] + a[2 * k - 1]>>
                   ELSE <<a[2 * k - 2]>>]
    BY <1>2, <1>3, <1>4, <2>1, FilledIsNotEmpty DEF GetStr
  <2>3. QED BY <2>2
<1>6. PICK q : q = [k \in 0..(h + 1) |-> IF k = 0 THEN Empty ELSE Prefix(c, 2 * k - 1)]
  OBVIOUS
<1>7. ASSUME NEW k \in 1..(h + 1) PROVE AddItem(q[k - 1], items[k]) = Done(q[k])
  <2>1. PICK v, len, d, e : v = a[2 * k - 2] /\ len = a[2 * k - 1] /\ d = q[k] /\ e = q[k - 1]
    OBVIOUS
  <2>2. /\ 2 * k - 2 \in 0..(N - 1) /\ 2 * k - 1 \in 1..(N - 1) /\ 2 * k - 1 \in 0..c.n /\ 2 * k - 1 > 0
        /\ 2 * k - 1 \in 0..(N - 1) /\ 2 * k - 2 = 2 * (k - 1) /\ 2 * k - 1 = 2 * (k - 1) + 1
        /\ k - 1 \in 0..h
    BY <1>1, <1>3
  <2>3. v \in 0..Mask /\ len \in 0..Mask /\ ~(v > Mask) /\ v + len \in 0..Mask /\ v <= v + len
        /\ Start(c, k - 1) = v /\ Last(c, k - 1) = v + len
    <3>1. v \in 0..Mask /\ len \in 0..Mask /\ Start(c, k - 1) = v /\ Last(c, k - 1) = v + len
      BY <1>2, <1>3, <2>1, <2>2 DEF Start, Last
    <3>2. Last(c, k - 1) <= Mask
      BY <1>1, <2>2 DEF Filled, Ranges
    <3>3. QED BY <1>3, <3>1, <3>2
  <2>4. d = Prefix(c, 2 * k - 1)
    BY <1>6, <2>1
  <2>5. /\ d \in Masks /\ d.n = 2 * k - 1 /\ d.range = TRUE
        /\ \A i \in 0..(N - 1) : d.a[i] = IF i <= 2 * k - 1 THEN a[i] ELSE 0
    <3>1. /\ d \in Masks /\ d.n = 2 * k - 1 /\ d.range = c.range
          /\ \A i \in 0..(N - 1) : d.a[i] = IF i <= 2 * k - 1 THEN c.a[i] ELSE 0
      BY <2>2, <2>4, PrefixFacts
    <3>2. QED BY <1>2, <1>3, <3>1
  <2>6. AddItem(e, items[k]) = IF len > 0 THEN AppendRangeTo(e, v, v + len) ELSE AppendTo(e, v)
    <3>1. items[k] = IF len > 0 THEN <<v, v + len>> ELSE <<v>>
      BY <1>5, <2>1
    <3>2. CASE len > 0
      <4>1. items[k] = <<v, v + len>> /\ Len(<<v, v + len>>) = 2
        BY <3>1, <3>2
      <4>2. QED BY <3>2, <4>1 DEF AddItem
    <3>3. CASE ~(len > 0)
      <4>1. items[k] = <<v>> /\ Len(<<v>>) = 1
        BY <3>1, <3>3
      <4>2. QED BY <3>3, <4>1 DEF AddItem
    <3>4. QED BY <3>2, <3>3
  <2>0. k = 1 \/ k > 1
    BY <1>1
  <2>7. k = 1 => e = Empty /\ IsEmpty(e) /\ len > 0
    <3>1. 0 < a[1]
      BY <1>2 DEF Filled, Ranges
    <3>2. QED BY <1>6, <2>1, <3>1 DEF IsEmpty
  <2>8. ASSUME k > 1
        PROVE  /\ e \in Masks /\ e.n = 2 * k - 3 /\ e.range = TRUE /\ ~IsEmpty(e)
               /\ \A i \in 0..(N - 1) : e.a[i] = IF i <= 2 * k - 3 THEN a[i] ELSE 0
    <3>1. 2 * k - 3 \in 0..c.n /\ 2 * k - 3 > 0
      BY <1>1, <2>8
    <3>2. k - 1 # 0 /\ k - 1 \in 0..(h + 1) /\ 2 * (k - 1) - 1 = 2 * k - 3
      BY <1>1, <2>8
    <3>3. e = Prefix(c, 2 * k - 3)
      BY <1>6, <2>1, <3>2
    <3>4. QED BY <1>2, <1>3, <3>1, <3>3, PrefixFacts
  <2>9. e \in Masks
    BY <2>0, <2>7, <2>8, EmptyFacts
  <2>10. ASSUME NEW i \in 0..(N - 1)
         PROVE  d.a[i] = IF i = 2 * k - 2 THEN v ELSE IF i = 2 * k - 1 THEN len ELSE e.a[i]
    <3>1. CASE k = 1
      <4>1. e.a[i] = IF i = 1 THEN 1 ELSE 0
        <5>1. Empty.a = [j \in 0..(N - 1) |-> IF j = 1 THEN 1 ELSE 0]
          BY DEF Empty
        <5>2. QED BY <2>7, <3>1, <5>1
      <4>2. QED BY <2>1, <2>5, <3>1, <4>1
    <3>2. CASE k > 1
      BY <2>1, <2>5, <2>8, <3>2
    <3>3. QED BY <2>0, <3>1, <3>2
  <2>11. CASE len > 0
    <3>1. PICK n : n = IF e.n = 0 THEN 1 ELSE e.n + 2
      OBVIOUS
    <3>2. n = 2 * k - 1 /\ n - 1 = 2 * k - 2
      <4>1. CASE k = 1
        BY <2>7, <3>1, <4>1, EmptyFacts
      <4>2. CASE k > 1
        <5>1. e.n = 2 * k - 3 /\ e.n # 0
          BY <2>8, <4>2
        <5>2. QED BY <3>1, <4>2, <5>1
      <4>3. QED BY <2>0, <4>1, <4>2
    <3>3. IsEmpty(e) \/ (e.range /\ e.n < N - 1)
      <4>1. CASE k > 1
        <5>1. e.n < N - 1
          <6>1. e.n = 2 * k - 3
            BY <2>8, <4>1
          <6>2. 2 * k - 1 \in 0..(N - 1) /\ N \in Nat /\ k \in Nat
            BY <1>3, <2>2
          <6>3. QED BY <6>1, <6>2
        <5>2. e.range
          BY <2>8, <4>1
        <5>3. QED BY <5>1, <5>2
      <4>2. QED BY <2>0, <2>7, <4>1
    <3>4. PICK f : f = [i \in {n - 1, n} |-> IF i = n THEN (v + len) - v ELSE v]
      OBVIOUS
    <3>5. v <= v + len /\ v + len <= Mask
      BY <1>3, <2>3
    <3>6. AppendRangeTo(e, v, v + len) = Set(e, f, n, TRUE)
      BY <3>1, <3>3, <3>4, <3>5 DEF AppendRangeTo
    <3>7. DOMAIN f = {2 * k - 2, 2 * k - 1} /\ f[2 * k - 2] = v /\ f[2 * k - 1] = len
      BY <1>3, <2>3, <3>2, <3>4
    <3>8. /\ \A i \in DOMAIN f : f[i] \in 0..Mask
          /\ \A i \in 0..(N - 1) : d.a[i] = IF i \in DOMAIN f THEN f[i] ELSE e.a[i]
      BY <2>3, <2>10, <3>7
    <3>9. n \in 0..(N - 1) /\ d.n = n
      BY <2>2, <2>5, <3>2
    <3>10. Set(e, f, d.n, d.range) = Done(d)
      BY <2>5, <2>9, <3>8, SetMakes, Zenon
    <3>11. QED BY <2>1, <2>5, <2>6, <2>11, <3>6, <3>9, <3>10
  <2>12. CASE ~(len > 0)
    <3>1. k > 1 /\ len = 0
      BY <2>3, <2>7, <2>12
    <3>2. /\ e.n = 2 * k - 3 /\ e.range = TRUE /\ ~IsEmpty(e)
          /\ \A i \in 0..(N - 1) : e.a[i] = IF i <= 2 * k - 3 THEN a[i] ELSE 0
      BY <2>8, <3>1
    <3>3. AppendTo(e, v) = AppendInterval(e, v)
      BY <2>3, <3>2 DEF AppendTo
    <3>4. PICK l, prev : l = e.a[e.n] /\ prev = e.a[e.n - 1] + l
      OBVIOUS
    <3>5. prev = Last(c, k - 2) /\ k - 2 \in 0..h
      <4>1. /\ e.n = 2 * (k - 2) + 1 /\ e.n - 1 = 2 * (k - 2) /\ k - 2 \in 0..h
            /\ e.n \in 0..(N - 1) /\ e.n - 1 \in 0..(N - 1)
            /\ e.n <= 2 * k - 3 /\ e.n - 1 <= 2 * k - 3
        BY <1>1, <1>3, <3>1, <3>2
      <4>2. e.a[e.n] = a[2 * (k - 2) + 1] /\ e.a[e.n - 1] = a[2 * (k - 2)]
        BY <3>2, <4>1
      <4>3. QED BY <1>2, <3>4, <4>1, <4>2 DEF Last
    <3>6. prev \in Nat /\ prev + 1 < v
      <4>1. k - 2 \in Intervals(c) /\ k - 1 \in Intervals(c) /\ k - 2 < k - 1
        BY <1>1, <2>2, <3>5
      <4>2. Last(c, k - 2) + 1 < Start(c, k - 1) /\ Last(c, k - 2) \in Nat
        BY <4>1, IntervalsAre DEF Filled, Ranges
      <4>3. QED BY <2>3, <3>5, <4>2
    <3>7. ~(prev >= v) /\ ~(prev + 1 = v) /\ ~(e.n >= N - 1)
      BY <1>3, <2>2, <2>3, <3>2, <3>6
    <3>8. AppendInterval(e, v) = Set(e, Element(e.n + 1, v), e.n + 2, TRUE)
      BY <3>4, <3>7 DEF AppendInterval
    <3>9. PICK f : f = Element(2 * k - 2, v)
      OBVIOUS
    <3>10. DOMAIN f = {2 * k - 2} /\ f[2 * k - 2] = v
      BY <3>9 DEF Element
    <3>11. e.n + 1 = 2 * k - 2 /\ e.n + 2 = 2 * k - 1
      BY <3>2
    <3>12. e.a[2 * k - 1] = len
      <4>1. ~(2 * k - 1 <= 2 * k - 3)
        OBVIOUS
      <4>2. QED BY <2>2, <3>1, <3>2, <4>1
    <3>13. /\ \A i \in DOMAIN f : f[i] \in 0..Mask
           /\ \A i \in 0..(N - 1) : d.a[i] = IF i \in DOMAIN f THEN f[i] ELSE e.a[i]
      BY <2>3, <2>10, <3>10, <3>12
    <3>14. Set(e, f, d.n, d.range) = Done(d)
      BY <2>5, <2>9, <3>13, SetMakes, Zenon
    <3>15. QED BY <2>1, <2>5, <2>6, <2>12, <3>3, <3>8, <3>9, <3>11, <3>14
  <2>13. QED BY <2>11, <2>12
<1>8. Follows(q, Empty, items)
  <2>1. q[0] = Empty
    BY <1>6
  <2>2. QED BY <1>5, <1>7, <2>1 DEF Follows
<1>9. q[h + 1] = c
  <2>1. 2 * (h + 1) - 1 = c.n /\ c.n \in 0..c.n /\ c.n > 0
    BY <1>1
  <2>2. Prefix(c, c.n) = c
    BY <2>1, PrefixFacts
  <2>3. q[h + 1] = Prefix(c, 2 * (h + 1) - 1)
    BY <1>6
  <2>4. QED BY <2>1, <2>2, <2>3
<1>10. QED BY <1>4, <1>5, <1>8, <1>9, SetStrFollows

LEMMA InvRoundTrip == ASSUME WellFormed(m) PROVE RoundTrip
<1>1. CASE IsEmpty(m)
  <2>1. GetStr(m) = <<>> /\ m = Empty
    BY <1>1 DEF GetStr, IsEmpty
  <2>2. Follows([k \in {0} |-> Empty], Empty, <<>>)
    BY DEF Follows
  <2>3. SetStr(Empty, <<>>) = Done(Empty)
    <3>1. PICK q : q = [k \in {0} |-> Empty]
      OBVIOUS
    <3>2. SetStr(Empty, <<>>) = Done(q[Len(<<>>)])
      BY <2>2, <3>1, SetStrFollows
    <3>3. QED BY <3>1, <3>2
  <2>4. QED BY <2>1, <2>3 DEF RoundTrip
<1>2. CASE ~IsEmpty(m)
  <2>1. m \in Masks /\ Filled(m)
    BY <1>2 DEF WellFormed, IsEmpty
  <2>2. QED BY <2>1, ValuesAreRead, IntervalsAreRead DEF RoundTrip
<1>3. QED BY <1>1, <1>2

=============================================================================

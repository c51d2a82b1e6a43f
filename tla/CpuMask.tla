------------------------------ MODULE CpuMask ------------------------------
(***************************************************************************)
(* class CpuMask of xbyak_util.h (XBYAK_CPUMASK_COMPACT == 1): a set of    *)
(* CPU indices in one 64-bit word, N elements a_[0] .. a_[n_] of BitN      *)
(* bits. They are the indices themselves or, when range_ is set, the       *)
(* starts of intervals and their lengths minus one in turn. setStr adds    *)
(* the items of its list one by one, so that a list is a sequence of the   *)
(* actions AppendIndex and AppendRange. Each element stays an integer; the *)
(* packing into the word is left out.                                      *)
(***************************************************************************)
EXTENDS Integers, Sequences, FiniteSets

CONSTANTS
  N,       \* XBYAK_CPUMASK_N, even: intervals take two elements
  BitN     \* XBYAK_CPUMASK_BITN

Mask == 2^BitN - 1

ASSUME CpuMaskAssumption ==
  /\ N \in 2..8 /\ N % 2 = 0     \* n_ has 3 bits
  /\ BitN \in Nat /\ Mask \in Nat \ {0}

VARIABLES
  m,   \* the mask: [a |-> a_, n |-> n_, range |-> range_]
  ok   \* did the last call succeed?

maskVars == <<m, ok>>

-----------------------------------------------------------------------------
(* The calls. Definitions marked "Bug:" are no part of the model (see      *)
(* module Linker).                                                         *)

\* clear() and empty(): a_ = 1 << bitN is an array no set has.
Empty == [a |-> [i \in 0..(N - 1) |-> IF i = 1 THEN 1 ELSE 0],
          n |-> 0, range |-> FALSE]
IsEmpty(c) == c = Empty

Done(c) == [m |-> c, ok |-> TRUE]
Refused(c) == [m |-> c, ok |-> FALSE]   \* returns false, or throws

\* a_ with some elements set, up to the n-th in use.
Set(c, elements, n, range) ==
  Done([a |-> [i \in DOMAIN c.a |->
                 IF i \in DOMAIN elements THEN elements[i] ELSE c.a[i]],
        n |-> n, range |-> range])
Element(i, v) == [j \in {i} |-> v]

\* append to a mask of single values.
AppendValue(c, v) ==
  LET prev == c.a[c.n] IN
  IF v <= prev THEN Refused(c)
  ELSE IF c.n = 0 /\ prev + 1 = v THEN Set(c, Element(1, 1), 1, TRUE)
  ELSE IF c.n >= N - 1 THEN Refused(c)
  ELSE Set(c, Element(c.n + 1, v), c.n + 1, FALSE)

\* Bug: the start of the last interval is taken for its end.
AppendIntervalStart(c, v) ==
  LET len  == c.a[c.n]
      prev == c.a[c.n - 1]
  IN
  IF prev >= v THEN Refused(c)
  ELSE IF prev + 1 = v THEN Set(c, Element(c.n, len + 1), c.n, TRUE)
  ELSE IF c.n >= N - 1 THEN Refused(c)
  ELSE Set(c, Element(c.n + 1, v), c.n + 2, TRUE)

\* Bug: an adjacent value starts a new interval.
AppendIntervalNew(c, v) ==
  LET prev == c.a[c.n - 1] + c.a[c.n] IN
  IF prev >= v THEN Refused(c)
  ELSE IF c.n >= N - 1 THEN Refused(c)
  ELSE Set(c, Element(c.n + 1, v), c.n + 2, TRUE)

\* append to a mask of intervals.
AppendInterval(c, v) ==
  LET len  == c.a[c.n]
      prev == c.a[c.n - 1] + len
  IN
  IF prev >= v THEN Refused(c)
  ELSE IF prev + 1 = v THEN Set(c, Element(c.n, len + 1), c.n, TRUE)
  ELSE IF c.n >= N - 1 THEN Refused(c)
  ELSE Set(c, Element(c.n + 1, v), c.n + 2, TRUE)

AppendTo(c, v) ==
  IF v > Mask THEN Refused(c)
  ELSE IF IsEmpty(c) THEN Set(c, [i \in DOMAIN c.a |-> IF i = 0 THEN v ELSE 0], 0, FALSE)
  ELSE IF c.range THEN AppendInterval(c, v)
  ELSE AppendValue(c, v)

\* Bug: the length of the interval is stored.
AppendRangeLength(c, v, w) ==
  LET n == IF c.n = 0 THEN 1 ELSE c.n + 2 IN
  IF (IsEmpty(c) \/ (c.range /\ c.n < N - 1)) /\ v <= w /\ w <= Mask
  THEN Set(c, [i \in {n - 1, n} |-> IF i = n THEN w - v + 1 ELSE v], n, TRUE)
  ELSE Refused(c)

AppendRangeTo(c, v, w) ==
  LET n == IF c.n = 0 THEN 1 ELSE c.n + 2 IN
  IF (IsEmpty(c) \/ (c.range /\ c.n < N - 1)) /\ v <= w /\ w <= Mask
  THEN Set(c, [i \in {n - 1, n} |-> IF i = n THEN w - v ELSE v], n, TRUE)
  ELSE Refused(c)

\* size(), get() and the iterator that uses them. Intervals are numbered from
\* 0; Before(c)[k] indices come before the k-th.
Intervals(c) == {k \in 0..(N \div 2 - 1) : 2 * k < c.n}
Length(c, k) == c.a[2 * k + 1] + 1
Before(c) ==
  LET sum[k \in 0..(N \div 2)] == IF k = 0 THEN 0 ELSE sum[k - 1] + Length(c, k - 1)
  IN sum

Size(c) ==
  IF IsEmpty(c) THEN 0
  ELSE IF ~c.range THEN c.n + 1
  ELSE Before(c)[(c.n + 1) \div 2]

Get(c, idx) ==
  IF ~c.range THEN c.a[idx]
  ELSE LET k == CHOOSE k \in Intervals(c) : Before(c)[k] <= idx /\ idx < Before(c)[k + 1]
       IN c.a[2 * k] + (idx - Before(c)[k])

\* Bug: the stored length is taken for the length.
GetStrLength(c) ==
  IF IsEmpty(c) THEN <<>>
  ELSE IF ~c.range THEN [k \in 1..(c.n + 1) |-> <<c.a[k - 1]>>]
  ELSE [k \in 1..((c.n + 1) \div 2) |->
         LET v == c.a[2 * k - 2]  len == c.a[2 * k - 1]
         IN IF len > 1 THEN <<v, v + len - 1>> ELSE <<v>>]

\* getStr() as a list of items <<v>> and <<v, w>>, and setStr() of one.
GetStr(c) ==
  IF IsEmpty(c) THEN <<>>
  ELSE IF ~c.range THEN [k \in 1..(c.n + 1) |-> <<c.a[k - 1]>>]
  ELSE [k \in 1..((c.n + 1) \div 2) |->
         LET v == c.a[2 * k - 2]  len == c.a[2 * k - 1]
         IN IF len > 0 THEN <<v, v + len>> ELSE <<v>>]

AddItem(c, item) ==
  IF Len(item) = 2 THEN AppendRangeTo(c, item[1], item[2]) ELSE AppendTo(c, item[1])
SetStr(c, items) ==
  LET read[k \in 0..Len(items)] ==
        IF k = 0 THEN Done(c)
        ELSE IF read[k - 1].ok THEN AddItem(read[k - 1].m, items[k])
        ELSE read[k - 1]
  IN read[Len(items)]

-----------------------------------------------------------------------------
Elements(c) == {Get(c, i) : i \in 0..(Size(c) - 1)}

\* What a program adds to a mask of its own: intervals in increasing order,
\* not adjacent and of two indices at least, and none after single values,
\* where the mask would refuse it.
MayAsk(v, w) ==
  /\ v < w
  /\ \A x \in Elements(m) : x + 1 < v
  /\ IsEmpty(m) \/ m.range

Clear == m' = Empty /\ ok' = TRUE
AppendIndex(v) == LET r == AppendTo(m, v) IN m' = r.m /\ ok' = r.ok
AppendRange(v, w) == LET r == AppendRangeTo(m, v, w) IN m' = r.m /\ ok' = r.ok

MaskInit == m = Empty /\ ok = TRUE

\* One more than Mask stands for all that is too large.
MaskNext ==
  \/ Clear
  \/ \E v \in 0..(Mask + 1) : AppendIndex(v)
  \/ \E v, w \in 0..(Mask + 1) : MayAsk(v, w) /\ AppendRange(v, w)

MaskSpec == MaskInit /\ [][MaskNext]_maskVars

-----------------------------------------------------------------------------
(* Properties.                                                             *)

\* The iterator lists every index once, in increasing order (size, get).
Increasing ==
  \A i, j \in 0..(Size(m) - 1) : i < j => Get(m, i) < Get(m, j)

\* Every call does to the indices what the std::set variant does, or refuses
\* and leaves them alone.
Indices == INSTANCE IndexSet WITH set <- Elements(m)
ImplementsIndexSet == Indices!Spec

\* A mask holds intervals if its two smallest indices are adjacent, and single
\* values otherwise, whatever is added. An index after those of the mask, or an
\* interval that a program may ask for, is refused only when this layout cannot
\* hold the set: more than N/2 intervals, or more than N values (append,
\* appendRange). The other layout may have room: N = 4 refuses 6 after 1, 3, 4, 5.
Fragments(S) == Cardinality({x \in S : x - 1 \notin S})
AsIntervals(S) == \E x \in S : x + 1 \in S /\ \A y \in S : x <= y
RefusedOnlyWhenFull ==
  /\ \A v \in 0..Mask :
       (\A x \in Elements(m) : x < v) /\ ~AppendTo(m, v).ok
         => IF AsIntervals(Elements(m)) THEN Fragments(Elements(m) \cup {v}) > N \div 2
            ELSE Cardinality(Elements(m) \cup {v}) > N
  /\ \A v, w \in 0..Mask :
       MayAsk(v, w) /\ ~AppendRangeTo(m, v, w).ok
         => Fragments(Elements(m) \cup (v..w)) > N \div 2

\* setStr reads what getStr writes, and the result is equal as a word: masks
\* are compared and hashed by to_u64().
RoundTrip == SetStr(Empty, GetStr(m)) = Done(m)
=============================================================================

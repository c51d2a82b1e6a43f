-------------------------- MODULE StackFrameProofs --------------------------
(***************************************************************************)
(* Proofs about StackFrame, for every request: the registers handed out    *)
(* are different, arguments arrive in them, the caller finds its registers *)
(* and its stack as they were, and no instruction faults.                  *)
(***************************************************************************)
EXTENDS StackFrame, FiniteSetTheorems, SequenceTheorems, WellFoundedInduction, TLAPS

-----------------------------------------------------------------------------
(* What holds of 0, and of k + 1 if of k, holds up to n: otherwise there   *)
(* would be a least number of which it does not.                           *)

LEMMA LessThanIsWellFounded == IsWellFoundedOn({ss \in Nat \X Nat : ss[1] < ss[2]}, Nat)
BY NatLessThanWellFounded DEF OpToRel

LEMMA UpTo ==
  ASSUME NEW n \in Nat, NEW T, 0 \in T, \A k \in 0..(n - 1) : k \in T => k + 1 \in T
  PROVE  \A k \in 0..n : k \in T
<1> DEFINE R == {ss \in Nat \X Nat : ss[1] < ss[2]}
           Bad == {k \in 0..n : k \notin T}
<1>1. ASSUME Bad # {} PROVE FALSE
  <2>1. Bad \subseteq Nat /\ IsWellFoundedOn(R, Nat)
    BY LessThanIsWellFounded
  <2>2. PICK b \in Bad : \A y \in Bad : ~ (<<y, b>> \in R)
    <3> HIDE DEF Bad, R
    <3>1. QED BY <1>1, <2>1, WFMin
  <2>3. b # 0 /\ b \in 0..n
    OBVIOUS
  <2>4. b - 1 \in 0..(n - 1) /\ (b - 1) + 1 = b /\ <<b - 1, b>> \in R
    BY <2>3
  <2>5. b - 1 \in T
    BY <2>2, <2>4
  <2>6. QED BY <2>4, <2>5
<1>2. QED BY <1>1

-----------------------------------------------------------------------------
(* Running code.                                                           *)

\* f[k] is the machine after k instructions.
Ran(f, c, code, n) == f[0] = c /\ \A k \in 0..(n - 1) : f[k + 1] = Exec(f[k], code[k + 1])

LEMMA RunSteps ==
  ASSUME NEW c, NEW code, Len(code) \in Nat
  PROVE  \E f : Ran(f, c, code, Len(code)) /\ Run(c, code) = f[Len(code)]
<1>1. PICK n \in Nat : n = Len(code)
  OBVIOUS
<1> DEFINE F(f, j) == [k \in 0..j |-> IF k = 0 THEN c ELSE Exec(f[k - 1], code[k])]
           T == {j \in 0..n : \E f : f = F(f, j)}
<1>2. 0 \in T
  <2> DEFINE g == [k \in 0..0 |-> c]
  <2>1. g = F(g, 0)
    OBVIOUS
  <2>2. \E f : f = F(f, 0)
    <3> HIDE DEF F, g
    <3>1. QED BY <2>1
  <2>3. QED BY <2>2
<1>3. ASSUME NEW j \in 0..(n - 1), j \in T PROVE j + 1 \in T
  <2>1. PICK f : f = F(f, j)
    BY <1>3
  <2>2. PICK x : x = Exec(f[j], code[j + 1])
    OBVIOUS
  <2> DEFINE g == [k \in 0..(j + 1) |-> IF k = j + 1 THEN x ELSE f[k]]
  <2>3. ASSUME NEW k \in 0..(j + 1)
        PROVE  g[k] = IF k = 0 THEN c ELSE Exec(g[k - 1], code[k])
    <3>1. CASE k = 0
      <4>1. g[0] = f[0] /\ f[0] = c
        BY <2>1
      <4>2. QED BY <3>1, <4>1
    <3>2. CASE k = j + 1
      <4>1. j \in 0..(j + 1) /\ j # j + 1 /\ k - 1 = j /\ k # 0
        BY <3>2
      <4>2. g[j] = f[j] /\ g[k] = x
        BY <3>2, <4>1
      <4>3. QED BY <2>2, <3>2, <4>1, <4>2
    <3>3. CASE k # 0 /\ k # j + 1
      <4>1. k \in 0..j /\ k - 1 \in 0..(j + 1) /\ k - 1 # j + 1
        BY <3>3
      <4>2. g[k] = f[k] /\ g[k - 1] = f[k - 1]
        BY <3>3, <4>1
      <4>3. f[k] = Exec(f[k - 1], code[k])
        BY <2>1, <3>3, <4>1
      <4>4. QED BY <3>3, <4>2, <4>3
    <3>4. QED BY <3>1, <3>2, <3>3
  <2>4. g = [k \in 0..(j + 1) |-> g[k]]
    OBVIOUS
  <2>5. g = F(g, j + 1)
    <3> HIDE DEF g
    <3>1. QED BY <2>3, <2>4
  <2>6. j + 1 \in 0..n
    OBVIOUS
  <2>7. QED BY <2>5, <2>6
<1>4. \E f : f = F(f, n)
  <2> HIDE DEF F
  <2>1. \A k \in 0..n : k \in T
    <3> HIDE DEF T
    <3>1. QED BY <1>2, <1>3, UpTo
  <2>2. QED BY <2>1
<1>5. PICK g : g = CHOOSE f : f = F(f, n)
  OBVIOUS
<1>6. g = F(g, n)
  <2> HIDE DEF F
  <2>1. QED BY <1>4, <1>5
<1>7. Run(c, code) = g[n]
  BY <1>1, <1>5 DEF Run
<1>8. g[0] = c
  BY <1>6
<1>9. ASSUME NEW k \in 0..(n - 1) PROVE g[k + 1] = Exec(g[k], code[k + 1])
  <2>1. k + 1 \in 0..n /\ k + 1 # 0 /\ (k + 1) - 1 = k
    OBVIOUS
  <2>2. QED BY <1>6, <2>1
<1>10. QED BY <1>1, <1>7, <1>8, <1>9 DEF Ran

IsCode(s) == \E S : s \in Seq(S)

LEMMA ConcatFacts ==
  ASSUME NEW s, NEW t, IsCode(s), IsCode(t)
  PROVE  /\ Len(s) \in Nat /\ Len(t) \in Nat
         /\ IsCode(s \o t) /\ Len(s \o t) = Len(s) + Len(t)
         /\ \A k \in 1..Len(s) : (s \o t)[k] = s[k]
         /\ \A k \in 1..Len(t) : (s \o t)[Len(s) + k] = t[k]
<1>1. PICK S : s \in Seq(S)
  BY DEF IsCode
<1>2. PICK U : t \in Seq(U)
  BY DEF IsCode
<1>3. s \in Seq(S \cup U) /\ t \in Seq(S \cup U)
  BY <1>1, <1>2
<1>4. s \o t \in Seq(S \cup U)
  BY <1>3
<1>5. QED BY <1>3, <1>4 DEF IsCode

LEMMA RunConcat ==
  ASSUME NEW c, NEW s, NEW t, IsCode(s), IsCode(t)
  PROVE  Run(c, s \o t) = Run(Run(c, s), t)
<1>1. PICK m1, n1, u : m1 = Len(s) /\ n1 = Len(t) /\ u = s \o t
  OBVIOUS
<1>2. /\ m1 \in Nat /\ n1 \in Nat /\ Len(u) = m1 + n1
      /\ \A k \in 1..m1 : u[k] = s[k]
      /\ \A k \in 1..n1 : u[m1 + k] = t[k]
  BY <1>1, ConcatFacts
<1>3. PICK f : Ran(f, c, u, m1 + n1) /\ Run(c, u) = f[m1 + n1]
  <2>1. Len(u) \in Nat /\ Len(u) = m1 + n1
    BY <1>2
  <2>2. QED BY <2>1, RunSteps
<1>4. PICK g : Ran(g, c, s, m1) /\ Run(c, s) = g[m1]
  BY <1>1, <1>2, RunSteps
<1>5. PICK h : Ran(h, Run(c, s), t, n1) /\ Run(Run(c, s), t) = h[n1]
  BY <1>1, <1>2, RunSteps
<1>6. f[m1] = g[m1]
  <2> DEFINE T == {k \in 0..m1 : f[k] = g[k]}
  <2>1. 0 \in T
    BY <1>2, <1>3, <1>4 DEF Ran
  <2>2. ASSUME NEW k \in 0..(m1 - 1), k \in T PROVE k + 1 \in T
    <3>1. k \in 0..((m1 + n1) - 1) /\ k + 1 \in 1..m1 /\ k + 1 \in 0..m1
      BY <1>2
    <3>2. f[k + 1] = Exec(f[k], s[k + 1])
      BY <1>2, <1>3, <3>1 DEF Ran
    <3>3. g[k + 1] = Exec(g[k], s[k + 1])
      BY <1>4 DEF Ran
    <3>4. QED BY <2>2, <3>1, <3>2, <3>3
  <2>3. \A k \in 0..m1 : k \in T
    <3> HIDE DEF T
    <3>1. QED BY <1>2, <2>1, <2>2, UpTo
  <2>4. QED BY <1>2, <2>3
<1>7. f[m1 + n1] = h[n1]
  <2> DEFINE T == {k \in 0..n1 : f[m1 + k] = h[k]}
  <2>1. 0 \in T
    <3>1. m1 + 0 = m1 /\ 0 \in 0..n1
      BY <1>2
    <3>2. h[0] = g[m1]
      BY <1>4, <1>5 DEF Ran
    <3>3. QED BY <1>6, <3>1, <3>2
  <2>2. ASSUME NEW k \in 0..(n1 - 1), k \in T PROVE k + 1 \in T
    <3>1. /\ m1 + k \in 0..((m1 + n1) - 1) /\ k + 1 \in 1..n1 /\ k + 1 \in 0..n1
          /\ (m1 + k) + 1 = m1 + (k + 1)
      BY <1>2
    <3>2. f[(m1 + k) + 1] = Exec(f[m1 + k], u[(m1 + k) + 1])
      <4>1. \A x \in 0..((m1 + n1) - 1) : f[x + 1] = Exec(f[x], u[x + 1])
        BY <1>3 DEF Ran
      <4>2. QED BY <3>1, <4>1, Zenon
    <3>3. u[m1 + (k + 1)] = t[k + 1]
      BY <1>2, <3>1
    <3>4. h[k + 1] = Exec(h[k], t[k + 1])
      BY <1>5 DEF Ran
    <3>5. f[m1 + k] = h[k]
      BY <2>2
    <3>6. f[m1 + (k + 1)] = Exec(h[k], t[k + 1])
      BY <3>1, <3>2, <3>3, <3>5
    <3>7. QED BY <3>1, <3>4, <3>6
  <2>3. \A k \in 0..n1 : k \in T
    <3> HIDE DEF T
    <3>1. QED BY <1>2, <2>1, <2>2, UpTo
  <2>4. QED BY <1>2, <2>3
<1>8. QED BY <1>1, <1>3, <1>5, <1>7

LEMMA RunOne ==
  ASSUME NEW c, NEW i
  PROVE  Run(c, <<i>>) = Exec(c, i) /\ IsCode(<<i>>)
<1>1. Len(<<i>>) = 1 /\ <<i>>[1] = i /\ <<i>> \in Seq({i})
  OBVIOUS
<1>2. PICK f : Ran(f, c, <<i>>, 1) /\ Run(c, <<i>>) = f[1]
  BY <1>1, RunSteps
<1>3. f[0] = c /\ f[0 + 1] = Exec(f[0], <<i>>[0 + 1])
  BY <1>2 DEF Ran
<1>4. Run(c, <<i>>) = Exec(c, i)
  BY <1>1, <1>2, <1>3
<1>5. QED BY <1>1, <1>4 DEF IsCode

-----------------------------------------------------------------------------
(* Registers(seq): which member of seq each of them is.                    *)

Names == {"rcx", "rdx", "rsi", "rdi", "rbx", "rbp", "r8", "r9", "r10", "r11", "r12", "r13",
          "r14", "r15", "none"}

Skipped(seq, j) == {i \in 1..j : seq[i] = "none"}

LEMMA SkippedFacts ==
  ASSUME NEW seq, NEW j \in Nat
  PROVE  /\ IsFiniteSet(Skipped(seq, j)) /\ Cardinality(Skipped(seq, j)) \in Nat
         /\ Cardinality(Skipped(seq, 0)) = 0
         /\ Cardinality(Skipped(seq, j + 1)) =
              Cardinality(Skipped(seq, j)) + (IF seq[j + 1] = "none" THEN 1 ELSE 0)
<1>1. PICK S : S = Skipped(seq, j)
  OBVIOUS
<1>2. IsFiniteSet(S) /\ Cardinality(S) \in Nat
  <2>1. IsFiniteSet(1..j) /\ S \in SUBSET (1..j)
    BY <1>1, FS_Interval DEF Skipped
  <2>2. QED BY <2>1, FS_Subset, FS_CardinalityType
<1>3. Skipped(seq, 0) = {}
  BY DEF Skipped
<1>4. Skipped(seq, j + 1) = (IF seq[j + 1] = "none" THEN S \cup {j + 1} ELSE S) /\ j + 1 \notin S
  <2>1. 1..(j + 1) = (1..j) \cup {j + 1} /\ j + 1 \notin 1..j
    OBVIOUS
  <2>2. QED BY <1>1, <2>1 DEF Skipped
<1>5. \A x : x \notin S => Cardinality(S \cup {x}) = Cardinality(S) + 1
  BY <1>2, FS_AddElement
<1>6. j + 1 \notin S => Cardinality(S \cup {j + 1}) = Cardinality(S) + 1
  BY <1>5
<1>7. Cardinality(Skipped(seq, j + 1)) = Cardinality(S) + (IF seq[j + 1] = "none" THEN 1 ELSE 0)
  <2>1. CASE seq[j + 1] = "none"
    BY <1>4, <1>6, <2>1
  <2>2. CASE seq[j + 1] # "none"
    BY <1>2, <1>4, <2>2
  <2>3. QED BY <2>1, <2>2
<1>8. Cardinality(Skipped(seq, 0)) = 0
  BY <1>3, FS_EmptySet
<1>9. QED BY <1>1, <1>2, <1>7, <1>8

\* p[k] is the place of the k-th of regs in the first j of seq.
Placed(p, regs, seq, j) ==
  /\ regs \in Seq(Names) /\ Len(regs) + Cardinality(Skipped(seq, j)) = j
  /\ p \in [1..Len(regs) -> 1..j]
  /\ \A k \in 1..Len(regs) : /\ regs[k] = seq[p[k]] /\ seq[p[k]] # "none"
                             /\ p[k] <= k + Cardinality(Skipped(seq, j))
  /\ \A k, l \in 1..Len(regs) : k < l => p[k] < p[l]
  /\ \A i \in 1..j : seq[i] # "none" => \E k \in 1..Len(regs) : p[k] = i

LEMMA PlacedNext ==
  ASSUME NEW seq \in Seq(Names), NEW j \in Nat, j + 1 <= Len(seq),
         NEW regs, NEW p, Placed(p, regs, seq, j)
  PROVE  \E q : Placed(q, IF seq[j + 1] = "none" THEN regs ELSE Append(regs, seq[j + 1]),
                       seq, j + 1)
<1>1. PICK n, g : n = Len(regs) /\ g = Cardinality(Skipped(seq, j))
  OBVIOUS
<1>2. n \in Nat /\ g \in Nat /\ n + g = j /\ regs \in Seq(Names)
  BY <1>1, SkippedFacts DEF Placed
<1>3. Cardinality(Skipped(seq, j + 1)) = g + (IF seq[j + 1] = "none" THEN 1 ELSE 0)
  BY <1>1, SkippedFacts
<1>4. /\ p \in [1..n -> 1..j]
      /\ \A k \in 1..n : regs[k] = seq[p[k]] /\ seq[p[k]] # "none" /\ p[k] <= k + g
      /\ \A k, l \in 1..n : k < l => p[k] < p[l]
      /\ \A i \in 1..j : seq[i] # "none" => \E k \in 1..n : p[k] = i
  BY <1>1 DEF Placed
<1>5. \A i \in 1..(j + 1) : i \in 1..j \/ i = j + 1
  OBVIOUS
<1>6. CASE seq[j + 1] = "none"
  <2>1. p \in [1..n -> 1..(j + 1)]
    BY <1>2, <1>4
  <2>2. \A k \in 1..n : p[k] <= k + (g + 1)
    BY <1>2, <1>4
  <2>3. \A i \in 1..(j + 1) : seq[i] # "none" => \E k \in 1..n : p[k] = i
    BY <1>4, <1>5, <1>6
  <2>4. Placed(p, regs, seq, j + 1)
    <3>1. Cardinality(Skipped(seq, j + 1)) = g + 1 /\ n + (g + 1) = j + 1
      BY <1>2, <1>3, <1>6
    <3>2. QED BY <1>1, <1>2, <1>4, <2>1, <2>2, <2>3, <3>1 DEF Placed
  <2>5. QED BY <1>6, <2>4
<1>7. CASE seq[j + 1] # "none"
  <2>1. PICK next : next = Append(regs, seq[j + 1])
    OBVIOUS
  <2>2. seq[j + 1] \in Names
    OBVIOUS
  <2>3. /\ next \in Seq(Names) /\ Len(next) = n + 1
        /\ next[n + 1] = seq[j + 1] /\ \A k \in 1..n : next[k] = regs[k]
    BY <1>1, <1>2, <2>1, <2>2
  <2> DEFINE q == [k \in 1..(n + 1) |-> IF k = n + 1 THEN j + 1 ELSE p[k]]
  <2>4. q[n + 1] = j + 1 /\ \A k \in 1..n : q[k] = p[k] /\ p[k] \in 1..j
    BY <1>2, <1>4
  <2>5. q = [k \in 1..(n + 1) |-> q[k]]
    OBVIOUS
  <2> HIDE DEF q
  <2>6. \A k \in 1..(n + 1) : k \in 1..n \/ k = n + 1
    BY <1>2
  <2>7. q \in [1..(n + 1) -> 1..(j + 1)]
    <3>1. \A k \in 1..(n + 1) : q[k] \in 1..(j + 1)
      BY <1>2, <2>4, <2>6
    <3>2. QED BY <2>5, <3>1
  <2>8. \A k \in 1..(n + 1) : next[k] = seq[q[k]] /\ seq[q[k]] # "none" /\ q[k] <= k + g
    <3>1. TAKE k \in 1..(n + 1)
    <3>2. CASE k \in 1..n
      BY <1>4, <2>3, <2>4, <3>2
    <3>3. CASE k = n + 1
      BY <1>2, <1>7, <2>3, <2>4, <3>3
    <3>4. QED BY <2>6, <3>2, <3>3
  <2>9. \A k, l \in 1..(n + 1) : k < l => q[k] < q[l]
    <3>1. TAKE k \in 1..(n + 1), l \in 1..(n + 1)
    <3>2. CASE l = n + 1
      BY <1>2, <2>4, <2>6, <3>2
    <3>3. CASE l \in 1..n /\ k \in 1..n
      BY <1>4, <2>4, <3>3
    <3>4. CASE l \in 1..n /\ k = n + 1
      BY <1>2, <3>4
    <3>5. QED BY <2>6, <3>2, <3>3, <3>4
  <2>10. \A i \in 1..(j + 1) : seq[i] # "none" => \E k \in 1..(n + 1) : q[k] = i
    <3>1. TAKE i \in 1..(j + 1)
    <3>2. CASE i = j + 1
      BY <1>2, <2>4, <3>2
    <3>3. CASE i \in 1..j
      <4>1. ASSUME seq[i] # "none" PROVE \E k \in 1..(n + 1) : q[k] = i
        <5>1. PICK k \in 1..n : p[k] = i
          BY <1>4, <3>3, <4>1
        <5>2. k \in 1..(n + 1)
          BY <1>2
        <5>3. QED BY <2>4, <5>1, <5>2
      <4>2. QED BY <4>1
    <3>4. QED BY <1>5, <3>2, <3>3
  <2>11. Cardinality(Skipped(seq, j + 1)) = g /\ (n + 1) + g = j + 1
    BY <1>2, <1>3, <1>7
  <2>12. Placed(q, next, seq, j + 1)
    BY <2>3, <2>7, <2>8, <2>9, <2>10, <2>11 DEF Placed
  <2>13. QED BY <1>7, <2>1, <2>12
<1>8. QED BY <1>6, <1>7

LEMMA RegistersArePlaced ==
  ASSUME NEW seq \in Seq(Names)
  PROVE  \E p : Placed(p, Registers(seq), seq, Len(seq))
<1>1. PICK n \in Nat : n = Len(seq)
  OBVIOUS
<1> DEFINE F(f, j) == [i \in 0..j |-> CASE i = 0 -> <<>>
                                        [] i > 0 /\ seq[i] = "none" -> f[i - 1]
                                        [] OTHER -> Append(f[i - 1], seq[i])]
           T == {j \in 0..n : \E f : f = F(f, j)}
<1>2. 0 \in T
  <2> DEFINE g == [i \in 0..0 |-> <<>>]
  <2>1. g = F(g, 0)
    OBVIOUS
  <2>2. \E f : f = F(f, 0)
    <3> HIDE DEF F, g
    <3>1. QED BY <2>1
  <2>3. QED BY <2>2
<1>3. ASSUME NEW j \in 0..(n - 1), j \in T PROVE j + 1 \in T
  <2>1. PICK f : f = F(f, j)
    BY <1>3
  <2>2. PICK x : x = IF seq[j + 1] = "none" THEN f[j] ELSE Append(f[j], seq[j + 1])
    OBVIOUS
  <2> DEFINE g == [i \in 0..(j + 1) |-> IF i = j + 1 THEN x ELSE f[i]]
  <2>3. ASSUME NEW i \in 0..(j + 1)
        PROVE  g[i] = CASE i = 0 -> <<>>
                        [] i > 0 /\ seq[i] = "none" -> g[i - 1]
                        [] OTHER -> Append(g[i - 1], seq[i])
    <3>1. CASE i = 0
      <4>1. g[0] = f[0] /\ f[0] = <<>>
        BY <2>1
      <4>2. QED BY <3>1, <4>1
    <3>2. CASE i = j + 1
      <4>1. j \in 0..(j + 1) /\ j # j + 1 /\ i - 1 = j /\ i > 0 /\ i # 0
        BY <3>2
      <4>2. g[j] = f[j] /\ g[i] = x
        BY <3>2, <4>1
      <4> HIDE DEF g
      <4>3. QED BY <2>2, <3>2, <4>1, <4>2
    <3>3. CASE i # 0 /\ i # j + 1
      <4>1. i \in 0..j /\ i - 1 \in 0..(j + 1) /\ i - 1 # j + 1 /\ i > 0
        BY <3>3
      <4>2. g[i] = f[i] /\ g[i - 1] = f[i - 1]
        BY <3>3, <4>1
      <4>3. f[i] = IF seq[i] = "none" THEN f[i - 1] ELSE Append(f[i - 1], seq[i])
        BY <2>1, <3>3, <4>1
      <4> HIDE DEF g
      <4>4. QED BY <3>3, <4>1, <4>2, <4>3
    <3>4. QED BY <3>1, <3>2, <3>3
  <2>4. g = [i \in 0..(j + 1) |-> g[i]]
    OBVIOUS
  <2>5. g = F(g, j + 1)
    <3> HIDE DEF g
    <3>1. QED BY <2>3, <2>4
  <2>6. j + 1 \in 0..n
    OBVIOUS
  <2>7. QED BY <2>5, <2>6
<1>4. \E f : f = F(f, n)
  <2> HIDE DEF F
  <2>1. \A k \in 0..n : k \in T
    <3> HIDE DEF T
    <3>1. QED BY <1>2, <1>3, UpTo
  <2>2. QED BY <2>1
<1>5. PICK g : g = CHOOSE f : f = F(f, n)
  OBVIOUS
<1>6. g = F(g, n)
  <2> HIDE DEF F
  <2>1. QED BY <1>4, <1>5
<1>7. Registers(seq) = g[n]
  BY <1>1, <1>5 DEF Registers
<1>8. g[0] = <<>>
  BY <1>6
<1>9. ASSUME NEW j \in 0..(n - 1)
      PROVE  g[j + 1] = IF seq[j + 1] = "none" THEN g[j] ELSE Append(g[j], seq[j + 1])
  <2>1. j + 1 \in 0..n /\ j + 1 # 0 /\ j + 1 > 0 /\ (j + 1) - 1 = j
    OBVIOUS
  <2>2. QED BY <1>6, <2>1
<1> HIDE DEF F, T
<1> DEFINE U == {j \in 0..n : \E p : Placed(p, g[j], seq, j)}
<1>10. 0 \in U
  <2>1. PICK e, p : e = <<>> /\ p = [k \in 1..0 |-> 0]
    OBVIOUS
  <2>2. e \in Seq(Names) /\ Len(e) = 0 /\ p \in [1..0 -> 1..0] /\ \A k \in 1..0 : FALSE
    BY <2>1
  <2>3. Cardinality(Skipped(seq, 0)) = 0
    BY SkippedFacts
  <2>4. Placed(p, e, seq, 0)
    BY <2>2, <2>3 DEF Placed
  <2>5. QED BY <1>8, <2>1, <2>4
<1>11. ASSUME NEW j \in 0..(n - 1), j \in U PROVE j + 1 \in U
  <2>1. PICK p : Placed(p, g[j], seq, j)
    BY <1>11
  <2>2. j \in Nat /\ j + 1 <= Len(seq) /\ j + 1 \in 0..n
    BY <1>1
  <2>3. \E q : Placed(q, g[j + 1], seq, j + 1)
    BY <1>9, <2>1, <2>2, PlacedNext
  <2>4. QED BY <2>2, <2>3
<1>12. \A j \in 0..n : j \in U
  <2> HIDE DEF U
  <2>1. QED BY <1>10, <1>11, UpTo
<1>13. QED BY <1>1, <1>7, <1>12

-----------------------------------------------------------------------------
(* The tables, and which of their places are skipped.                      *)

AbiNames == {"win", "sysv"}
Targets == {"rcx", "rdx", "rdi", "rsi"}
Alt(abi, x) ==
  CASE x = "rcx" -> "r10" [] x = "rdx" -> "r11"
    [] x = "rdi" /\ abi = "sysv" -> "r8" [] x = "rsi" /\ abi = "sysv" -> "r9" [] OTHER -> "none"

CalleeEntries(tbl) ==
  /\ tbl[9] = "rbx" /\ tbl[10] = "rbp" /\ tbl[11] = "r12"
  /\ tbl[12] = "r13" /\ tbl[13] = "r14" /\ tbl[14] = "r15"
WinEntries(tbl) ==
  /\ tbl[1] = "rcx" /\ tbl[2] = "rdx" /\ tbl[3] = "r8" /\ tbl[4] = "r9"
  /\ tbl[5] = "r10" /\ tbl[6] = "r11" /\ tbl[7] = "rdi" /\ tbl[8] = "rsi"
SysvEntries(tbl) ==
  /\ tbl[1] = "rdi" /\ tbl[2] = "rsi" /\ tbl[3] = "rdx" /\ tbl[4] = "rcx"
  /\ tbl[5] = "r8" /\ tbl[6] = "r9" /\ tbl[7] = "r10" /\ tbl[8] = "r11"

LEMMA EntryTable ==
  ASSUME NEW abi \in AbiNames
  PROVE  /\ getRegEntryTbl(abi) \in Seq(Names) /\ Len(getRegEntryTbl(abi)) = 14
         /\ abi = "win" => WinEntries(getRegEntryTbl(abi))
         /\ abi = "sysv" => SysvEntries(getRegEntryTbl(abi))
         /\ CalleeEntries(getRegEntryTbl(abi))
<1>1. PICK w, y, c : /\ w = <<"rcx", "rdx", "r8", "r9", "r10", "r11", "rdi", "rsi">>
                     /\ y = <<"rdi", "rsi", "rdx", "rcx", "r8", "r9", "r10", "r11">>
                     /\ c = <<"rbx", "rbp", "r12", "r13", "r14", "r15">>
  OBVIOUS
<1>2. getRegEntryTbl(abi) = (IF abi = "win" THEN w ELSE y) \o c
  BY <1>1 DEF getRegEntryTbl
<1>3. /\ w \in Seq(Names) /\ y \in Seq(Names) /\ c \in Seq(Names)
      /\ Len(w) = 8 /\ Len(y) = 8 /\ Len(c) = 6
  <2>1. w \in Seq(Names) /\ Len(w) = 8
    BY <1>1 DEF Names
  <2>2. y \in Seq(Names) /\ Len(y) = 8
    BY <1>1 DEF Names
  <2>3. c \in Seq(Names) /\ Len(c) = 6
    BY <1>1 DEF Names
  <2>4. QED BY <2>1, <2>2, <2>3
<1>4. ASSUME NEW x \in Seq(Names), Len(x) = 8
      PROVE  /\ x \o c \in Seq(Names) /\ Len(x \o c) = 14
             /\ \A k \in 1..8 : (x \o c)[k] = x[k]
             /\ CalleeEntries(x \o c)
  <2>1. x \o c \in Seq(Names) /\ Len(x \o c) = Len(x) + Len(c)
    <3>1. ASSUME NEW u \in Seq(Names), NEW v \in Seq(Names)
          PROVE  u \o v \in Seq(Names) /\ Len(u \o v) = Len(u) + Len(v)
      OBVIOUS
    <3>2. QED BY <1>3, <1>4, <3>1
  <2>2. /\ \A k \in 1..Len(x) : (x \o c)[k] = x[k]
        /\ \A k \in 1..Len(c) : (x \o c)[Len(x) + k] = c[k]
    <3>1. IsCode(x) /\ IsCode(c)
      BY <1>3, <1>4 DEF IsCode
    <3>2. QED BY <3>1, ConcatFacts
  <2>3. \A k \in 1..6 : (x \o c)[8 + k] = c[k]
    BY <1>3, <1>4, <2>2
  <2>4. /\ (x \o c)[9] = c[1] /\ (x \o c)[10] = c[2] /\ (x \o c)[11] = c[3]
        /\ (x \o c)[12] = c[4] /\ (x \o c)[13] = c[5] /\ (x \o c)[14] = c[6]
    <3>0. PICK u : u = x \o c /\ \A k \in 1..6 : u[8 + k] = c[k]
      BY <2>3
    <3>1. u[8 + 1] = c[1] /\ u[8 + 2] = c[2] /\ u[8 + 3] = c[3]
      <4>1. \A k \in 1..6 : u[8 + k] = c[k]
        BY <3>0
      <4>2. QED BY <4>1
    <3>2. u[8 + 4] = c[4] /\ u[8 + 5] = c[5] /\ u[8 + 6] = c[6]
      <4>1. \A k \in 1..6 : u[8 + k] = c[k]
        BY <3>0
      <4>2. QED BY <4>1
    <3>3. 8 + 1 = 9 /\ 8 + 2 = 10 /\ 8 + 3 = 11 /\ 8 + 4 = 12 /\ 8 + 5 = 13 /\ 8 + 6 = 14
      OBVIOUS
    <3>4. QED BY <3>0, <3>1, <3>2, <3>3
  <2>5. QED BY <1>1, <1>3, <1>4, <2>1, <2>2, <2>4 DEF CalleeEntries
<1>5. PICK tbl : tbl = getRegEntryTbl(abi)
  OBVIOUS
<1>6. CASE abi = "win"
  <2>1. tbl \in Seq(Names) /\ Len(tbl) = 14 /\ (\A k \in 1..8 : tbl[k] = w[k]) /\ CalleeEntries(tbl)
    BY <1>2, <1>3, <1>4, <1>5, <1>6
  <2>2. WinEntries(tbl)
    BY <1>1, <2>1 DEF WinEntries
  <2>3. QED BY <1>5, <1>6, <2>1, <2>2
<1>7. CASE abi = "sysv"
  <2>1. tbl \in Seq(Names) /\ Len(tbl) = 14 /\ (\A k \in 1..8 : tbl[k] = y[k]) /\ CalleeEntries(tbl)
    BY <1>2, <1>3, <1>4, <1>5, <1>7
  <2>2. SysvEntries(tbl)
    BY <1>1, <2>1 DEF SysvEntries
  <2>3. QED BY <1>5, <1>7, <2>1, <2>2
<1>8. QED BY <1>6, <1>7 DEF AbiNames

LEMMA Fourteen ==
  ASSUME NEW i \in 1..14
  PROVE  \/ i = 1 \/ i = 2 \/ i = 3 \/ i = 4 \/ i = 5 \/ i = 6 \/ i = 7
         \/ i = 8 \/ i = 9 \/ i = 10 \/ i = 11 \/ i = 12 \/ i = 13 \/ i = 14
OBVIOUS

LEMMA EntriesDiffer ==
  ASSUME NEW abi \in AbiNames, NEW i \in 1..14, NEW j \in 1..14,
         getRegEntryTbl(abi)[i] = getRegEntryTbl(abi)[j]
  PROVE  i = j
<1>1. PICK tbl : tbl = getRegEntryTbl(abi) /\ tbl[i] = tbl[j]
  OBVIOUS
<1>2. CalleeEntries(tbl)
  BY <1>1, EntryTable
<1>3. CASE abi = "win"
  <2>1. WinEntries(tbl)
    BY <1>1, <1>3, EntryTable
  <2>2. QED BY <1>1, <1>2, <2>1, Fourteen DEF WinEntries, CalleeEntries
<1>4. CASE abi = "sysv"
  <2>1. SysvEntries(tbl)
    BY <1>1, <1>4, EntryTable
  <2>2. QED BY <1>1, <1>2, <2>1, Fourteen DEF SysvEntries, CalleeEntries
<1>5. QED BY <1>3, <1>4 DEF AbiNames

LEMMA SlotTable ==
  ASSUME NEW abi \in AbiNames
  PROVE  /\ \A s \in Range(getRegSlotTbl(abi)) : s.target \in Targets /\ s.alt = Alt(abi, s.target)
         /\ \A x \in Targets : \E s \in Range(getRegSlotTbl(abi)) : s.target = x
<1>1. PICK tbl : tbl = getRegSlotTbl(abi)
  OBVIOUS
<1>2. /\ DOMAIN tbl = 1..4
      /\ tbl[1].target = "rcx" /\ tbl[2].target = "rdx"
      /\ tbl[3].target = "rdi" /\ tbl[4].target = "rsi"
      /\ tbl[1].alt = Alt(abi, "rcx") /\ tbl[2].alt = Alt(abi, "rdx")
      /\ tbl[3].alt = Alt(abi, "rdi") /\ tbl[4].alt = Alt(abi, "rsi")
  <2>1. CASE abi = "win"
    BY <1>1, <2>1 DEF getRegSlotTbl, Slot, Alt
  <2>2. CASE abi = "sysv"
    BY <1>1, <2>2 DEF getRegSlotTbl, Slot, Alt
  <2>3. QED BY <2>1, <2>2 DEF AbiNames
<1>3. Range(tbl) = {tbl[i] : i \in 1..4}
  BY <1>2 DEF Range
<1>4. ASSUME NEW s \in Range(tbl) PROVE s.target \in Targets /\ s.alt = Alt(abi, s.target)
  <2>1. PICK i \in 1..4 : s = tbl[i]
    BY <1>3
  <2>2. i = 1 \/ i = 2 \/ i = 3 \/ i = 4
    OBVIOUS
  <2>3. QED BY <1>2, <2>1, <2>2 DEF Targets
<1>5. ASSUME NEW x \in Targets PROVE \E s \in Range(tbl) : s.target = x
  <2>1. tbl[1] \in Range(tbl) /\ tbl[2] \in Range(tbl) /\ tbl[3] \in Range(tbl) /\ tbl[4] \in Range(tbl)
    BY <1>3
  <2>2. QED BY <1>2, <2>1 DEF Targets
<1>6. QED BY <1>1, <1>4, <1>5

LEMMA AvailableIs ==
  ASSUME NEW r, r.abi \in AbiNames, NEW x
  PROVE  Available(r, x) =
           IF \E y \in Targets \cap r.use : Alt(r.abi, y) = x THEN "none"
           ELSE IF x \in Targets \cap r.use THEN Alt(r.abi, x)
           ELSE IF x \in r.use THEN "none" ELSE x
<1>1. PICK reserved : reserved = {s \in Range(getRegSlotTbl(r.abi)) : s.target \in r.use}
  OBVIOUS
<1>2. PICK mine : mine = {s \in reserved : s.target = x}
  OBVIOUS
<1>3. Available(r, x) =
        CASE \E s \in reserved : s.alt = x -> "none"
          [] (\A s \in reserved : s.alt # x) /\ mine # {} -> (CHOOSE s \in mine : TRUE).alt
          [] OTHER -> IF x \in r.use THEN "none" ELSE x
  BY <1>1, <1>2 DEF Available
<1>4. \A s \in reserved : s.target \in Targets \cap r.use /\ s.alt = Alt(r.abi, s.target)
  BY <1>1, SlotTable
<1>5. \A y \in Targets \cap r.use : \E s \in reserved : s.target = y
  BY <1>1, SlotTable
<1>6. (\E s \in reserved : s.alt = x) <=> \E y \in Targets \cap r.use : Alt(r.abi, y) = x
  BY <1>4, <1>5
<1>7. mine # {} <=> x \in Targets \cap r.use
  BY <1>2, <1>4, <1>5
<1>8. mine # {} => (CHOOSE s \in mine : TRUE).alt = Alt(r.abi, x)
  <2>1. \A s \in mine : s.alt = Alt(r.abi, x)
    BY <1>2, <1>4
  <2>2. mine # {} => (CHOOSE s \in mine : TRUE) \in mine
    OBVIOUS
  <2>3. QED BY <2>1, <2>2
<1>9. QED BY <1>3, <1>6, <1>7, <1>8

\* The place that a reserved register takes away.
Taken(abi, x) ==
  CASE x = "rbp" -> 10
    [] x = "rcx" -> (IF abi = "win" THEN 5 ELSE 7)
    [] x = "rdx" -> (IF abi = "win" THEN 6 ELSE 8)
    [] x = "rdi" -> (IF abi = "win" THEN 7 ELSE 5)
    [] x = "rsi" -> (IF abi = "win" THEN 8 ELSE 6)

At(r) == [i \in 1..maxRegNum |-> Available(r, getRegEntryTbl(r.abi)[i])]

\* What is handed out at a place that is not skipped.
LEMMA AtIs ==
  ASSUME NEW r, r.abi \in AbiNames, r.use \subseteq UseRegs, NEW i \in 1..14
  PROVE  LET x == getRegEntryTbl(r.abi)[i] IN
         /\ At(r)[i] = "none" <=> \E y \in r.use : Taken(r.abi, y) = i
         /\ At(r)[i] # "none" =>
              /\ At(r)[i] = IF x \in r.use THEN Alt(r.abi, x) ELSE x
              /\ x \in r.use => x \in Targets
              /\ \A y \in Targets \cap r.use : Alt(r.abi, y) # x
<1>1. PICK x : x = getRegEntryTbl(r.abi)[i]
  OBVIOUS
<1>2. At(r)[i] = IF \E y \in Targets \cap r.use : Alt(r.abi, y) = x THEN "none"
                 ELSE IF x \in Targets \cap r.use THEN Alt(r.abi, x)
                 ELSE IF x \in r.use THEN "none" ELSE x
  BY <1>1, AvailableIs DEF At, maxRegNum
<1>3. \/ i = 1 \/ i = 2 \/ i = 3 \/ i = 4 \/ i = 5 \/ i = 6 \/ i = 7
      \/ i = 8 \/ i = 9 \/ i = 10 \/ i = 11 \/ i = 12 \/ i = 13 \/ i = 14
  OBVIOUS
<1>4. PICK tbl : /\ tbl = getRegEntryTbl(r.abi) /\ x = tbl[i] /\ CalleeEntries(tbl)
                 /\ r.abi = "win" => WinEntries(tbl)
                 /\ r.abi = "sysv" => SysvEntries(tbl)
  BY <1>1, EntryTable
<1>5. x # "none"
  <2>1. CASE r.abi = "win"
    BY <1>1, <1>3, <1>4, <2>1 DEF WinEntries, CalleeEntries
  <2>2. CASE r.abi = "sysv"
    BY <1>1, <1>3, <1>4, <2>2 DEF SysvEntries, CalleeEntries
  <2>3. QED BY <2>1, <2>2 DEF AbiNames
<1>6. At(r)[i] = "none" <=> \E y \in r.use : Taken(r.abi, y) = i
  <2>1. (\E y \in r.use : Taken(r.abi, y) = i) <=>
          \/ "rbp" \in r.use /\ Taken(r.abi, "rbp") = i
          \/ "rcx" \in r.use /\ Taken(r.abi, "rcx") = i
          \/ "rdx" \in r.use /\ Taken(r.abi, "rdx") = i
          \/ "rdi" \in r.use /\ Taken(r.abi, "rdi") = i
          \/ "rsi" \in r.use /\ Taken(r.abi, "rsi") = i
    BY DEF UseRegs
  <2>2. (\E y \in Targets \cap r.use : Alt(r.abi, y) = x) <=>
          \/ "rcx" \in r.use /\ Alt(r.abi, "rcx") = x
          \/ "rdx" \in r.use /\ Alt(r.abi, "rdx") = x
          \/ "rdi" \in r.use /\ Alt(r.abi, "rdi") = x
          \/ "rsi" \in r.use /\ Alt(r.abi, "rsi") = x
    BY DEF Targets
  <2>3. CASE r.abi = "win"
    <3>1. /\ Alt(r.abi, "rcx") = "r10" /\ Alt(r.abi, "rdx") = "r11"
          /\ Alt(r.abi, "rdi") = "none" /\ Alt(r.abi, "rsi") = "none"
          /\ Taken(r.abi, "rbp") = 10 /\ Taken(r.abi, "rcx") = 5 /\ Taken(r.abi, "rdx") = 6
          /\ Taken(r.abi, "rdi") = 7 /\ Taken(r.abi, "rsi") = 8
      BY <2>3 DEF Alt, Taken
    <3>2. CASE i \in 9..14
      BY <1>2, <1>5, <1>4, <2>1, <2>2, <3>1, <3>2 DEF Targets, UseRegs, CalleeEntries
    <3>3. CASE i \in 1..8
      BY <1>2, <1>5, <1>4, <2>1, <2>2, <2>3, <3>1, <3>3 DEF Targets, UseRegs, WinEntries
    <3>4. QED BY <3>2, <3>3
  <2>4. CASE r.abi = "sysv"
    <3>1. /\ Alt(r.abi, "rcx") = "r10" /\ Alt(r.abi, "rdx") = "r11"
          /\ Alt(r.abi, "rdi") = "r8" /\ Alt(r.abi, "rsi") = "r9"
          /\ Taken(r.abi, "rbp") = 10 /\ Taken(r.abi, "rcx") = 7 /\ Taken(r.abi, "rdx") = 8
          /\ Taken(r.abi, "rdi") = 5 /\ Taken(r.abi, "rsi") = 6
      BY <2>4 DEF Alt, Taken
    <3>2. CASE i \in 9..14
      BY <1>2, <1>5, <1>4, <2>1, <2>2, <3>1, <3>2 DEF Targets, UseRegs, CalleeEntries
    <3>3. CASE i \in 1..8
      BY <1>2, <1>5, <1>4, <2>1, <2>2, <2>4, <3>1, <3>3 DEF Targets, UseRegs, SysvEntries
    <3>4. QED BY <3>2, <3>3
  <2>5. QED BY <2>3, <2>4 DEF AbiNames
<1>7. QED BY <1>1, <1>2, <1>6

LEMMA SkippedAreReserved ==
  ASSUME NEW r, r.abi \in AbiNames, r.use \subseteq UseRegs
  PROVE  Cardinality(Skipped(At(r), 14)) = useNum(r) /\ useNum(r) \in Nat
<1>1. PICK S, U : S = Skipped(At(r), 14) /\ U = r.use
  OBVIOUS
<1>2. PICK f : f = [x \in U |-> Taken(r.abi, x)]
  OBVIOUS
<1>3. \A x, y \in UseRegs : Taken(r.abi, x) \in 1..14 /\ (Taken(r.abi, x) = Taken(r.abi, y) => x = y)
  <2>1. CASE r.abi = "win"
    BY <2>1 DEF Taken, UseRegs
  <2>2. CASE r.abi = "sysv"
    BY <2>2 DEF Taken, UseRegs
  <2>3. QED BY <2>1, <2>2 DEF AbiNames
<1>4. \A i \in 1..14 : i \in S <=> \E x \in U : f[x] = i
  BY <1>1, <1>2, AtIs DEF Skipped
<1>5. \A x \in U : f[x] \in S
  BY <1>1, <1>2, <1>3, <1>4
<1>6. f \in [U -> S]
  BY <1>2, <1>5
<1>7. \A x, y \in U : f[x] = f[y] => x = y
  BY <1>1, <1>2, <1>3
<1>8. \A i \in S : \E x \in U : f[x] = i
  BY <1>1, <1>4 DEF Skipped
<1>9. f \in Bijection(U, S)
  BY <1>6, <1>7, <1>8 DEF Bijection, Injection, Surjection, IsInjective
<1>10. IsFiniteSet(U)
  <2>1. IsFiniteSet(UseRegs)
    <3>1. IsFiniteSet({}) /\ IsFiniteSet({} \cup {"rcx"})
      BY FS_EmptySet, FS_AddElement
    <3>2. IsFiniteSet(({} \cup {"rcx"}) \cup {"rdx"})
      BY <3>1, FS_AddElement
    <3>3. IsFiniteSet((({} \cup {"rcx"}) \cup {"rdx"}) \cup {"rsi"})
      BY <3>2, FS_AddElement
    <3>4. IsFiniteSet(((({} \cup {"rcx"}) \cup {"rdx"}) \cup {"rsi"}) \cup {"rdi"})
      BY <3>3, FS_AddElement
    <3>5. IsFiniteSet((((({} \cup {"rcx"}) \cup {"rdx"}) \cup {"rsi"}) \cup {"rdi"}) \cup {"rbp"})
      BY <3>4, FS_AddElement
    <3>6. UseRegs = (((({} \cup {"rcx"}) \cup {"rdx"}) \cup {"rsi"}) \cup {"rdi"}) \cup {"rbp"}
      BY DEF UseRegs
    <3>7. QED BY <3>5, <3>6
  <2>2. QED BY <1>1, <2>1, FS_Subset
<1>11. Cardinality(S) = Cardinality(U) /\ Cardinality(U) \in Nat
  <2>1. ExistsBijection(U, S)
    BY <1>9 DEF ExistsBijection
  <2>2. QED BY <1>10, <2>1, FS_Bijection, FS_CardinalityType
<1>12. QED BY <1>1, <1>11 DEF useNum

-----------------------------------------------------------------------------
(* The registers handed out.                                               *)

Asked(r) == r \in Requests /\ Accepts(r) /\ (r.framePointer => "rbp" \in r.use)

LEMMA AskedFacts ==
  ASSUME NEW r, Asked(r)
  PROVE  /\ r.abi \in AbiNames /\ r.use \subseteq UseRegs
         /\ r.pNum \in 0..4 /\ r.tNum \in Nat /\ useNum(r) \in Nat
         /\ r.pNum + r.tNum + useNum(r) <= 14
         /\ r.stack \in Nat /\ r.vec.num \in 0..63 /\ r.vec.noVz \in BOOLEAN
         /\ r.ppx \in BOOLEAN /\ r.push2 \in BOOLEAN
<1>1. /\ r.abi \in Abis /\ r.use \in SUBSET UseRegs /\ r.tNum \in TNums /\ r.stack \in StackSizes
      /\ r.vec \in VecUses /\ r.ppx \in BOOLEAN /\ r.push2 \in BOOLEAN
  BY DEF Asked, Requests
<1>2. r.pNum \in 0..4 /\ r.pNum + r.tNum + useNum(r) <= 14
  BY DEF Asked, Accepts, maxRegNum
<1>3. /\ r.abi \in AbiNames /\ r.tNum \in Nat /\ r.stack \in Nat
      /\ r.vec.num \in 0..63 /\ r.vec.noVz \in BOOLEAN
  BY <1>1, StackFrameAssumption DEF AbiNames
<1>4. useNum(r) \in Nat
  BY <1>1, <1>3, SkippedAreReserved
<1>5. QED BY <1>1, <1>2, <1>3, <1>4

LEMMA AtIsSequence ==
  ASSUME NEW r, r.abi \in AbiNames, r.use \subseteq UseRegs
  PROVE  At(r) \in Seq(Names) /\ Len(At(r)) = 14 /\ getRegs(r) = Registers(At(r))
<1>1. PICK tbl : tbl = getRegEntryTbl(r.abi)
  OBVIOUS
<1>2. ASSUME NEW i \in 1..14 PROVE At(r)[i] \in Names
  <2>1. \A x \in Targets : Alt(r.abi, x) \in Names
    BY DEF Alt, Targets, Names
  <2>2. tbl[i] \in Names
    <3>1. tbl \in Seq(Names) /\ Len(tbl) = 14
      BY <1>1, EntryTable
    <3>2. i \in 1..Len(tbl)
      BY <3>1
    <3>3. QED BY <3>1, <3>2, ElementOfSeq
  <2>3. At(r)[i] = "none" \/ At(r)[i] = tbl[i] \/ (tbl[i] \in Targets /\ At(r)[i] = Alt(r.abi, tbl[i]))
    BY <1>1, AtIs
  <2>4. "none" \in Names
    BY DEF Names
  <2>5. QED BY <2>1, <2>2, <2>3, <2>4
<1>3. At(r) = [i \in 1..14 |-> At(r)[i]]
  BY DEF At, maxRegNum
<1>4. At(r) \in Seq(Names) /\ Len(At(r)) = 14
  BY <1>2, <1>3
<1>5. getRegs(r) = Registers(At(r))
  BY DEF getRegs, At
<1>6. QED BY <1>4, <1>5

LEMMA AltsAreFree ==
  ASSUME NEW abi \in AbiNames, NEW x \in Targets, Alt(abi, x) # "none"
  PROVE  /\ Alt(abi, x) \in {"r8", "r9", "r10", "r11"}
         /\ \A y \in Targets : Alt(abi, y) = Alt(abi, x) => y = x
<1>1. CASE abi = "win"
  BY <1>1 DEF Alt, Targets
<1>2. CASE abi = "sysv"
  BY <1>2 DEF Alt, Targets
<1>3. QED BY <1>1, <1>2 DEF AbiNames

\* Two places never hand out the same register.
LEMMA PlacesDiffer ==
  ASSUME NEW r, r.abi \in AbiNames, r.use \subseteq UseRegs,
         NEW i \in 1..14, NEW j \in 1..14, At(r)[i] # "none", At(r)[i] = At(r)[j]
  PROVE  i = j
<1>1. PICK x, y : x = getRegEntryTbl(r.abi)[i] /\ y = getRegEntryTbl(r.abi)[j]
  OBVIOUS
<1>2. /\ At(r)[i] = (IF x \in r.use THEN Alt(r.abi, x) ELSE x)
      /\ x \in r.use => x \in Targets
      /\ \A z \in Targets \cap r.use : Alt(r.abi, z) # x
  BY <1>1, AtIs
<1>3. /\ At(r)[j] = (IF y \in r.use THEN Alt(r.abi, y) ELSE y)
      /\ y \in r.use => y \in Targets
      /\ \A z \in Targets \cap r.use : Alt(r.abi, z) # y
  BY <1>1, AtIs
<1>4. CASE x \in r.use /\ y \in r.use
  <2>1. x \in Targets /\ y \in Targets /\ Alt(r.abi, x) = Alt(r.abi, y) /\ Alt(r.abi, x) # "none"
    BY <1>2, <1>3, <1>4
  <2>2. x = y
    BY <2>1, AltsAreFree
  <2>3. QED BY <1>1, <2>2, EntriesDiffer
<1>5. CASE x \notin r.use /\ y \notin r.use
  <2>1. x = y
    BY <1>2, <1>3, <1>5
  <2>2. QED BY <1>1, <2>1, EntriesDiffer
<1>6. CASE x \in r.use /\ y \notin r.use
  BY <1>2, <1>3, <1>6
<1>7. CASE x \notin r.use /\ y \in r.use
  BY <1>2, <1>3, <1>7
<1>8. QED BY <1>4, <1>5, <1>6, <1>7

\* regs has at least as many as asked for, and one that comes k-th stands at
\* most useNum places later.
LEMMA RegsFacts ==
  ASSUME NEW r, Asked(r)
  PROVE  /\ getRegs(r) \in Seq(Names) /\ Len(getRegs(r)) = 14 - useNum(r)
         /\ \E p : Placed(p, getRegs(r), At(r), 14)
         /\ \A k, l \in 1..Len(getRegs(r)) : getRegs(r)[k] = getRegs(r)[l] => k = l
<1>1. PICK regs, seq, g : regs = getRegs(r) /\ seq = At(r) /\ g = useNum(r)
  OBVIOUS
<1>2. r.abi \in AbiNames /\ r.use \subseteq UseRegs /\ g \in Nat
  BY <1>1, AskedFacts
<1>3. seq \in Seq(Names) /\ Len(seq) = 14 /\ regs = Registers(seq)
  BY <1>1, <1>2, AtIsSequence
<1>4. PICK p : Placed(p, regs, seq, 14)
  BY <1>3, RegistersArePlaced
<1>5. Cardinality(Skipped(seq, 14)) = g
  BY <1>1, <1>2, SkippedAreReserved
<1>6. regs \in Seq(Names) /\ Len(regs) \in Nat /\ Len(regs) + g = 14
  BY <1>4, <1>5 DEF Placed
<1>7. ASSUME NEW k \in 1..Len(regs), NEW l \in 1..Len(regs), regs[k] = regs[l] PROVE k = l
  <2>1. /\ p[k] \in 1..14 /\ p[l] \in 1..14 /\ seq[p[k]] # "none" /\ seq[p[k]] = seq[p[l]]
    BY <1>4, <1>7 DEF Placed
  <2>2. p[k] = p[l]
    BY <1>1, <1>2, <2>1, PlacesDiffer
  <2>3. (k < l => p[k] < p[l]) /\ (l < k => p[l] < p[k])
    BY <1>4 DEF Placed
  <2>4. k \in Nat /\ l \in Nat
    BY <1>6
  <2>5. QED BY <2>1, <2>2, <2>3, <2>4
<1>8. QED BY <1>1, <1>2, <1>4, <1>6, <1>7

\* The k-th register handed out, whether as parameter or as temporary.
LEMMA RegIsFree ==
  ASSUME NEW r, Asked(r), NEW k \in 1..(r.pNum + r.tNum)
  PROVE  LET x == getRegs(r)[k] IN
         /\ k \in 1..Len(getRegs(r))
         /\ x \in Names /\ x # "none" /\ x \notin r.use
         /\ \/ x \in {"r8", "r9", "r10", "r11"}
            \/ \E i \in 1..14 : x = getRegEntryTbl(r.abi)[i] /\ i <= r.pNum + r.tNum + useNum(r)
<1>1. PICK regs, seq, g, x : regs = getRegs(r) /\ seq = At(r) /\ g = useNum(r) /\ x = regs[k]
  OBVIOUS
<1>2. /\ r.abi \in AbiNames /\ r.use \subseteq UseRegs /\ g \in Nat
      /\ r.pNum \in Nat /\ r.tNum \in Nat /\ r.pNum + r.tNum + g <= 14
  BY <1>1, AskedFacts
<1>3. regs \in Seq(Names) /\ Len(regs) = 14 - g
  BY <1>1, RegsFacts
<1>4. k \in 1..Len(regs)
  BY <1>2, <1>3
<1>5. PICK p : Placed(p, regs, seq, 14)
  BY <1>1, RegsFacts
<1>6. Cardinality(Skipped(seq, 14)) = g
  BY <1>1, <1>2, SkippedAreReserved
<1>7. p[k] \in 1..14 /\ x = seq[p[k]] /\ seq[p[k]] # "none" /\ p[k] <= k + g
  BY <1>1, <1>4, <1>5, <1>6 DEF Placed
<1>8. PICK y : y = getRegEntryTbl(r.abi)[p[k]]
  OBVIOUS
<1>9. /\ x = (IF y \in r.use THEN Alt(r.abi, y) ELSE y)
      /\ y \in r.use => y \in Targets
  BY <1>1, <1>2, <1>7, <1>8, AtIs
<1>10. x \in Names
  BY <1>1, <1>3, <1>4
<1>11. p[k] <= r.pNum + r.tNum + g
  BY <1>2, <1>7
<1>12. CASE y \in r.use
  <2>1. x \in {"r8", "r9", "r10", "r11"}
    BY <1>2, <1>7, <1>9, <1>12, AltsAreFree
  <2>2. x \notin r.use
    BY <1>2, <2>1 DEF UseRegs
  <2>3. QED BY <1>1, <1>4, <1>7, <1>10, <2>1, <2>2
<1>13. CASE y \notin r.use
  BY <1>1, <1>4, <1>7, <1>8, <1>9, <1>10, <1>11, <1>13
<1>14. QED BY <1>12, <1>13

\* The tables of p and t.
LEMMA TablesFacts ==
  ASSUME NEW r, Asked(r)
  PROVE  LET f == Frame(r) IN
         /\ f.p \in Seq(Names) /\ Len(f.p) = r.pNum
         /\ f.t \in Seq(Names) /\ Len(f.t) = r.tNum
         /\ \A k \in 1..r.pNum : f.p[k] = getRegs(r)[k]
         /\ \A k \in 1..r.tNum : f.t[k] = getRegs(r)[r.pNum + k]
<1>1. PICK regs, a, b : regs = getRegs(r) /\ a = r.pNum /\ b = r.tNum
  OBVIOUS
<1>2. a \in Nat /\ b \in Nat /\ regs \in Seq(Names) /\ a + b <= Len(regs)
  <2>1. PICK g, l : g = useNum(r) /\ l = Len(regs)
    OBVIOUS
  <2>2. a \in Nat /\ b \in Nat /\ g \in Nat /\ a + b + g <= 14
    BY <1>1, <2>1, AskedFacts
  <2>3. regs \in Seq(Names) /\ l = 14 - g
    BY <1>1, <2>1, RegsFacts
  <2>4. a + b <= l
    BY <2>2, <2>3
  <2>5. QED BY <2>1, <2>2, <2>3, <2>4
<1>3. /\ SubSeq(regs, 1, a) \in Seq(Names) /\ Len(SubSeq(regs, 1, a)) = a
      /\ \A k \in 1..a : SubSeq(regs, 1, a)[k] = regs[k]
  BY <1>2
<1>4. /\ SubSeq(regs, a + 1, a + b) \in Seq(Names) /\ Len(SubSeq(regs, a + 1, a + b)) = b
      /\ \A k \in 1..b : SubSeq(regs, a + 1, a + b)[k] = regs[a + k]
  BY <1>2
<1>5. Frame(r).p = SubSeq(regs, 1, a) /\ Frame(r).t = SubSeq(regs, a + 1, a + b)
  BY <1>1 DEF Frame
<1>6. QED BY <1>1, <1>3, <1>4, <1>5

\* The object is that of the request while a call is under way.
FrameIs ==
  /\ phase \in {"none", "called", "entered", "worked", "returned"}
  /\ phase # "none" => Asked(req) /\ sf = Frame(req)

LEMMA FrameIsNext == FrameIs /\ [Next]_vars => FrameIs'
<1>1. ASSUME FrameIs, Call PROVE FrameIs'
  <2>1. PICK r \in Requests : Accepts(r) /\ (r.framePointer => "rbp" \in r.use)
                              /\ req' = r /\ sf' = Frame(r)
    BY <1>1 DEF Call
  <2>2. Asked(r)
    BY <2>1 DEF Asked
  <2>3. Asked(req') /\ sf' = Frame(req')
    BY <2>1, <2>2
  <2>4. QED BY <1>1, <2>3 DEF FrameIs, Call
<1>2. ASSUME FrameIs, Enter \/ Work \/ Close \/ UNCHANGED vars PROVE FrameIs'
  BY <1>2 DEF FrameIs, Enter, Work, Close, vars
<1>3. ASSUME Return PROVE FrameIs'
  BY <1>3 DEF FrameIs, Return
<1>4. QED BY <1>1, <1>2, <1>3 DEF Next

THEOREM FrameIsAsRequested == Spec => []FrameIs
<1>1. Init => FrameIs
  BY DEF Init, FrameIs
<1>2. QED BY <1>1, FrameIsNext, PTL DEF Spec

LEMMA DistinctWhileAsked == FrameIs => RegistersAreDistinct
<1>1. SUFFICES ASSUME FrameIs, phase # "none" PROVE RegistersAreDistinct
  BY DEF RegistersAreDistinct
<1>2. PICK a, b, regs, all : /\ a = req.pNum /\ b = req.tNum /\ regs = getRegs(req)
                             /\ all = sf.p \o sf.t
  OBVIOUS
<1>3. Asked(req) /\ sf = Frame(req)
  BY <1>1 DEF FrameIs
<1>4. a \in Nat /\ b \in Nat
  BY <1>2, <1>3, AskedFacts
<1>5. /\ sf.p \in Seq(Names) /\ Len(sf.p) = a /\ sf.t \in Seq(Names) /\ Len(sf.t) = b
      /\ \A k \in 1..a : sf.p[k] = regs[k]
      /\ \A k \in 1..b : sf.t[k] = regs[a + k]
  BY <1>2, <1>3, TablesFacts
<1>6. IsCode(sf.p) /\ IsCode(sf.t)
  BY <1>5 DEF IsCode
<1>7. /\ all \in Seq(Names) /\ Len(all) = a + b
      /\ \A k \in 1..a : all[k] = regs[k]
      /\ \A k \in 1..b : all[a + k] = regs[a + k]
  <2>1. ASSUME NEW u \in Seq(Names), NEW v \in Seq(Names) PROVE u \o v \in Seq(Names)
    OBVIOUS
  <2>2. all \in Seq(Names)
    BY <1>2, <1>5, <2>1
  <2>3. /\ Len(all) = a + b /\ \A k \in 1..a : all[k] = sf.p[k]
        /\ \A k \in 1..b : all[a + k] = sf.t[k]
    <3>1. PICK p, t : p = sf.p /\ t = sf.t /\ all = p \o t
      BY <1>2
    <3>2. IsCode(p) /\ IsCode(t) /\ Len(p) = a /\ Len(t) = b
      BY <1>5, <1>6, <3>1
    <3>3. /\ Len(p \o t) = Len(p) + Len(t) /\ \A k \in 1..Len(p) : (p \o t)[k] = p[k]
          /\ \A k \in 1..Len(t) : (p \o t)[Len(p) + k] = t[k]
      BY <3>2, ConcatFacts
    <3>4. /\ Len(all) = Len(p) + Len(t) /\ \A k \in 1..Len(p) : all[k] = p[k]
          /\ \A k \in 1..Len(t) : all[Len(p) + k] = t[k]
      BY <3>1, <3>3
    <3>5. QED BY <3>1, <3>2, <3>4
  <2>4. QED BY <1>5, <2>2, <2>3
<1>8. \A k \in 1..(a + b) : all[k] = regs[k]
  <2>1. TAKE k \in 1..(a + b)
  <2>2. CASE k \in 1..a
    BY <1>7, <2>2
  <2>3. CASE k \notin 1..a
    <3>1. k - a \in 1..b /\ a + (k - a) = k
      BY <1>4, <2>3
    <3>2. all[a + (k - a)] = regs[a + (k - a)]
      BY <1>7, <3>1
    <3>3. QED BY <3>1, <3>2
  <2>4. QED BY <2>2, <2>3
<1>9. ASSUME NEW k \in 1..(a + b)
      PROVE  k \in 1..Len(regs) /\ all[k] \notin req.use \cup {"rax", "rsp", "r30", "r31"}
  <2>1. /\ k \in 1..Len(regs) /\ regs[k] \in Names /\ regs[k] \notin req.use
    BY <1>2, <1>3, RegIsFree
  <2>2. QED BY <1>8, <2>1 DEF Names
<1>10. DOMAIN all = 1..(a + b)
  BY <1>7
<1>11. IsInjective(all)
  <2>1. ASSUME NEW k \in 1..(a + b), NEW l \in 1..(a + b), all[k] = all[l] PROVE k = l
    <3>1. regs[k] = regs[l] /\ k \in 1..Len(regs) /\ l \in 1..Len(regs)
      BY <1>8, <1>9, <2>1
    <3>2. QED BY <1>2, <1>3, <3>1, RegsFacts
  <2>2. QED BY <1>10, <2>1 DEF IsInjective
<1>12. Range(all) \cap (req.use \cup {"rax", "rsp", "r30", "r31"}) = {}
  BY <1>9, <1>10 DEF Range
<1>13. QED BY <1>2, <1>7, <1>11, <1>12 DEF RegistersAreDistinct

\* For every request, getRegIdx hands out as many registers as asked for, all
\* different, and none that is reserved or used otherwise.
THEOREM RegistersDiffer == Spec => []RegistersAreDistinct
<1>1. FrameIs => RegistersAreDistinct
  BY DistinctWhileAsked
<1>2. QED BY <1>1, FrameIsAsRequested, PTL

-----------------------------------------------------------------------------
(* The registers that are saved.                                           *)

LEMMA GeneralRegsAre == (Names \ {"none"}) \cup {"rax", "r30", "r31"} \subseteq GeneralRegs
<1>1. PICK tbl : tbl = getRegEntryTbl("win")
  OBVIOUS
<1>2. /\ tbl \in Seq(Names) /\ Len(tbl) = 14 /\ WinEntries(tbl) /\ CalleeEntries(tbl)
  BY <1>1, EntryTable DEF AbiNames
<1>3. DOMAIN tbl = 1..14
  BY <1>2
<1>4. \A i \in 1..14 : tbl[i] \in Range(tbl)
  BY <1>3 DEF Range
<1>5. Range(tbl) \subseteq GeneralRegs
  BY <1>1 DEF GeneralRegs
<1>6. /\ {tbl[1], tbl[2], tbl[3], tbl[4], tbl[5], tbl[6], tbl[7]} \subseteq GeneralRegs
      /\ {tbl[8], tbl[9], tbl[10], tbl[11], tbl[12], tbl[13], tbl[14]} \subseteq GeneralRegs
  BY <1>4, <1>5
<1>7. {"rax", "r30", "r31"} \subseteq GeneralRegs
  BY DEF GeneralRegs
<1>8. QED BY <1>2, <1>6, <1>7 DEF WinEntries, CalleeEntries, Names

\* What the loop over the callee-saved registers adds to saveRegs_.
IsSaved(r, i) ==
  LET x == calleeTbl(r.abi)[i] IN
  IF x \in r.use THEN x # "rbp" ELSE i <= baseSaveNum(r)
Kept(r) == [i \in 1..(14 - noSaveNum(r.abi)) |->
              IF IsSaved(r, i) THEN calleeTbl(r.abi)[i] ELSE "none"]

LEMMA KeptIs ==
  ASSUME NEW r, r.abi \in AbiNames
  PROVE  /\ Kept(r) \in Seq(Names) /\ Len(Kept(r)) = 14 - noSaveNum(r.abi)
         /\ noSaveNum(r.abi) \in {6, 8}
         /\ \A i \in 1..(14 - noSaveNum(r.abi)) :
              calleeTbl(r.abi)[i] = getRegEntryTbl(r.abi)[noSaveNum(r.abi) + i]
         /\ saveRegs(r) = (IF "rbp" \in r.use THEN <<"rbp">> ELSE <<>>)
                          \o (IF r.r30r31 THEN <<"r30", "r31">> ELSE <<>>)
                          \o Registers(Kept(r))
<1>1. PICK n, tbl : n = noSaveNum(r.abi) /\ tbl = getRegEntryTbl(r.abi)
  OBVIOUS
<1>2. n \in {6, 8}
  BY <1>1 DEF noSaveNum
<1>3. tbl \in Seq(Names) /\ Len(tbl) = 14
  BY <1>1, EntryTable
<1>4. calleeTbl(r.abi) = [i \in 1..(14 - n) |-> tbl[n + i]]
  BY <1>1 DEF calleeTbl, maxRegNum
<1>5. ASSUME NEW i \in 1..(14 - n) PROVE calleeTbl(r.abi)[i] \in Names
  <2>1. n + i \in 1..Len(tbl)
    BY <1>2, <1>3
  <2>2. tbl[n + i] \in Names
    BY <1>3, <2>1, ElementOfSeq
  <2>3. QED BY <1>4, <2>2
<1>6. Kept(r) \in [1..(14 - n) -> Names]
  BY <1>1, <1>5 DEF Kept, Names
<1>7. 14 - n \in Nat
  BY <1>2
<1>8. Kept(r) \in Seq(Names) /\ Len(Kept(r)) = 14 - n
  BY <1>6, <1>7
<1>9. DOMAIN calleeTbl(r.abi) = 1..(14 - n)
  BY <1>4
<1>10. Kept(r) = [i \in DOMAIN calleeTbl(r.abi) |->
                    IF IsSaved(r, i) THEN calleeTbl(r.abi)[i] ELSE "none"]
  BY <1>1, <1>9 DEF Kept
<1>11. saveRegs(r) = (IF "rbp" \in r.use THEN <<"rbp">> ELSE <<>>)
                     \o (IF r.r30r31 THEN <<"r30", "r31">> ELSE <<>>)
                     \o Registers(Kept(r))
  BY <1>10 DEF saveRegs, IsSaved
<1>12. QED BY <1>1, <1>2, <1>4, <1>8, <1>11

\* The members of Registers(seq) are those of seq that are not "none".
LEMMA MembersOfRegisters ==
  ASSUME NEW seq \in Seq(Names)
  PROVE  LET regs == Registers(seq) IN
         /\ regs \in Seq(Names)
         /\ \A k \in 1..Len(regs) : \E i \in 1..Len(seq) : regs[k] = seq[i] /\ seq[i] # "none"
         /\ \A i \in 1..Len(seq) : seq[i] # "none" => \E k \in 1..Len(regs) : regs[k] = seq[i]
<1>1. PICK n, regs : n = Len(seq) /\ regs = Registers(seq)
  OBVIOUS
<1>2. PICK p : Placed(p, regs, seq, n)
  BY <1>1, RegistersArePlaced
<1>3. /\ regs \in Seq(Names) /\ p \in [1..Len(regs) -> 1..n]
      /\ \A k \in 1..Len(regs) : regs[k] = seq[p[k]] /\ seq[p[k]] # "none"
      /\ \A i \in 1..n : seq[i] # "none" => \E k \in 1..Len(regs) : p[k] = i
  BY <1>2 DEF Placed
<1>4. \A k \in 1..Len(regs) : \E i \in 1..n : regs[k] = seq[i] /\ seq[i] # "none"
  BY <1>3
<1>5. \A i \in 1..n : seq[i] # "none" => \E k \in 1..Len(regs) : regs[k] = seq[i]
  BY <1>3
<1>6. QED BY <1>1, <1>3, <1>4, <1>5

\* saveRegs_: rbp comes first and once; each register of the table that is
\* reserved, or that an allocation of pNum + tNum registers reaches, is there.
SaveFacts(r, s, n) ==
  /\ n \in Nat /\ \A j \in 1..n : s[j] \in GeneralRegs
  /\ "rbp" \in r.use => n >= 1 /\ s[1] = "rbp" /\ \A j \in 2..n : s[j] # "rbp"
  /\ r.r30r31 => \A x \in {"r30", "r31"} : \E j \in 1..n : s[j] = x
  /\ \A i \in (noSaveNum(r.abi) + 1)..14 :
       LET x == getRegEntryTbl(r.abi)[i] IN
       x \in r.use \/ i <= r.pNum + r.tNum + useNum(r) => \E j \in 1..n : s[j] = x

LEMMA SaveRegsAre ==
  ASSUME NEW r, Asked(r)
  PROVE  SaveFacts(r, saveRegs(r), Len(saveRegs(r)))
<1>1. PICK a, b, c, seq, z, s :
         /\ a = (IF "rbp" \in r.use THEN <<"rbp">> ELSE <<>>)
         /\ b = (IF r.r30r31 THEN <<"r30", "r31">> ELSE <<>>)
         /\ seq = Kept(r) /\ c = Registers(seq) /\ z = noSaveNum(r.abi) /\ s = saveRegs(r)
  OBVIOUS
<1>2. r.abi \in AbiNames /\ r.pNum \in Nat /\ r.tNum \in Nat /\ useNum(r) \in Nat
  BY AskedFacts
<1>3. /\ seq \in Seq(Names) /\ Len(seq) = 14 - z /\ z \in {6, 8}
      /\ \A i \in 1..(14 - z) : calleeTbl(r.abi)[i] = getRegEntryTbl(r.abi)[z + i]
      /\ s = (a \o b) \o c
  BY <1>1, <1>2, KeptIs
<1>4. /\ c \in Seq(Names)
      /\ \A k \in 1..Len(c) : \E i \in 1..Len(seq) : c[k] = seq[i] /\ seq[i] # "none"
      /\ \A i \in 1..Len(seq) : seq[i] # "none" => \E k \in 1..Len(c) : c[k] = seq[i]
  BY <1>1, <1>3, MembersOfRegisters
<1>5. /\ Len(a) = (IF "rbp" \in r.use THEN 1 ELSE 0) /\ \A k \in 1..Len(a) : a[k] = "rbp"
      /\ IsCode(a)
  <2>1. <<"rbp">> \in Seq({"rbp"}) /\ <<>> \in Seq({"rbp"})
    OBVIOUS
  <2>2. a \in Seq({"rbp"})
    BY <1>1, <2>1
  <2>3. QED BY <1>1, <2>2 DEF IsCode
<1>6. /\ Len(b) = (IF r.r30r31 THEN 2 ELSE 0) /\ \A k \in 1..Len(b) : b[k] \in {"r30", "r31"}
      /\ r.r30r31 => b[1] = "r30" /\ b[2] = "r31"
      /\ IsCode(b)
  <2>1. <<"r30", "r31">> \in Seq({"r30", "r31"}) /\ <<>> \in Seq({"r30", "r31"})
    OBVIOUS
  <2>2. b \in Seq({"r30", "r31"})
    BY <1>1, <2>1
  <2>3. QED BY <1>1, <2>2 DEF IsCode
<1>7. IsCode(c)
  BY <1>4 DEF IsCode
<1>8. PICK u : u = a \o b
  OBVIOUS
<1>9. /\ IsCode(u) /\ Len(u) = Len(a) + Len(b)
      /\ \A k \in 1..Len(a) : u[k] = a[k]
      /\ \A k \in 1..Len(b) : u[Len(a) + k] = b[k]
  BY <1>5, <1>6, <1>8, ConcatFacts
<1>10. /\ Len(u \o c) = Len(u) + Len(c) /\ Len(c) \in Nat /\ Len(u) \in Nat
       /\ \A k \in 1..Len(u) : (u \o c)[k] = u[k]
       /\ \A k \in 1..Len(c) : (u \o c)[Len(u) + k] = c[k]
  BY <1>7, <1>9, ConcatFacts
<1>11. PICK la, lb, lc, n : la = Len(a) /\ lb = Len(b) /\ lc = Len(c) /\ n = Len(s)
  OBVIOUS
<1>12. /\ la \in {0, 1} /\ lb \in {0, 2} /\ lc \in Nat /\ n = (la + lb) + lc
       /\ la = (IF "rbp" \in r.use THEN 1 ELSE 0) /\ lb = (IF r.r30r31 THEN 2 ELSE 0)
       /\ \A k \in 1..la : s[k] = a[k]
       /\ \A k \in 1..lb : s[la + k] = b[k]
       /\ \A k \in 1..lc : s[(la + lb) + k] = c[k]
  <2>1. s = u \o c
    BY <1>3, <1>8
  <2>2. \A k \in 1..lc : s[(la + lb) + k] = c[k]
    BY <1>9, <1>10, <1>11, <2>1
  <2>3. \A k \in 1..la : s[k] = a[k]
    BY <1>5, <1>6, <1>9, <1>10, <1>11, <2>1
  <2>4. \A k \in 1..lb : s[la + k] = b[k]
    <3>1. TAKE k \in 1..lb
    <3>2. la + k \in 1..Len(u)
      BY <1>5, <1>6, <1>9, <1>11
    <3>3. (u \o c)[la + k] = u[la + k] /\ u[la + k] = b[k]
      BY <1>9, <1>10, <1>11, <3>2
    <3>4. QED BY <2>1, <3>3
  <2>5. QED BY <1>5, <1>6, <1>9, <1>10, <1>11, <2>1, <2>2, <2>3, <2>4
<1>13. \A j \in 1..n : \/ j \in 1..la
                       \/ \E k \in 1..lb : j = la + k
                       \/ \E k \in 1..lc : j = (la + lb) + k
  <2>1. TAKE j \in 1..n
  <2>2. CASE j <= la
    BY <1>12, <2>2
  <2>3. CASE j > la /\ j <= la + lb
    <3>1. j - la \in 1..lb /\ j = la + (j - la)
      BY <1>12, <2>3
    <3>2. QED BY <3>1
  <2>4. CASE j > la + lb
    <3>1. j - (la + lb) \in 1..lc /\ j = (la + lb) + (j - (la + lb))
      BY <1>12, <2>4
    <3>2. QED BY <3>1
  <2>5. QED BY <1>12, <2>2, <2>3, <2>4
<1>14. ASSUME NEW k \in 1..lc
       PROVE  c[k] \in Names \ {"none"} /\ ("rbp" \in r.use => c[k] # "rbp")
  <2>1. PICK i \in 1..Len(seq) : c[k] = seq[i] /\ seq[i] # "none"
    BY <1>4, <1>11
  <2>2. seq[i] \in Names
    BY <1>3, <2>1, ElementOfSeq
  <2>3. i \in 1..(14 - z) /\ seq[i] = IF IsSaved(r, i) THEN calleeTbl(r.abi)[i] ELSE "none"
    BY <1>1, <1>3 DEF Kept
  <2>4. seq[i] = calleeTbl(r.abi)[i] /\ IsSaved(r, i)
    BY <2>1, <2>3
  <2>5. "rbp" \in r.use => seq[i] # "rbp"
    BY <2>4 DEF IsSaved
  <2>6. QED BY <2>1, <2>2, <2>5
<1>15. \A j \in 1..n : /\ s[j] \in GeneralRegs
                       /\ "rbp" \in r.use /\ j # 1 => s[j] # "rbp"
  <2>1. TAKE j \in 1..n
  <2>2. CASE j \in 1..la
    <3>1. s[j] = "rbp" /\ j = 1
      BY <1>5, <1>11, <1>12, <2>2
    <3>2. QED BY <3>1, GeneralRegsAre DEF Names
  <2>3. ASSUME NEW k \in 1..lb, j = la + k PROVE s[j] \in {"r30", "r31"}
    BY <1>6, <1>11, <1>12, <2>3
  <2>4. ASSUME NEW k \in 1..lc, j = (la + lb) + k
        PROVE s[j] \in Names \ {"none"} /\ ("rbp" \in r.use => s[j] # "rbp")
    BY <1>12, <1>14, <2>4
  <2>5. QED BY <1>13, <2>2, <2>3, <2>4, GeneralRegsAre
<1>16. "rbp" \in r.use => n >= 1 /\ s[1] = "rbp"
  <2>1. ASSUME "rbp" \in r.use PROVE n >= 1 /\ s[1] = "rbp"
    <3>1. la = 1 /\ 1 \in 1..la /\ n >= 1
      BY <1>12, <2>1
    <3>2. QED BY <1>5, <1>11, <1>12, <3>1
  <2>2. QED BY <2>1
<1>17. ASSUME r.r30r31, NEW x \in {"r30", "r31"} PROVE \E j \in 1..n : s[j] = x
  <2>1. lb = 2 /\ 1 \in 1..lb /\ 2 \in 1..lb /\ la + 1 \in 1..n /\ la + 2 \in 1..n
    BY <1>12, <1>17
  <2>2. s[la + 1] = "r30" /\ s[la + 2] = "r31"
    BY <1>6, <1>12, <1>17, <2>1
  <2>3. QED BY <2>1, <2>2
<1>18. ASSUME NEW i \in (z + 1)..14, NEW x, x = getRegEntryTbl(r.abi)[i],
              x \in r.use \/ i <= r.pNum + r.tNum + useNum(r)
       PROVE  \E j \in 1..n : s[j] = x
  <2>1. CASE x = "rbp" /\ "rbp" \in r.use
    <3>1. 1 \in 1..n /\ s[1] = x
      BY <1>12, <1>16, <2>1
    <3>2. QED BY <3>1
  <2>2. CASE ~ (x = "rbp" /\ "rbp" \in r.use)
    <3>1. i - z \in 1..(14 - z) /\ z + (i - z) = i
      BY <1>3
    <3>2. calleeTbl(r.abi)[i - z] = x
      BY <1>3, <1>18, <3>1
    <3>3. i <= r.pNum + r.tNum + useNum(r) => i - z <= baseSaveNum(r)
      <4>1. PICK e, f, g : e = r.pNum /\ f = r.tNum /\ g = useNum(r)
        OBVIOUS
      <4>2. e \in Nat /\ f \in Nat /\ g \in Nat /\ z \in Nat /\ i \in Int
        BY <1>2, <1>3, <4>1
      <4>3. baseSaveNum(r) = LET d == e + f + g - z IN IF d > 0 THEN d ELSE 0
        BY <1>1, <4>1 DEF baseSaveNum
      <4>4. i <= e + f + g => i - z <= (LET d == e + f + g - z IN IF d > 0 THEN d ELSE 0)
        BY <4>2
      <4>5. QED BY <4>1, <4>3, <4>4
    <3>4. IsSaved(r, i - z)
      BY <1>18, <2>2, <3>2, <3>3 DEF IsSaved
    <3>5. seq[i - z] = x
      BY <1>1, <3>1, <3>2, <3>4 DEF Kept
    <3>6. x \in Names /\ x # "none"
      <4>1. /\ getRegEntryTbl(r.abi) \in Seq(Names) /\ Len(getRegEntryTbl(r.abi)) = 14
            /\ i \in 1..14
        BY <1>2, <1>3, EntryTable
      <4>2. x \in Names
        BY <1>18, <4>1, ElementOfSeq
      <4>3. x # "none"
        BY <1>2, <1>18, <4>1, EntryTable, Fourteen DEF AbiNames, WinEntries, SysvEntries, CalleeEntries
      <4>4. QED BY <4>2, <4>3
    <3>7. PICK k \in 1..lc : c[k] = x
      BY <1>3, <1>4, <1>11, <3>1, <3>5, <3>6
    <3>8. (la + lb) + k \in 1..n /\ s[(la + lb) + k] = x
      BY <1>12, <3>7
    <3>9. QED BY <3>8
  <2>3. QED BY <2>1, <2>2
<1>19. n \in Nat
  BY <1>12
<1>20. SaveFacts(r, s, n)
  BY <1>1, <1>15, <1>16, <1>17, <1>18, <1>19 DEF SaveFacts
<1>21. QED BY <1>1, <1>11, <1>20

-----------------------------------------------------------------------------
(* What the instructions do to a machine.                                  *)

IsMachine(c) ==
  /\ c = [reg |-> c.reg, xmm |-> c.xmm, sp |-> c.sp, stack |-> c.stack, dirty |-> c.dirty,
          fault |-> c.fault, penalty |-> c.penalty, mixed |-> c.mixed]
  /\ DOMAIN c.reg = GeneralRegs /\ DOMAIN c.xmm = 0..15 /\ c.sp \in Int

Holds(stack, a, v) == a \in DOMAIN stack /\ stack[a] = v

LEMMA SetHolds ==
  ASSUME NEW stack, NEW a, NEW v
  PROVE  /\ Holds(Set(stack, a, v), a, v)
         /\ \A b, w : b # a /\ Holds(stack, b, w) => Holds(Set(stack, a, v), b, w)
BY DEF Holds, Set

LEMMA PushOneIs ==
  ASSUME NEW c, IsMachine(c), NEW x, NEW ppx
  PROVE  LET d == PushOne(c, x, ppx) IN
         /\ IsMachine(d) /\ d.sp = c.sp - 8
         /\ d.stack = Set(c.stack, c.sp - 8, <<c.reg[x], ppx>>)
         /\ d.reg = c.reg /\ d.xmm = c.xmm /\ d.dirty = c.dirty /\ d.fault = c.fault
         /\ d.penalty = c.penalty /\ d.mixed = c.mixed
<1>1. PICK st : st = Set(c.stack, c.sp - 8, <<c.reg[x], ppx>>)
  OBVIOUS
<1>2. PICK d, sp : d = PushOne(c, x, ppx) /\ sp = c.sp - 8
  OBVIOUS
<1>3. d = [c EXCEPT !.sp = sp, !.stack = st]
  BY <1>1, <1>2 DEF PushOne, IsMachine
<1>4. /\ d.sp = sp /\ d.stack = st /\ d.reg = c.reg /\ d.xmm = c.xmm /\ d.dirty = c.dirty
      /\ d.fault = c.fault /\ d.penalty = c.penalty /\ d.mixed = c.mixed
  BY <1>3 DEF IsMachine
<1>5. sp \in Int
  BY <1>2 DEF IsMachine
<1>6. IsMachine(d)
  BY <1>3, <1>5 DEF IsMachine
<1>7. QED BY <1>1, <1>2, <1>4, <1>6

LEMMA PopOneIs ==
  ASSUME NEW c, IsMachine(c), NEW x \in GeneralRegs, NEW v, NEW ppx, Holds(c.stack, c.sp, <<v, ppx>>)
  PROVE  LET d == PopOne(c, x, ppx) IN
         /\ IsMachine(d) /\ d.sp = c.sp + 8 /\ d.reg = [c.reg EXCEPT ![x] = v]
         /\ d.stack = c.stack /\ d.xmm = c.xmm /\ d.dirty = c.dirty /\ d.fault = c.fault
         /\ d.penalty = c.penalty /\ (d.mixed <=> c.mixed)
<1>1. Cell(c, c.sp) = <<v, ppx>> /\ Cell(c, c.sp)[1] = v /\ Cell(c, c.sp)[2] = ppx
  BY DEF Cell, Holds
<1>2. PICK regs, mixed : regs = [c.reg EXCEPT ![x] = v] /\ mixed = (c.mixed \/ Cell(c, c.sp)[2] # ppx)
  OBVIOUS
<1>3. PICK d, sp : d = PopOne(c, x, ppx) /\ sp = c.sp + 8
  OBVIOUS
<1>4. d = [c EXCEPT !.sp = sp, !.reg = regs, !.mixed = mixed]
  BY <1>1, <1>2, <1>3 DEF PopOne, IsMachine
<1>5. /\ d.sp = sp /\ d.stack = c.stack /\ d.reg = regs /\ d.xmm = c.xmm /\ d.dirty = c.dirty
      /\ d.fault = c.fault /\ d.penalty = c.penalty /\ d.mixed = mixed
  BY <1>4 DEF IsMachine
<1>6. DOMAIN regs = GeneralRegs /\ sp \in Int
  BY <1>2, <1>3 DEF IsMachine
<1>7. IsMachine(d)
  BY <1>4, <1>6 DEF IsMachine
<1>8. d.mixed <=> c.mixed
  BY <1>1, <1>2, <1>5
<1>9. QED BY <1>2, <1>3, <1>5, <1>7, <1>8

LEMMA MovIs ==
  ASSUME NEW c, IsMachine(c), NEW x \in GeneralRegs, NEW y, NEW v,
         y = "rsp" => v = <<"sp", c.sp>>, y # "rsp" => v = c.reg[y]
  PROVE  LET d == Exec(c, Mov(x, y)) IN
         /\ IsMachine(d) /\ d.sp = c.sp /\ d.stack = c.stack /\ d.xmm = c.xmm
         /\ d.reg = [c.reg EXCEPT ![x] = v]
         /\ d.dirty = c.dirty /\ d.fault = c.fault /\ d.penalty = c.penalty /\ d.mixed = c.mixed
<1>1. PICK d, regs : d = Exec(c, Mov(x, y)) /\ regs = [c.reg EXCEPT ![x] = v]
  OBVIOUS
<1>2. d = [c EXCEPT !.reg = regs]
  <2>1. v = IF y = "rsp" THEN <<"sp", c.sp>> ELSE c.reg[y]
    OBVIOUS
  <2>2. QED BY <1>1, <2>1 DEF Exec, Mov, IsMachine
<1>3. /\ d.sp = c.sp /\ d.stack = c.stack /\ d.reg = regs /\ d.xmm = c.xmm /\ d.dirty = c.dirty
      /\ d.fault = c.fault /\ d.penalty = c.penalty /\ d.mixed = c.mixed
  BY <1>2 DEF IsMachine
<1>4. DOMAIN regs = GeneralRegs
  BY <1>1 DEF IsMachine
<1>5. IsMachine(d)
  BY <1>2, <1>4 DEF IsMachine
<1>6. QED BY <1>1, <1>3, <1>5

LEMMA AddRspIs ==
  ASSUME NEW c, IsMachine(c), NEW n \in Int
  PROVE  LET d == Exec(c, AddRsp(n)) IN
         /\ IsMachine(d) /\ d.sp = c.sp + n /\ d.stack = c.stack /\ d.xmm = c.xmm
         /\ d.reg = c.reg /\ d.dirty = c.dirty /\ d.fault = c.fault
         /\ d.penalty = c.penalty /\ d.mixed = c.mixed
<1>1. PICK d, sp : d = Exec(c, AddRsp(n)) /\ sp = c.sp + n
  OBVIOUS
<1>2. d = [c EXCEPT !.sp = sp]
  BY <1>1 DEF Exec, AddRsp, IsMachine
<1>3. /\ d.sp = sp /\ d.stack = c.stack /\ d.reg = c.reg /\ d.xmm = c.xmm /\ d.dirty = c.dirty
      /\ d.fault = c.fault /\ d.penalty = c.penalty /\ d.mixed = c.mixed
  BY <1>2 DEF IsMachine
<1>4. sp \in Int
  BY <1>1 DEF IsMachine
<1>5. IsMachine(d)
  BY <1>2, <1>4 DEF IsMachine
<1>6. QED BY <1>1, <1>3, <1>5

LEMMA NoCodeIs == ASSUME NEW c PROVE Exec(c, NoCode) = c
BY DEF Exec, NoCode

LEMMA VzeroupperIs ==
  ASSUME NEW c, IsMachine(c)
  PROVE  LET d == Exec(c, Vzeroupper) IN
         /\ IsMachine(d) /\ d.sp = c.sp /\ d.stack = c.stack /\ d.xmm = c.xmm
         /\ d.reg = c.reg /\ ~d.dirty /\ d.fault = c.fault
         /\ d.penalty = c.penalty /\ d.mixed = c.mixed
<1>1. PICK d : d = Exec(c, Vzeroupper)
  OBVIOUS
<1>2. d = [c EXCEPT !.dirty = FALSE]
  BY <1>1 DEF Exec, Vzeroupper
<1>3. /\ d.sp = c.sp /\ d.stack = c.stack /\ d.reg = c.reg /\ d.xmm = c.xmm /\ d.dirty = FALSE
      /\ d.fault = c.fault /\ d.penalty = c.penalty /\ d.mixed = c.mixed
  BY <1>2 DEF IsMachine
<1>4. IsMachine(d)
  BY <1>2 DEF IsMachine
<1>5. QED BY <1>1, <1>3, <1>4

\* push and pop of one register, push2 and pop2 of two.
LEMMA PushIs ==
  ASSUME NEW c, NEW x, NEW ppx
  PROVE  Exec(c, Push(<<x>>, ppx)) = PushOne(c, x, ppx)
<1>1. Len(<<x>>) = 1 /\ <<x>>[1] = x
  OBVIOUS
<1>2. QED BY <1>1 DEF Exec, Push, Each

LEMMA PopIs ==
  ASSUME NEW c, NEW x, NEW ppx
  PROVE  Exec(c, Pop(<<x>>, ppx)) = PopOne(c, x, ppx)
<1>1. Len(<<x>>) = 1 /\ <<x>>[1] = x
  OBVIOUS
<1>2. QED BY <1>1 DEF Exec, Pop, Each

LEMMA PushTwoIs ==
  ASSUME NEW c, Aligned(c.sp), NEW x, NEW y, NEW ppx, NEW d, d = PushOne(PushOne(c, x, ppx), y, ppx),
         IsMachine(d), ~d.fault
  PROVE  LET e == Exec(c, Push(<<x, y>>, ppx)) IN
         /\ IsMachine(e) /\ e.sp = d.sp /\ e.stack = d.stack /\ e.xmm = d.xmm
         /\ e.reg = d.reg /\ e.dirty = d.dirty /\ ~e.fault
         /\ e.penalty = d.penalty /\ e.mixed = d.mixed
<1>1. PICK e, fault : fault = (d.fault \/ ~Aligned(c.sp)) /\ e = Exec(c, Push(<<x, y>>, ppx))
  OBVIOUS
<1>2. Len(<<x, y>>) = 2 /\ <<x, y>>[1] = x /\ <<x, y>>[2] = y
  OBVIOUS
<1>3. e = [d EXCEPT !.fault = fault]
  BY <1>1, <1>2 DEF Exec, Push, Each, IsMachine
<1>4. /\ e.sp = d.sp /\ e.stack = d.stack /\ e.reg = d.reg /\ e.xmm = d.xmm /\ e.dirty = d.dirty
      /\ e.fault = fault /\ e.penalty = d.penalty /\ e.mixed = d.mixed
  BY <1>3 DEF IsMachine
<1>5. IsMachine(e)
  BY <1>3 DEF IsMachine
<1>6. ~fault
  BY <1>1
<1>7. QED BY <1>1, <1>4, <1>5, <1>6

LEMMA PopTwoIs ==
  ASSUME NEW c, Aligned(c.sp), NEW x, NEW y, NEW ppx, NEW d, d = PopOne(PopOne(c, x, ppx), y, ppx),
         IsMachine(d), ~d.fault
  PROVE  LET e == Exec(c, Pop(<<x, y>>, ppx)) IN
         /\ IsMachine(e) /\ e.sp = d.sp /\ e.stack = d.stack /\ e.xmm = d.xmm
         /\ e.reg = d.reg /\ e.dirty = d.dirty /\ ~e.fault
         /\ e.penalty = d.penalty /\ e.mixed = d.mixed
<1>1. PICK e, fault : fault = (d.fault \/ ~Aligned(c.sp)) /\ e = Exec(c, Pop(<<x, y>>, ppx))
  OBVIOUS
<1>2. Len(<<x, y>>) = 2 /\ <<x, y>>[1] = x /\ <<x, y>>[2] = y
  OBVIOUS
<1>3. e = [d EXCEPT !.fault = fault]
  BY <1>1, <1>2 DEF Exec, Pop, Each, IsMachine
<1>4. /\ e.sp = d.sp /\ e.stack = d.stack /\ e.reg = d.reg /\ e.xmm = d.xmm /\ e.dirty = d.dirty
      /\ e.fault = fault /\ e.penalty = d.penalty /\ e.mixed = d.mixed
  BY <1>3 DEF IsMachine
<1>5. IsMachine(e)
  BY <1>3 DEF IsMachine
<1>6. ~fault
  BY <1>1
<1>7. QED BY <1>1, <1>4, <1>5, <1>6

\* movaps and vmovaps of an xmm register to the stack and back.
VecCell(value) == <<value, FALSE>>
Vec(op, x, disp, vex) == [op |-> op, xmm |-> x, disp |-> disp, vex |-> vex]

LEMMA StoreIs ==
  ASSUME NEW c, IsMachine(c), NEW x, NEW disp, NEW vex, NEW a, a = c.sp + disp, Aligned(a),
         c.dirty => vex, NEW v, v = VecCell(c.xmm[x])
  PROVE  LET d == Exec(c, Vec("store", x, disp, vex)) IN
         /\ IsMachine(d) /\ d.sp = c.sp /\ d.stack = Set(Set(c.stack, a, v), a + 8, v)
         /\ d.xmm = c.xmm /\ d.reg = c.reg /\ d.dirty = c.dirty
         /\ (d.fault <=> c.fault) /\ (d.penalty <=> c.penalty) /\ d.mixed = c.mixed
<1>1. PICK d, st, fault, penalty :
        /\ d = Exec(c, Vec("store", x, disp, vex)) /\ st = Set(Set(c.stack, a, v), a + 8, v)
        /\ fault = (c.fault \/ ~Aligned(a)) /\ penalty = (c.penalty \/ (c.dirty /\ ~vex))
  OBVIOUS
<1>2. d = [c EXCEPT !.stack = st, !.fault = fault, !.penalty = penalty]
  BY <1>1 DEF Exec, Vec, VecCell, IsMachine
<1>3. /\ d.sp = c.sp /\ d.stack = st /\ d.reg = c.reg /\ d.xmm = c.xmm /\ d.dirty = c.dirty
      /\ d.fault = fault /\ d.penalty = penalty /\ d.mixed = c.mixed
  BY <1>2 DEF IsMachine
<1>4. IsMachine(d)
  BY <1>2 DEF IsMachine
<1>5. (fault <=> c.fault) /\ (penalty <=> c.penalty)
  BY <1>1
<1>6. QED BY <1>1, <1>3, <1>4, <1>5

LEMMA LoadIs ==
  ASSUME NEW c, IsMachine(c), NEW x \in 0..15, NEW disp, NEW vex,
         NEW a, a = c.sp + disp, Aligned(a), c.dirty => vex, NEW v,
         Holds(c.stack, a, VecCell(v)), Holds(c.stack, a + 8, VecCell(v))
  PROVE  LET d == Exec(c, Vec("load", x, disp, vex)) IN
         /\ IsMachine(d) /\ d.sp = c.sp /\ d.stack = c.stack
         /\ d.xmm = [c.xmm EXCEPT ![x] = v] /\ d.reg = c.reg /\ d.dirty = c.dirty
         /\ (d.fault <=> c.fault) /\ (d.penalty <=> c.penalty) /\ d.mixed = c.mixed
<1>1. PICK d, xmm, fault, penalty :
        /\ d = Exec(c, Vec("load", x, disp, vex))
        /\ xmm = [c.xmm EXCEPT ![x] = v]
        /\ fault = (c.fault \/ ~Aligned(a)) /\ penalty = (c.penalty \/ (c.dirty /\ ~vex))
  OBVIOUS
<1>2. Cell(c, a) = <<v, FALSE>> /\ Cell(c, a + 8) = <<v, FALSE>> /\ Cell(c, a)[1] = v
  <2>1. Cell(c, a) = <<v, FALSE>> /\ Cell(c, a + 8) = <<v, FALSE>>
    BY DEF Cell, Holds, VecCell
  <2>2. <<v, FALSE>>[1] = v
    OBVIOUS
  <2>3. QED BY <2>1, <2>2
<1>3. d = [c EXCEPT !.xmm = xmm, !.fault = fault, !.penalty = penalty]
  BY <1>1, <1>2 DEF Exec, Vec, IsMachine
<1>4. /\ d.sp = c.sp /\ d.stack = c.stack /\ d.reg = c.reg /\ d.xmm = xmm /\ d.dirty = c.dirty
      /\ d.fault = fault /\ d.penalty = penalty /\ d.mixed = c.mixed
  BY <1>3 DEF IsMachine
<1>5. DOMAIN xmm = 0..15
  BY <1>1 DEF IsMachine
<1>6. IsMachine(d)
  BY <1>3, <1>5 DEF IsMachine
<1>7. (fault <=> c.fault) /\ (penalty <=> c.penalty)
  BY <1>1
<1>8. QED BY <1>1, <1>4, <1>6, <1>7

-----------------------------------------------------------------------------
(* The pushes.                                                             *)

Quiet(c) == ~c.fault /\ ~c.penalty /\ ~c.mixed
OldRegs(c, fp) ==
  \A x \in GeneralRegs : c.reg[x] = IF fp /\ x = "rbp" THEN <<"sp", -8>> ELSE <<"old", x>>
OldXmms(c) == \A i \in 0..15 : c.xmm[i] = <<"old", i>>

\* The return address and k saved registers are in their cells.
SavedCells(c, r, s, k) ==
  /\ Holds(c.stack, 0, <<<<"return">>, FALSE>>)
  /\ \A j \in 1..k : Holds(c.stack, -8 * j, <<<<"old", s[j]>>, r.ppx>>)

\* The first k of s are pushed; fp: rbp is the frame pointer.
Pushed(c, r, s, k, fp) ==
  /\ IsMachine(c) /\ Quiet(c) /\ (c.dirty => r.vec.noVz)
  /\ OldRegs(c, fp) /\ OldXmms(c) /\ c.sp = -8 * k /\ SavedCells(c, r, s, k)

LEMMA PushNext ==
  ASSUME NEW c, NEW r, NEW s, NEW k \in Nat, NEW fp, Pushed(c, r, s, k, fp),
         s[k + 1] \in GeneralRegs, ~(fp /\ s[k + 1] = "rbp")
  PROVE  Pushed(PushOne(c, s[k + 1], r.ppx), r, s, k + 1, fp)
<1>1. PICK d, x : d = PushOne(c, s[k + 1], r.ppx) /\ x = s[k + 1]
  OBVIOUS
<1>2. IsMachine(c) /\ c.sp = -8 * k /\ c.sp - 8 = -8 * (k + 1)
  BY DEF Pushed
<1>3. /\ IsMachine(d) /\ d.sp = -8 * (k + 1)
      /\ d.stack = Set(c.stack, -8 * (k + 1), <<c.reg[x], r.ppx>>)
      /\ d.reg = c.reg /\ d.xmm = c.xmm /\ d.dirty = c.dirty /\ d.fault = c.fault
      /\ d.penalty = c.penalty /\ d.mixed = c.mixed
  BY <1>1, <1>2, PushOneIs
<1>4. c.reg[x] = <<"old", x>>
  BY <1>1 DEF Pushed, OldRegs
<1>5. Holds(d.stack, 0, <<<<"return">>, FALSE>>)
  <2>1. Holds(c.stack, 0, <<<<"return">>, FALSE>>)
    BY DEF Pushed, SavedCells
  <2>2. 0 # -8 * (k + 1)
    OBVIOUS
  <2>3. QED BY <1>3, <2>1, <2>2, SetHolds
<1>6. ASSUME NEW j \in 1..(k + 1) PROVE Holds(d.stack, -8 * j, <<<<"old", s[j]>>, r.ppx>>)
  <2>1. CASE j = k + 1
    BY <1>1, <1>3, <1>4, <2>1, SetHolds
  <2>2. CASE j \in 1..k
    <3>1. Holds(c.stack, -8 * j, <<<<"old", s[j]>>, r.ppx>>)
      BY <2>2 DEF Pushed, SavedCells
    <3>2. -8 * j # -8 * (k + 1)
      BY <2>2
    <3>3. QED BY <1>3, <3>1, <3>2, SetHolds
  <2>3. QED BY <2>1, <2>2
<1>7. SavedCells(d, r, s, k + 1)
  BY <1>5, <1>6 DEF SavedCells
<1>8. Quiet(d) /\ (d.dirty => r.vec.noVz) /\ OldRegs(d, fp) /\ OldXmms(d)
  BY <1>3 DEF Pushed, Quiet, OldRegs, OldXmms
<1>9. QED BY <1>1, <1>3, <1>7, <1>8 DEF Pushed

LEMMA PushTwo ==
  ASSUME NEW c, NEW r, NEW s, NEW k \in Nat, NEW fp, Pushed(c, r, s, k, fp), Aligned(c.sp),
         s[k + 1] \in GeneralRegs, ~(fp /\ s[k + 1] = "rbp"),
         s[k + 2] \in GeneralRegs, ~(fp /\ s[k + 2] = "rbp")
  PROVE  Pushed(Exec(c, Push(<<s[k + 1], s[k + 2]>>, r.ppx)), r, s, k + 2, fp)
<1>1. PICK b, d, e : /\ b = PushOne(c, s[k + 1], r.ppx) /\ d = PushOne(b, s[k + 2], r.ppx)
                     /\ e = Exec(c, Push(<<s[k + 1], s[k + 2]>>, r.ppx))
  OBVIOUS
<1>2. Pushed(b, r, s, k + 1, fp)
  BY <1>1, PushNext
<1>3. Pushed(d, r, s, k + 2, fp)
  <2>1. k + 1 \in Nat /\ (k + 1) + 1 = k + 2
    OBVIOUS
  <2>2. s[(k + 1) + 1] \in GeneralRegs /\ ~(fp /\ s[(k + 1) + 1] = "rbp")
    BY <2>1
  <2>3. Pushed(PushOne(b, s[(k + 1) + 1], r.ppx), r, s, (k + 1) + 1, fp)
    BY <1>2, <2>1, <2>2, PushNext
  <2>4. QED BY <1>1, <2>1, <2>3
<1>4. IsMachine(d) /\ ~d.fault
  BY <1>3 DEF Pushed, Quiet
<1>5. /\ IsMachine(e) /\ e.sp = d.sp /\ e.stack = d.stack /\ e.xmm = d.xmm
      /\ e.reg = d.reg /\ e.dirty = d.dirty /\ ~e.fault
      /\ e.penalty = d.penalty /\ e.mixed = d.mixed
  BY <1>1, <1>4, PushTwoIs
<1>6. Pushed(e, r, s, k + 2, fp)
  BY <1>3, <1>5 DEF Pushed, Quiet, OldRegs, OldXmms, SavedCells
<1>7. QED BY <1>1, <1>6

LEMMA RunTwo ==
  ASSUME NEW c, NEW i, NEW j
  PROVE  Run(c, <<i, j>>) = Exec(Exec(c, i), j) /\ IsCode(<<i, j>>)
<1>1. Len(<<i, j>>) = 2 /\ <<i, j>>[1] = i /\ <<i, j>>[2] = j /\ <<i, j>> \in Seq({i, j})
  OBVIOUS
<1>2. PICK f : Ran(f, c, <<i, j>>, 2) /\ Run(c, <<i, j>>) = f[2]
  BY <1>1, RunSteps
<1>3. /\ f[0] = c /\ f[0 + 1] = Exec(f[0], <<i, j>>[0 + 1])
      /\ f[1 + 1] = Exec(f[1], <<i, j>>[1 + 1])
  BY <1>2 DEF Ran
<1>4. f[1] = Exec(c, i) /\ f[2] = Exec(f[1], j)
  BY <1>1, <1>3
<1>5. Run(c, <<i, j>>) = Exec(Exec(c, i), j)
  BY <1>2, <1>4
<1>6. QED BY <1>1, <1>5 DEF IsCode

LEMMA RbpIsPushed ==
  ASSUME NEW c, NEW r, NEW s, NEW n, Asked(r), SaveFacts(r, s, n), Pushed(c, r, s, 0, FALSE)
  PROVE  Pushed(Run(c, PushRbp(r)), r, s, Start(r), r.framePointer)
<1>1. PICK i, j, b : /\ i = Optional("rbp" \in r.use, Push(<<"rbp">>, r.ppx))
                     /\ j = Optional(r.framePointer, Mov("rbp", "rsp"))
                     /\ b = Exec(c, i)
  OBVIOUS
<1>2. Run(c, PushRbp(r)) = Exec(b, j)
  BY <1>1, RunTwo DEF PushRbp
<1>3. Pushed(b, r, s, Start(r), FALSE)
  <2>1. CASE "rbp" \notin r.use
    <3>1. b = c
      BY <1>1, <2>1, NoCodeIs DEF Optional
    <3>2. QED BY <2>1, <3>1 DEF Start
  <2>2. CASE "rbp" \in r.use
    <3>1. s[1] = "rbp" /\ "rbp" \in GeneralRegs
      BY <2>2, GeneralRegsAre DEF SaveFacts, Names
    <3>2. b = PushOne(c, "rbp", r.ppx)
      BY <1>1, <2>2, PushIs DEF Optional
    <3>3. 0 \in Nat /\ s[0 + 1] \in GeneralRegs
      BY <3>1
    <3>4. Pushed(PushOne(c, s[0 + 1], r.ppx), r, s, 0 + 1, FALSE)
      BY <3>3, PushNext
    <3>5. s[0 + 1] = "rbp" /\ 0 + 1 = 1 /\ Start(r) = 1
      BY <2>2, <3>1 DEF Start
    <3>6. QED BY <3>2, <3>4, <3>5
  <2>3. QED BY <2>1, <2>2
<1>4. CASE ~r.framePointer
  <2>1. Exec(b, j) = b
    BY <1>1, <1>4, NoCodeIs DEF Optional
  <2>2. QED BY <1>2, <1>3, <1>4, <2>1 DEF Pushed, OldRegs
<1>5. CASE r.framePointer
  <2>1. "rbp" \in r.use /\ Start(r) = 1
    BY <1>5 DEF Asked, Start
  <2>2. IsMachine(b) /\ b.sp = -8
    BY <1>3, <2>1 DEF Pushed
  <2>3. "rbp" \in GeneralRegs
    BY GeneralRegsAre DEF Names
  <2>4. PICK d, v : d = Exec(b, Mov("rbp", "rsp")) /\ d = Exec(b, j) /\ v = <<"sp", b.sp>>
    BY <1>1, <1>5 DEF Optional
  <2>5. /\ IsMachine(d) /\ d.sp = b.sp /\ d.stack = b.stack /\ d.xmm = b.xmm
        /\ d.reg = [b.reg EXCEPT !["rbp"] = v]
        /\ d.dirty = b.dirty /\ d.fault = b.fault /\ d.penalty = b.penalty /\ d.mixed = b.mixed
    BY <2>2, <2>3, <2>4, MovIs
  <2>6. DOMAIN b.reg = GeneralRegs
    BY <2>2 DEF IsMachine
  <2>7. OldRegs(d, TRUE)
    <3>1. <<"sp", b.sp>> = <<"sp", -8>>
      BY <2>2
    <3>2. d.reg = [b.reg EXCEPT !["rbp"] = <<"sp", -8>>]
      BY <2>4, <2>5, <3>1
    <3>3. QED BY <1>3, <2>6, <3>2 DEF Pushed, OldRegs
  <2>8. Pushed(d, r, s, Start(r), TRUE)
    BY <1>3, <2>5, <2>7 DEF Pushed, Quiet, OldXmms, SavedCells
  <2>9. QED BY <1>2, <1>5, <2>4, <2>7, <2>8 DEF Pushed, OldRegs
<1>6. QED BY <1>4, <1>5

\* Registers that the loop over saveRegs_ has pushed when it comes to the i-th.
Ahead(r, start, i, n) == IF i > start /\ PairUp(r, i - 1, n) THEN i + 1 ELSE i

\* The code of the loop: a push2, nothing where the push2 before has pushed
\* the register, or a push.
PushesAre(code, r, s, n, st) ==
  /\ Len(code) = n - st /\ IsCode(code)
  /\ \A k \in 0..((n - st) - 1) :
       LET i == st + k IN
       /\ PairUp(r, i, n) => code[k + 1] = Push(<<s[i + 1], s[i + 2]>>, r.ppx)
       /\ ~PairUp(r, i, n) /\ i > st /\ PairUp(r, i - 1, n) => code[k + 1] = NoCode
       /\ ~PairUp(r, i, n) /\ ~(i > st /\ PairUp(r, i - 1, n)) =>
            code[k + 1] = Push(<<s[i + 1]>>, r.ppx)

LEMMA PushesItem ==
  ASSUME NEW r, NEW s, NEW n \in Nat, n = Len(s), NEW st \in {0, 1}, st <= n,
         NEW code, code = Pushes(r, s, st)
  PROVE  PushesAre(code, r, s, n, st)
<1> DEFINE at(i) == CASE PairUp(r, i, n) -> Push(<<s[i + 1], s[i + 2]>>, r.ppx)
                      [] i > st /\ PairUp(r, i - 1, n) -> NoCode
                      [] OTHER -> Push(<<s[i + 1]>>, r.ppx)
           N == n - st
<1>1. N \in Nat
  OBVIOUS
<1>2. code = [k \in 1..N |-> at(st + k - 1)]
  BY DEF Pushes
<1>3. ASSUME NEW k \in 0..(N - 1) PROVE code[k + 1] = at(st + k)
  <2>1. k + 1 \in 1..N /\ st + (k + 1) - 1 = st + k
    OBVIOUS
  <2> HIDE DEF at, N
  <2>2. code[k + 1] = at(st + (k + 1) - 1)
    BY <1>2, <2>1
  <2>3. QED BY <2>1, <2>2
<1>4. Len(code) = N /\ IsCode(code)
  <2> HIDE DEF at, N
  <2> DEFINE S == {at(st + k - 1) : k \in 1..N}
  <2>1. code \in [1..N -> S]
    BY <1>2
  <2> HIDE DEF S
  <2>2. code \in Seq(S) /\ Len(code) = N
    BY <1>1, <2>1
  <2>3. QED BY <2>2 DEF IsCode
<1>5. ASSUME NEW i \in Nat
      PROVE  /\ PairUp(r, i, n) => at(i) = Push(<<s[i + 1], s[i + 2]>>, r.ppx)
             /\ ~PairUp(r, i, n) /\ i > st /\ PairUp(r, i - 1, n) => at(i) = NoCode
             /\ ~PairUp(r, i, n) /\ ~(i > st /\ PairUp(r, i - 1, n)) =>
                  at(i) = Push(<<s[i + 1]>>, r.ppx)
  <2>1. CASE PairUp(r, i, n)
    <3>1. ~PairUp(r, i - 1, n)
      BY <2>1 DEF PairUp
    <3>2. QED BY <2>1, <3>1, Zenon
  <2>2. CASE ~PairUp(r, i, n) /\ i > st /\ PairUp(r, i - 1, n)
    BY <2>2, Zenon
  <2>3. CASE ~PairUp(r, i, n) /\ ~(i > st /\ PairUp(r, i - 1, n))
    BY <2>3, Zenon
  <2>4. QED BY <2>1, <2>2, <2>3
<1> HIDE DEF at
<1>6. ASSUME NEW k \in 0..(N - 1)
      PROVE  LET i == st + k IN
             /\ PairUp(r, i, n) => code[k + 1] = Push(<<s[i + 1], s[i + 2]>>, r.ppx)
             /\ ~PairUp(r, i, n) /\ i > st /\ PairUp(r, i - 1, n) => code[k + 1] = NoCode
             /\ ~PairUp(r, i, n) /\ ~(i > st /\ PairUp(r, i - 1, n)) =>
                  code[k + 1] = Push(<<s[i + 1]>>, r.ppx)
  <2>1. st + k \in Nat
    BY <1>1
  <2>2. code[k + 1] = at(st + k)
    BY <1>3
  <2>3. QED BY <1>5, <2>1, <2>2
<1>7. QED BY <1>4, <1>6 DEF PushesAre

LEMMA PushesRun ==
  ASSUME NEW c, NEW r, NEW s, NEW n, n = Len(s), Asked(r), SaveFacts(r, s, n),
         Pushed(c, r, s, Start(r), r.framePointer)
  PROVE  Pushed(Run(c, Pushes(r, s, Start(r))), r, s, n, r.framePointer)
<1>1. PICK st, fp, code : /\ st = Start(r) /\ fp = r.framePointer
                          /\ code = Pushes(r, s, st)
  OBVIOUS
<1>2. /\ n \in Nat /\ st \in {0, 1} /\ st <= n
      /\ \A j \in 1..n : s[j] \in GeneralRegs
      /\ \A j \in (st + 1)..n : ~(fp /\ s[j] = "rbp")
  BY <1>1 DEF SaveFacts, Start, Asked
<1>3. PICK N : N = n - st /\ N \in Nat
  <2>1. n - st \in Nat
    BY <1>2
  <2>2. QED BY <2>1
<1>4. PushesAre(code, r, s, n, st) /\ Len(code) = N
  <2>1. PushesAre(code, r, s, n, st)
    BY <1>1, <1>2, PushesItem
  <2>2. QED BY <1>3, <2>1 DEF PushesAre
<1>5. PICK f : Ran(f, c, code, N) /\ Run(c, code) = f[N]
  BY <1>4, RunSteps
<1> DEFINE T == {k \in 0..N : Pushed(f[k], r, s, Ahead(r, st, st + k, n), fp)}
<1>6. 0 \in T
  <2>1. Ahead(r, st, st + 0, n) = st
    BY <1>2 DEF Ahead
  <2>2. f[0] = c
    BY <1>5 DEF Ran
  <2>3. QED BY <1>1, <1>3, <2>1, <2>2
<1>7. ASSUME NEW k \in 0..(N - 1), k \in T PROVE k + 1 \in T
  <2>1. PICK i \in Nat : i = st + k /\ i + 1 = st + (k + 1) /\ i >= st /\ i < n
    BY <1>2, <1>3
  <2>2. Pushed(f[k], r, s, Ahead(r, st, i, n), fp)
    BY <1>7, <2>1
  <2>3. f[k + 1] = Exec(f[k], code[k + 1])
    BY <1>5 DEF Ran
  <2>4. k + 1 \in 0..N /\ i + 1 \in 1..n /\ i + 1 \in (st + 1)..n
    BY <1>2, <1>3, <2>1
  <2>5. Pushed(f[k + 1], r, s, Ahead(r, st, i + 1, n), fp)
    <3>1. CASE PairUp(r, i, n)
      <4>1. i % 2 = 1 /\ i + 1 < n /\ (i - 1) % 2 = 0
        BY <3>1 DEF PairUp
      <4>2. Ahead(r, st, i, n) = i /\ Ahead(r, st, i + 1, n) = i + 2
        <5>1. ~PairUp(r, i - 1, n)
          BY <4>1 DEF PairUp
        <5>2. i + 1 > st /\ (i + 1) - 1 = i /\ (i + 1) + 1 = i + 2
          BY <1>2, <2>1
        <5>3. QED BY <3>1, <5>1, <5>2 DEF Ahead
      <4>3. code[k + 1] = Push(<<s[i + 1], s[i + 2]>>, r.ppx)
        BY <1>3, <1>4, <2>1, <3>1 DEF PushesAre
      <4>4. i + 2 \in 1..n /\ i + 2 \in (st + 1)..n /\ (i + 1) + 1 = i + 2
        BY <1>2, <2>1, <4>1
      <4>5. Aligned(f[k].sp)
        <5>1. f[k].sp = -8 * i
          BY <2>2, <4>2 DEF Pushed
        <5>2. (-8 * i + 8) % 16 = 0
          BY <4>1
        <5>3. QED BY <5>1, <5>2 DEF Aligned
      <4>6. Pushed(Exec(f[k], Push(<<s[i + 1], s[i + 2]>>, r.ppx)), r, s, i + 2, fp)
        <5>1. /\ s[i + 1] \in GeneralRegs /\ ~(fp /\ s[i + 1] = "rbp")
              /\ s[i + 2] \in GeneralRegs /\ ~(fp /\ s[i + 2] = "rbp")
          BY <1>2, <2>4, <4>4
        <5>2. QED BY <2>2, <4>2, <4>5, <5>1, PushTwo
      <4>7. QED BY <1>1, <2>3, <4>2, <4>3, <4>6
    <3>2. CASE ~PairUp(r, i, n) /\ i > st /\ PairUp(r, i - 1, n)
      <4>1. code[k + 1] = NoCode
        BY <1>3, <1>4, <2>1, <3>2 DEF PushesAre
      <4>2. Ahead(r, st, i, n) = i + 1 /\ Ahead(r, st, i + 1, n) = i + 1
        <5>1. (i + 1) - 1 = i
          BY <2>1
        <5>2. QED BY <3>2, <5>1 DEF Ahead
      <4>3. QED BY <2>2, <2>3, <4>1, <4>2, NoCodeIs
    <3>3. CASE ~PairUp(r, i, n) /\ ~(i > st /\ PairUp(r, i - 1, n))
      <4>1. f[k + 1] = PushOne(f[k], s[i + 1], r.ppx)
        <5>1. Exec(f[k], Push(<<s[i + 1]>>, r.ppx)) = PushOne(f[k], s[i + 1], r.ppx)
          BY PushIs
        <5>2. code[k + 1] = Push(<<s[i + 1]>>, r.ppx)
          BY <1>3, <1>4, <2>1, <3>3 DEF PushesAre
        <5>3. QED BY <2>3, <5>1, <5>2
      <4>2. Ahead(r, st, i, n) = i /\ Ahead(r, st, i + 1, n) = i + 1
        <5>1. (i + 1) - 1 = i
          BY <2>1
        <5>2. QED BY <3>3, <5>1 DEF Ahead
      <4>3. QED BY <1>1, <1>2, <2>2, <2>4, <4>1, <4>2, PushNext
    <3>4. QED BY <3>1, <3>2, <3>3
  <2>6. QED BY <2>1, <2>4, <2>5
<1>8. N \in T
  <2>1. \A k \in 0..N : k \in T
    <3> HIDE DEF T
    <3>1. QED BY <1>3, <1>6, <1>7, UpTo
  <2>2. QED BY <1>3, <2>1
<1>9. Ahead(r, st, st + N, n) = n
  <2>1. st + N = n /\ ~((n - 1) + 1 < n)
    BY <1>2, <1>3
  <2>2. ~PairUp(r, n - 1, n)
    BY <2>1 DEF PairUp
  <2>3. QED BY <2>1, <2>2 DEF Ahead
<1>10. QED BY <1>1, <1>5, <1>8, <1>9

-----------------------------------------------------------------------------
(* The frame below the saved registers.                                    *)

\* Sizes of the frame of n saved registers and P bytes: it holds the local
\* stack and above it the saved xmm registers, aligned.
Sizes(r, n, P, V, vp) ==
  /\ V \in 0..10 /\ vp \in Nat /\ P \in Nat /\ r.stack <= vp /\ r.stack <= P
  /\ V > 0 => /\ vp + 16 * V <= P
              /\ \A k \in 0..10 : Aligned((-8 * n - P) + (vp + k * 16))
  /\ V > 0 \/ r.stack > 0 => Aligned(-8 * n - P)
  /\ r.abi = "win" => \A i \in 6..15 : i - 5 > V => i >= r.vec.num

LEMMA SizesAre ==
  ASSUME NEW r, Asked(r), NEW n \in Nat
  PROVE  Sizes(r, n, P_(r, n), vecSaveNum(r), vecPos(r))
<1>1. PICK e, P, V, vp, num : /\ e = r.stack /\ P = P_(r, n) /\ V = vecSaveNum(r) /\ vp = vecPos(r)
                              /\ num = r.vec.num
  OBVIOUS
<1>2. e \in Nat /\ num \in 0..63
  BY <1>1, AskedFacts
<1>3. /\ V = (IF r.abi = "win" /\ num > 6 THEN (IF num < 16 THEN num ELSE 16) - 6 ELSE 0)
      /\ vp = ((e + 15) \div 16) * 16
  BY <1>1 DEF vecSaveNum, vecPos
<1>4. V \in 0..10 /\ (r.abi = "win" => \A i \in 6..15 : i - 5 > V => i >= num)
  BY <1>2, <1>3
<1>5. vp \in Nat /\ e <= vp /\ vp % 16 = 0
  BY <1>2, <1>3
<1>6. CASE V > 0
  <2>1. P = vp + V * 16 + (IF n % 2 = 0 THEN 8 ELSE 0)
    BY <1>1, <1>6 DEF P_
  <2>2. P \in Nat /\ vp + 16 * V <= P /\ e <= P
    BY <1>2, <1>4, <1>5, <2>1
  <2>3. ((-8 * n - P) + 8) % 16 = 0
    BY <1>4, <1>5, <2>1
  <2>4. \A k \in 0..10 : (((-8 * n - P) + (vp + k * 16)) + 8) % 16 = 0
    BY <1>4, <1>5, <2>2, <2>3
  <2>5. QED BY <1>1, <1>4, <1>5, <2>2, <2>3, <2>4 DEF Sizes, Aligned
<1>7. CASE V = 0
  <2>1. PICK w : w = (e + 7) \div 8
    OBVIOUS
  <2>2. P = (IF w > 0 /\ w % 2 = n % 2 THEN w + 1 ELSE w) * 8
    BY <1>1, <1>7, <2>1 DEF P_
  <2>3. w \in Nat /\ e <= w * 8
    BY <1>2, <2>1
  <2>4. PICK u \in Nat : P = u * 8 /\ u >= w /\ (w > 0 => u % 2 # n % 2)
    <3>1. CASE w > 0 /\ w % 2 = n % 2
      <4>1. P = (w + 1) * 8 /\ w + 1 \in Nat /\ w + 1 >= w /\ (w + 1) % 2 # n % 2
        BY <2>2, <2>3, <3>1
      <4>2. QED BY <4>1
    <3>2. CASE ~(w > 0 /\ w % 2 = n % 2)
      <4>1. P = w * 8
        BY <2>2, <3>2
      <4>2. QED BY <2>3, <3>2, <4>1
    <3>3. QED BY <3>1, <3>2
  <2>5. P \in Nat /\ e <= P
    BY <1>2, <2>3, <2>4
  <2>6. ASSUME e > 0 PROVE ((-8 * n - P) + 8) % 16 = 0
    <3>1. u % 2 # n % 2
      BY <1>2, <2>1, <2>4, <2>6
    <3>2. (u + n) % 2 = 1
      BY <3>1
    <3>3. QED BY <2>4, <3>2
  <2>7. QED BY <1>1, <1>4, <1>5, <1>7, <2>5, <2>6 DEF Sizes, Aligned
<1>8. QED BY <1>4, <1>6, <1>7

\* k xmm registers are in their cells above vp.
SavedVecs(c, vp, k) ==
  \A j \in 1..k : LET a == c.sp + (vp + (j - 1) * 16) IN
                  /\ Holds(c.stack, a, VecCell(<<"old", 5 + j>>))
                  /\ Holds(c.stack, a + 8, VecCell(<<"old", 5 + j>>))

\* rsp is below the frame, and k xmm registers are stored.
Framed(c, r, s, n, P, vp, k) ==
  /\ IsMachine(c) /\ Quiet(c) /\ (c.dirty => r.vec.noVz)
  /\ OldRegs(c, r.framePointer) /\ OldXmms(c) /\ c.sp = -8 * n - P
  /\ SavedCells(c, r, s, n) /\ SavedVecs(c, vp, k)

LEMMA RspIsMoved ==
  ASSUME NEW c, NEW r, NEW s, NEW n \in Nat, NEW P \in Nat, NEW vp,
         Pushed(c, r, s, n, r.framePointer)
  PROVE  Framed(Run(c, <<Optional(P > 0, AddRsp(-P))>>), r, s, n, P, vp, 0)
<1>1. PICK d : d = Exec(c, Optional(P > 0, AddRsp(-P)))
  OBVIOUS
<1>2. Run(c, <<Optional(P > 0, AddRsp(-P))>>) = d
  BY <1>1, RunOne
<1>3. IsMachine(c) /\ c.sp = -8 * n
  BY DEF Pushed
<1>4. /\ IsMachine(d) /\ d.sp = -8 * n - P /\ d.stack = c.stack /\ d.xmm = c.xmm
      /\ d.reg = c.reg /\ d.dirty = c.dirty /\ d.fault = c.fault
      /\ d.penalty = c.penalty /\ d.mixed = c.mixed
  <2>1. CASE P > 0
    <3>1. PICK q \in Int : q = -P
      OBVIOUS
    <3>2. d = Exec(c, AddRsp(q))
      BY <1>1, <2>1, <3>1 DEF Optional
    <3>3. c.sp + q = -8 * n - P
      BY <1>3, <3>1
    <3>4. QED BY <1>3, <3>2, <3>3, AddRspIs
  <2>2. CASE P = 0
    <3>1. d = c
      BY <1>1, <2>2, NoCodeIs DEF Optional
    <3>2. QED BY <1>3, <2>2, <3>1
  <2>3. QED BY <2>1, <2>2
<1>5. Quiet(d) /\ (d.dirty => r.vec.noVz) /\ OldRegs(d, r.framePointer) /\ OldXmms(d)
      /\ SavedCells(d, r, s, n)
  BY <1>4 DEF Pushed, Quiet, OldRegs, OldXmms, SavedCells
<1>6. SavedVecs(d, vp, 0)
  BY DEF SavedVecs
<1>7. QED BY <1>2, <1>4, <1>5, <1>6 DEF Framed

LEMMA MoveVecsItem ==
  ASSUME NEW r, NEW op, vecSaveNum(r) \in Nat
  PROVE  LET code == MoveVecs(r, op) IN
         /\ Len(code) = vecSaveNum(r) /\ IsCode(code)
         /\ \A k \in 1..vecSaveNum(r) :
              code[k] = Vec(op, 5 + k, vecPos(r) + (k - 1) * 16, r.vec.noVz)
<1> DEFINE at(k) == Vec(op, 5 + k, vecPos(r) + (k - 1) * 16, r.vec.noVz)
           S == {at(k) : k \in 1..vecSaveNum(r)}
<1>1. PICK code, V : code = MoveVecs(r, op) /\ V \in Nat /\ V = vecSaveNum(r)
  OBVIOUS
<1>2. code = [k \in 1..V |-> at(k)]
  BY <1>1 DEF MoveVecs, Vec
<1> HIDE DEF at
<1>3. code \in [1..V -> S]
  BY <1>1, <1>2
<1> HIDE DEF S
<1>4. code \in Seq(S) /\ Len(code) = V
  BY <1>1, <1>3
<1>5. \A k \in 1..V : code[k] = at(k)
  BY <1>2
<1>6. QED BY <1>1, <1>4, <1>5 DEF IsCode, at

\* A cell of the frame that is written is none of those above it.
LEMMA StoreNext ==
  ASSUME NEW c, NEW r, NEW s, NEW n \in Nat, NEW P, NEW V, NEW vp, Sizes(r, n, P, V, vp),
         NEW k \in 0..(V - 1), Framed(c, r, s, n, P, vp, k)
  PROVE  Framed(Exec(c, Vec("store", 5 + (k + 1), vp + ((k + 1) - 1) * 16, r.vec.noVz)),
                r, s, n, P, vp, k + 1)
<1>1. PICK disp, x, a, d, vex, v :
        /\ disp = vp + ((k + 1) - 1) * 16 /\ x = 5 + (k + 1) /\ a = c.sp + disp
        /\ vex = r.vec.noVz /\ d = Exec(c, Vec("store", x, disp, vex))
        /\ v = VecCell(<<"old", x>>)
  OBVIOUS
<1>2. /\ V \in 0..10 /\ vp \in Nat /\ P \in Nat /\ vp + 16 * V <= P /\ k \in 0..10
      /\ \A l \in 0..10 : Aligned((-8 * n - P) + (vp + l * 16))
  BY DEF Sizes
<1>3. IsMachine(c) /\ c.sp = -8 * n - P /\ (c.dirty => vex) /\ c.sp \in Int
  BY <1>1, <1>2 DEF Framed
<1>4. disp \in Int /\ disp = vp + k * 16 /\ x \in 0..15
  BY <1>1, <1>2
<1>5. Aligned(c.sp + disp)
  BY <1>2, <1>3, <1>4
<1>6. c.xmm[x] = <<"old", x>>
  BY <1>4 DEF Framed, OldXmms
<1>7. /\ IsMachine(d) /\ d.sp = c.sp /\ d.stack = Set(Set(c.stack, a, v), a + 8, v)
      /\ d.xmm = c.xmm /\ d.reg = c.reg /\ d.dirty = c.dirty
      /\ (d.fault <=> c.fault) /\ (d.penalty <=> c.penalty) /\ d.mixed = c.mixed
  <2>1. v = VecCell(c.xmm[x]) /\ Aligned(a)
    BY <1>1, <1>5, <1>6
  <2>2. IsMachine(c) /\ a = c.sp + disp /\ Aligned(a) /\ (c.dirty => vex) /\ v = VecCell(c.xmm[x])
    BY <1>1, <1>3, <2>1
  <2>3. LET e == Exec(c, Vec("store", x, disp, vex)) IN
        /\ IsMachine(e) /\ e.sp = c.sp /\ e.stack = Set(Set(c.stack, a, v), a + 8, v)
        /\ e.xmm = c.xmm /\ e.reg = c.reg /\ e.dirty = c.dirty
        /\ (e.fault <=> c.fault) /\ (e.penalty <=> c.penalty) /\ e.mixed = c.mixed
    BY <2>2, StoreIs
  <2>4. QED BY <1>1, <2>3
<1>8. ASSUME NEW b, NEW w, b # a, b # a + 8, Holds(c.stack, b, w) PROVE Holds(d.stack, b, w)
  BY <1>7, <1>8, SetHolds
<1>9. Holds(d.stack, a, v) /\ Holds(d.stack, a + 8, v)
  <2>1. a # a + 8
    BY <1>1, <1>3, <1>4
  <2>2. QED BY <1>7, <2>1, SetHolds
<1>10. a = (-8 * n - P) + (vp + k * 16) /\ a + 8 < -8 * n /\ a \in Int
  BY <1>1, <1>2, <1>3, <1>4
<1>11. SavedCells(d, r, s, n)
  <2>1. 0 # a /\ 0 # a + 8
    BY <1>10
  <2>2. ASSUME NEW j \in 1..n PROVE -8 * j # a /\ -8 * j # a + 8
    BY <1>10
  <2>3. QED BY <1>8, <2>1, <2>2 DEF Framed, SavedCells
<1>12. SavedVecs(d, vp, k + 1)
  <2>1. ASSUME NEW j \in 1..(k + 1)
        PROVE  LET b == c.sp + (vp + (j - 1) * 16) IN
               /\ Holds(d.stack, b, VecCell(<<"old", 5 + j>>))
               /\ Holds(d.stack, b + 8, VecCell(<<"old", 5 + j>>))
    <3>1. PICK b : b = c.sp + (vp + (j - 1) * 16)
      OBVIOUS
    <3>2. CASE j = k + 1
      <4>1. b = a /\ 5 + j = x
        BY <1>1, <3>1, <3>2
      <4>2. QED BY <1>1, <1>9, <3>1, <4>1
    <3>3. CASE j \in 1..k
      <4>1. b + 8 < a /\ b \in Int
        BY <1>1, <1>2, <1>3, <1>4, <3>1, <3>3
      <4>2. b # a /\ b # a + 8 /\ b + 8 # a /\ b + 8 # a + 8
        BY <1>10, <4>1
      <4>3. /\ Holds(c.stack, b, VecCell(<<"old", 5 + j>>))
            /\ Holds(c.stack, b + 8, VecCell(<<"old", 5 + j>>))
        BY <3>1, <3>3 DEF Framed, SavedVecs
      <4>4. QED BY <1>8, <3>1, <4>2, <4>3
    <3>4. QED BY <3>2, <3>3
  <2>2. QED BY <1>7, <2>1 DEF SavedVecs
<1>13. Quiet(d) /\ (d.dirty => r.vec.noVz) /\ OldRegs(d, r.framePointer) /\ OldXmms(d)
  BY <1>7 DEF Framed, Quiet, OldRegs, OldXmms
<1>14. QED BY <1>1, <1>3, <1>7, <1>11, <1>12, <1>13 DEF Framed

LEMMA StoresRun ==
  ASSUME NEW c, NEW r, NEW s, NEW n \in Nat, NEW P, NEW V, NEW vp, Sizes(r, n, P, V, vp),
         V = vecSaveNum(r), vp = vecPos(r), Framed(c, r, s, n, P, vp, 0)
  PROVE  Framed(Run(c, MoveVecs(r, "store")), r, s, n, P, vp, V)
<1>1. PICK code : code = MoveVecs(r, "store")
  OBVIOUS
<1>2. V \in Nat
  BY DEF Sizes
<1>3. /\ Len(code) = V
      /\ \A k \in 1..V : code[k] = Vec("store", 5 + k, vp + (k - 1) * 16, r.vec.noVz)
  BY <1>1, <1>2, MoveVecsItem
<1>4. PICK f : Ran(f, c, code, V) /\ Run(c, code) = f[V]
  BY <1>2, <1>3, RunSteps
<1> DEFINE T == {k \in 0..V : Framed(f[k], r, s, n, P, vp, k)}
<1>5. 0 \in T
  BY <1>2, <1>4 DEF Ran
<1>6. ASSUME NEW k \in 0..(V - 1), k \in T PROVE k + 1 \in T
  <2>1. f[k + 1] = Exec(f[k], code[k + 1]) /\ k + 1 \in 1..V /\ k + 1 \in 0..V
    BY <1>2, <1>4 DEF Ran
  <2>2. code[k + 1] = Vec("store", 5 + (k + 1), vp + ((k + 1) - 1) * 16, r.vec.noVz)
    BY <1>3, <2>1
  <2>3. Framed(f[k + 1], r, s, n, P, vp, k + 1)
    BY <1>6, <2>1, <2>2, StoreNext
  <2>4. QED BY <2>1, <2>3
<1>7. \A k \in 0..V : k \in T
  <2> HIDE DEF T
  <2>1. QED BY <1>2, <1>5, <1>6, UpTo
<1>8. QED BY <1>1, <1>2, <1>4, <1>7

-----------------------------------------------------------------------------
(* The arguments.                                                          *)

LEMMA SlotPlaces ==
  ASSUME NEW abi \in AbiNames
  PROVE  LET tbl == getRegSlotTbl(abi) IN
         /\ \A k \in 1..4 : tbl[k].target \in Targets /\ tbl[k].alt = Alt(abi, tbl[k].target)
         /\ \A k, l \in 1..4 : tbl[k].target = tbl[l].target => k = l
         /\ \A i \in 1..4 : LET x == getRegEntryTbl(abi)[i] IN
              /\ x \in Targets => \E k \in 1..4 : tbl[k].target = x /\ tbl[k].pos = i - 1
              /\ \A y \in Targets : Alt(abi, y) # x
              /\ x = ArgumentRegs(abi)[i] /\ x \in Names /\ x # "none" /\ x # "rbp"
              /\ x \in Targets => Alt(abi, x) # "none"
<1>1. PICK tbl, entry, arg : /\ tbl = getRegSlotTbl(abi) /\ entry = getRegEntryTbl(abi)
                             /\ arg = ArgumentRegs(abi)
  OBVIOUS
<1>2. \A k \in 1..4 : k = 1 \/ k = 2 \/ k = 3 \/ k = 4
  OBVIOUS
<1>3. CASE abi = "win"
  <2>1. /\ tbl[1] = Slot("rcx", 0, "r10") /\ tbl[2] = Slot("rdx", 1, "r11")
        /\ tbl[3] = Slot("rdi", 6, "none") /\ tbl[4] = Slot("rsi", 7, "none")
    BY <1>1, <1>3 DEF getRegSlotTbl
  <2>2. /\ tbl[1].target = "rcx" /\ tbl[1].pos = 0 /\ tbl[1].alt = "r10"
        /\ tbl[2].target = "rdx" /\ tbl[2].pos = 1 /\ tbl[2].alt = "r11"
        /\ tbl[3].target = "rdi" /\ tbl[3].alt = "none"
        /\ tbl[4].target = "rsi" /\ tbl[4].alt = "none"
    BY <2>1 DEF Slot
  <2>3. /\ entry[1] = "rcx" /\ entry[2] = "rdx" /\ entry[3] = "r8" /\ entry[4] = "r9"
    BY <1>1, <1>3, EntryTable DEF WinEntries
  <2>4. arg[1] = "rcx" /\ arg[2] = "rdx" /\ arg[3] = "r8" /\ arg[4] = "r9"
    BY <1>1, <1>3 DEF ArgumentRegs
  <2>5. \A y \in Targets : Alt(abi, y) \in {"r10", "r11", "none"}
    BY <1>3 DEF Targets, Alt
  <2>6. /\ Alt(abi, "rcx") = "r10" /\ Alt(abi, "rdx") = "r11"
        /\ Alt(abi, "rdi") = "none" /\ Alt(abi, "rsi") = "none"
    BY <1>3 DEF Alt
  <2>7. /\ \A k \in 1..4 : tbl[k].target \in Targets /\ tbl[k].alt = Alt(abi, tbl[k].target)
        /\ \A k, l \in 1..4 : tbl[k].target = tbl[l].target => k = l
    BY <1>2, <2>2, <2>6 DEF Targets
  <2>8. ASSUME NEW i \in 1..4, NEW x, x = entry[i]
        PROVE  /\ x \in Targets => \E k \in 1..4 : tbl[k].target = x /\ tbl[k].pos = i - 1
               /\ \A y \in Targets : Alt(abi, y) # x
               /\ x = arg[i] /\ x \in Names /\ x # "none" /\ x # "rbp"
               /\ x \in Targets => Alt(abi, x) # "none"
    <3>1. x \in {"rcx", "rdx", "r8", "r9"} /\ x = arg[i]
      BY <1>2, <2>3, <2>4, <2>8
    <3>2. x \in Targets => \E k \in 1..4 : tbl[k].target = x /\ tbl[k].pos = i - 1
      BY <1>2, <2>2, <2>3, <2>8 DEF Targets
    <3>3. QED BY <2>5, <2>6, <3>1, <3>2 DEF Targets, Names
  <2>9. QED BY <1>1, <2>7, <2>8
<1>4. CASE abi = "sysv"
  <2>1. /\ tbl[1] = Slot("rcx", 3, "r10") /\ tbl[2] = Slot("rdx", 2, "r11")
        /\ tbl[3] = Slot("rdi", 0, "r8") /\ tbl[4] = Slot("rsi", 1, "r9")
    BY <1>1, <1>4 DEF getRegSlotTbl
  <2>2. /\ tbl[1].target = "rcx" /\ tbl[1].pos = 3 /\ tbl[1].alt = "r10"
        /\ tbl[2].target = "rdx" /\ tbl[2].pos = 2 /\ tbl[2].alt = "r11"
        /\ tbl[3].target = "rdi" /\ tbl[3].pos = 0 /\ tbl[3].alt = "r8"
        /\ tbl[4].target = "rsi" /\ tbl[4].pos = 1 /\ tbl[4].alt = "r9"
    BY <2>1 DEF Slot
  <2>3. entry[1] = "rdi" /\ entry[2] = "rsi" /\ entry[3] = "rdx" /\ entry[4] = "rcx"
    BY <1>1, <1>4, EntryTable DEF SysvEntries
  <2>4. arg[1] = "rdi" /\ arg[2] = "rsi" /\ arg[3] = "rdx" /\ arg[4] = "rcx"
    BY <1>1, <1>4 DEF ArgumentRegs
  <2>5. \A y \in Targets : Alt(abi, y) \in {"r8", "r9", "r10", "r11"}
    BY <1>4 DEF Targets, Alt
  <2>6. /\ Alt(abi, "rcx") = "r10" /\ Alt(abi, "rdx") = "r11"
        /\ Alt(abi, "rdi") = "r8" /\ Alt(abi, "rsi") = "r9"
    BY <1>4 DEF Alt
  <2>7. /\ \A k \in 1..4 : tbl[k].target \in Targets /\ tbl[k].alt = Alt(abi, tbl[k].target)
        /\ \A k, l \in 1..4 : tbl[k].target = tbl[l].target => k = l
    BY <1>2, <2>2, <2>6 DEF Targets
  <2>8. ASSUME NEW i \in 1..4, NEW x, x = entry[i]
        PROVE  /\ x \in Targets => \E k \in 1..4 : tbl[k].target = x /\ tbl[k].pos = i - 1
               /\ \A y \in Targets : Alt(abi, y) # x
               /\ x = arg[i] /\ x \in Names /\ x # "none" /\ x # "rbp"
               /\ x \in Targets => Alt(abi, x) # "none"
    <3>1. x \in {"rdi", "rsi", "rdx", "rcx"} /\ x = arg[i]
      BY <1>2, <2>3, <2>4, <2>8
    <3>2. \E k \in 1..4 : tbl[k].target = x /\ tbl[k].pos = i - 1
      BY <1>2, <2>2, <2>3, <2>8
    <3>3. QED BY <2>5, <2>6, <3>1, <3>2 DEF Targets, Names
  <2>9. QED BY <1>1, <2>7, <2>8
<1>5. QED BY <1>3, <1>4 DEF AbiNames

\* The first four places are never skipped: the i-th parameter has the i-th.
LEMMA FirstRegs ==
  ASSUME NEW r, Asked(r), NEW i \in 1..4
  PROVE  LET x == getRegEntryTbl(r.abi)[i] IN
         getRegs(r)[i] = (IF x \in r.use THEN Alt(r.abi, x) ELSE x) /\ (x \in r.use => x \in Targets)
<1>1. PICK regs, seq : regs = getRegs(r) /\ seq = At(r)
  OBVIOUS
<1>2. r.abi \in AbiNames /\ r.use \subseteq UseRegs
  BY AskedFacts
<1>3. ASSUME NEW j \in 1..4 PROVE seq[j] # "none"
  <2>1. \A y \in UseRegs : Taken(r.abi, y) # j
    BY <1>2 DEF UseRegs, Taken, AbiNames
  <2>2. QED BY <1>1, <1>2, <2>1, AtIs
<1>4. PICK p : Placed(p, regs, seq, 14)
  BY <1>1, RegsFacts
<1>5. PICK n \in Nat : n = Len(regs)
  BY <1>1, RegsFacts
<1>6. /\ \A k \in 1..n : p[k] \in 1..14 /\ regs[k] = seq[p[k]]
      /\ \A k, l \in 1..n : k < l => p[k] < p[l]
      /\ \A j \in 1..14 : seq[j] # "none" => \E k \in 1..n : p[k] = j
  BY <1>4, <1>5 DEF Placed
<1>7. ASSUME NEW j \in 1..4 PROVE \E k \in 1..n : p[k] = j
  BY <1>3, <1>6
<1>8. p[1] = 1 /\ 1 \in 1..n
  <2>1. PICK k \in 1..n : p[k] = 1
    BY <1>7
  <2>2. 1 \in 1..n
    BY <1>5, <2>1
  <2>3. p[1] \in 1..14 /\ (k > 1 => p[1] < p[k])
    BY <1>6, <2>2
  <2>4. QED BY <1>5, <2>1, <2>2, <2>3
<1>9. p[2] = 2 /\ 2 \in 1..n
  <2>1. PICK k \in 1..n : p[k] = 2
    BY <1>7
  <2>2. k > 1 /\ 2 \in 1..n
    BY <1>5, <1>8, <2>1
  <2>3. p[2] \in 1..14 /\ (k > 2 => p[2] < p[k]) /\ p[1] < p[2]
    BY <1>6, <1>8, <2>2
  <2>4. QED BY <1>5, <1>8, <2>1, <2>2, <2>3
<1>10. p[3] = 3 /\ 3 \in 1..n
  <2>1. PICK k \in 1..n : p[k] = 3
    BY <1>7
  <2>2. k > 2 /\ 3 \in 1..n
    BY <1>5, <1>8, <1>9, <2>1
  <2>3. p[3] \in 1..14 /\ (k > 3 => p[3] < p[k]) /\ p[2] < p[3]
    BY <1>6, <1>9, <2>2
  <2>4. QED BY <1>5, <1>9, <2>1, <2>2, <2>3
<1>11. p[4] = 4 /\ 4 \in 1..n
  <2>1. PICK k \in 1..n : p[k] = 4
    BY <1>7
  <2>2. k > 3 /\ 4 \in 1..n
    BY <1>5, <1>8, <1>9, <1>10, <2>1
  <2>3. p[4] \in 1..14 /\ (k > 4 => p[4] < p[k]) /\ p[3] < p[4]
    BY <1>6, <1>10, <2>2
  <2>4. QED BY <1>5, <1>10, <2>1, <2>2, <2>3
<1>12. regs[i] = seq[i]
  BY <1>6, <1>8, <1>9, <1>10, <1>11
<1>13. seq[i] # "none" /\ i \in 1..14
  BY <1>3
<1>14. QED BY <1>1, <1>2, <1>12, <1>13, AtIs

\* The k-th slot's parameter moves to its substitute.
Moves(r, k) ==
  LET slot == getRegSlotTbl(r.abi)[k] IN
  slot.target \in r.use /\ slot.pos < r.pNum /\ slot.alt # "none"

\* c is g but for the first k moves.
Moved(c, g, r, k) ==
  /\ IsMachine(c) /\ c.sp = g.sp /\ c.stack = g.stack /\ c.xmm = g.xmm
  /\ c.dirty = g.dirty /\ c.fault = g.fault /\ c.penalty = g.penalty /\ c.mixed = g.mixed
  /\ \A x : (\A y \in Targets : Alt(r.abi, y) # x) => c.reg[x] = g.reg[x]
  /\ \A j \in 1..k : LET slot == getRegSlotTbl(r.abi)[j] IN
                     Moves(r, j) => c.reg[slot.alt] = g.reg[slot.target]

LEMMA MoveNext ==
  ASSUME NEW c, NEW g, NEW r, r.abi \in AbiNames, NEW k \in 0..3, Moved(c, g, r, k),
         NEW slot, slot = getRegSlotTbl(r.abi)[k + 1]
  PROVE  Moved(Exec(c, Optional(slot.target \in r.use /\ slot.pos < r.pNum /\ slot.alt # "none",
                                Mov(slot.alt, slot.target))), g, r, k + 1)
<1>1. PICK d : d = Exec(c, Optional(slot.target \in r.use /\ slot.pos < r.pNum /\ slot.alt # "none",
                                    Mov(slot.alt, slot.target)))
  OBVIOUS
<1>2. k + 1 \in 1..4 /\ \A j \in 1..(k + 1) : j = k + 1 \/ j \in 1..k
  OBVIOUS
<1>3. CASE ~Moves(r, k + 1)
  <2>1. d = c
    BY <1>1, <1>3, NoCodeIs DEF Moves, Optional
  <2>2. ASSUME NEW j \in 1..(k + 1), Moves(r, j), NEW t, t = getRegSlotTbl(r.abi)[j]
        PROVE  c.reg[t.alt] = g.reg[t.target]
    BY <1>2, <1>3, <2>2 DEF Moved
  <2>3. Moved(c, g, r, k + 1)
    BY <2>2 DEF Moved
  <2>4. QED BY <1>1, <2>1, <2>3
<1>4. CASE Moves(r, k + 1)
  <2>1. PICK x, y, v : x = slot.alt /\ y = slot.target /\ v = c.reg[y]
    OBVIOUS
  <2>2. y \in Targets /\ x = Alt(r.abi, y) /\ x # "none"
    BY <1>2, <1>4, <2>1, SlotPlaces DEF Moves
  <2>3. x \in {"r8", "r9", "r10", "r11"} /\ \A z \in Targets : Alt(r.abi, z) = x => z = y
    BY <2>2, AltsAreFree
  <2>4. x \in GeneralRegs
    BY <2>3, GeneralRegsAre DEF Names
  <2>5. d = Exec(c, Mov(x, y))
    BY <1>1, <1>4, <2>1 DEF Moves, Optional
  <2>6. y # "rsp" /\ v = c.reg[y]
    BY <2>1, <2>2 DEF Targets
  <2>7. /\ IsMachine(d) /\ d.sp = c.sp /\ d.stack = c.stack /\ d.xmm = c.xmm
        /\ d.reg = [c.reg EXCEPT ![x] = v]
        /\ d.dirty = c.dirty /\ d.fault = c.fault /\ d.penalty = c.penalty /\ d.mixed = c.mixed
    <3>1. IsMachine(c)
      BY DEF Moved
    <3>2. QED BY <2>4, <2>5, <2>6, <3>1, MovIs
  <2>8. d.reg[x] = v /\ \A z : z # x => d.reg[z] = c.reg[z]
    BY <2>4, <2>7 DEF Moved, IsMachine
  <2>9. v = g.reg[y]
    <3>1. \A z \in Targets : Alt(r.abi, z) # y
      BY <2>2, AltsAreFree DEF Targets
    <3>2. QED BY <2>1, <3>1 DEF Moved
  <2>10. ASSUME NEW z, \A w \in Targets : Alt(r.abi, w) # z PROVE d.reg[z] = g.reg[z]
    <3>1. z # x
      BY <2>2, <2>10
    <3>2. QED BY <2>8, <2>10, <3>1 DEF Moved
  <2>11. ASSUME NEW j \in 1..(k + 1), Moves(r, j), NEW t, t = getRegSlotTbl(r.abi)[j]
         PROVE  d.reg[t.alt] = g.reg[t.target]
    <3>1. CASE j = k + 1
      BY <2>1, <2>8, <2>9, <2>11, <3>1
    <3>2. CASE j \in 1..k
      <4>1. t.alt = Alt(r.abi, t.target) /\ t.target \in Targets /\ t.target # y
        BY <1>2, <2>1, <2>11, <3>2, SlotPlaces
      <4>2. t.alt # x
        BY <2>3, <4>1
      <4>3. c.reg[t.alt] = g.reg[t.target]
        BY <2>11, <3>2 DEF Moved
      <4>4. d.reg[t.alt] = c.reg[t.alt]
        BY <2>8, <4>2
      <4>5. QED BY <4>3, <4>4
    <3>3. j = k + 1 \/ j \in 1..k
      BY <1>2
    <3>4. QED BY <3>1, <3>2, <3>3, Zenon
  <2>12. /\ IsMachine(d) /\ d.sp = g.sp /\ d.stack = g.stack /\ d.xmm = g.xmm
         /\ d.dirty = g.dirty /\ d.fault = g.fault /\ d.penalty = g.penalty /\ d.mixed = g.mixed
    BY <2>7 DEF Moved
  <2>13. \A j \in 1..(k + 1) : LET t == getRegSlotTbl(r.abi)[j] IN
                               Moves(r, j) => d.reg[t.alt] = g.reg[t.target]
    BY <2>11
  <2>14. Moved(d, g, r, k + 1)
    BY <2>10, <2>12, <2>13 DEF Moved
  <2>15. QED BY <1>1, <2>14
<1>5. QED BY <1>3, <1>4

LEMMA MovesRun ==
  ASSUME NEW c, IsMachine(c), NEW r, r.abi \in AbiNames
  PROVE  Moved(Run(c, MoveParams(r)), c, r, 4) /\ IsCode(MoveParams(r))
<1> DEFINE at(k) == LET slot == getRegSlotTbl(r.abi)[k] IN
                    Optional(slot.target \in r.use /\ slot.pos < r.pNum /\ slot.alt # "none",
                             Mov(slot.alt, slot.target))
           S == {at(k) : k \in 1..4}
<1>1. PICK code : code = MoveParams(r)
  OBVIOUS
<1>2. code = [k \in 1..4 |-> at(k)]
  BY <1>1 DEF MoveParams
<1>3. \A k \in 1..4 : code[k] = at(k)
  BY <1>2
<1>4. Len(code) = 4 /\ IsCode(code)
  <2> HIDE DEF at
  <2>1. code \in [1..4 -> S]
    BY <1>2
  <2> HIDE DEF S
  <2>2. \A N \in Nat : code \in [1..N -> S] => code \in Seq(S) /\ Len(code) = N
    OBVIOUS
  <2>3. QED BY <2>1, <2>2 DEF IsCode
<1>5. PICK f : Ran(f, c, code, 4) /\ Run(c, code) = f[4]
  BY <1>4, RunSteps
<1> DEFINE T == {k \in 0..4 : Moved(f[k], c, r, k)}
<1>6. 0 \in T
  BY <1>5 DEF Ran, Moved
<1>7. ASSUME NEW k \in 0..(4 - 1), k \in T PROVE k + 1 \in T
  <2>1. f[k + 1] = Exec(f[k], code[k + 1]) /\ k + 1 \in 1..4 /\ k + 1 \in 0..4 /\ k \in 0..3
    BY <1>5 DEF Ran
  <2>2. code[k + 1] = at(k + 1)
    BY <1>3, <2>1
  <2>3. Moved(Exec(f[k], at(k + 1)), c, r, k + 1)
    BY <1>7, <2>1, MoveNext
  <2>4. QED BY <2>1, <2>2, <2>3
<1>8. \A k \in 0..4 : k \in T
  <2> HIDE DEF T
  <2>1. QED BY <1>6, <1>7, UpTo
<1>9. QED BY <1>1, <1>4, <1>5, <1>8

\* The machine when the client's code begins.
Entered(c, r, s, n, P, vp, V) ==
  /\ IsMachine(c) /\ Quiet(c) /\ (c.dirty => r.vec.noVz) /\ OldXmms(c) /\ c.sp = -8 * n - P
  /\ SavedCells(c, r, s, n) /\ SavedVecs(c, vp, V)
  /\ \A x \in GeneralRegs \ {"r8", "r9", "r10", "r11"} :
       c.reg[x] = IF r.framePointer /\ x = "rbp" THEN <<"sp", -8>> ELSE <<"old", x>>
  /\ \A i \in 1..r.pNum : c.reg[getRegs(r)[i]] = <<"old", ArgumentRegs(r.abi)[i]>>

LEMMA ArgumentsMoved ==
  ASSUME NEW c, NEW g, NEW r, Asked(r), Moved(c, g, r, 4), OldRegs(g, r.framePointer), NEW i \in 1..r.pNum
  PROVE  c.reg[getRegs(r)[i]] = <<"old", ArgumentRegs(r.abi)[i]>>
<1>1. PICK x, abi : x = getRegEntryTbl(r.abi)[i] /\ abi = r.abi
  OBVIOUS
<1>2. abi \in AbiNames /\ i \in 1..4
  BY <1>1, AskedFacts
<1>3. /\ x \in Targets => \E k \in 1..4 : /\ getRegSlotTbl(abi)[k].target = x
                                          /\ getRegSlotTbl(abi)[k].pos = i - 1
      /\ \A y \in Targets : Alt(abi, y) # x
      /\ x = ArgumentRegs(abi)[i] /\ x \in Names /\ x # "none" /\ x # "rbp"
      /\ x \in Targets => Alt(abi, x) # "none"
  BY <1>1, <1>2, SlotPlaces
<1>4. getRegs(r)[i] = (IF x \in r.use THEN Alt(abi, x) ELSE x) /\ (x \in r.use => x \in Targets)
  BY <1>1, <1>2, FirstRegs
<1>5. g.reg[x] = <<"old", x>>
  <2>1. x \in GeneralRegs
    BY <1>3, GeneralRegsAre
  <2>2. QED BY <1>3, <2>1 DEF OldRegs
<1>6. CASE x \notin r.use
  <2>1. c.reg[x] = g.reg[x]
    BY <1>1, <1>3 DEF Moved
  <2>2. QED BY <1>1, <1>3, <1>4, <1>5, <1>6, <2>1
<1>7. CASE x \in r.use
  <2>1. PICK k \in 1..4 : /\ getRegSlotTbl(abi)[k].target = x
                          /\ getRegSlotTbl(abi)[k].pos = i - 1
    BY <1>3, <1>4, <1>7
  <2>2. getRegSlotTbl(abi)[k].alt = Alt(abi, x)
    BY <1>2, <2>1, SlotPlaces
  <2>3. r.pNum \in 0..4
    BY AskedFacts
  <2>4. i - 1 < r.pNum
    BY <2>3
  <2>5. Moves(r, k)
    BY <1>1, <1>3, <1>4, <1>7, <2>1, <2>2, <2>4 DEF Moves
  <2>6. c.reg[Alt(abi, x)] = g.reg[x]
    BY <1>1, <2>1, <2>2, <2>5 DEF Moved
  <2>7. QED BY <1>1, <1>3, <1>4, <1>5, <1>7, <2>6
<1>8. QED BY <1>6, <1>7

LEMMA ParamsMoved ==
  ASSUME NEW c, NEW r, NEW s, NEW n, NEW P, NEW vp, NEW V, Asked(r), Framed(c, r, s, n, P, vp, V)
  PROVE  Entered(Run(c, MoveParams(r)), r, s, n, P, vp, V)
<1>1. PICK d : d = Run(c, MoveParams(r))
  OBVIOUS
<1>2. r.abi \in AbiNames /\ IsMachine(c)
  BY AskedFacts DEF Framed
<1>3. Moved(d, c, r, 4)
  BY <1>1, <1>2, MovesRun
<1>4. \A i \in 1..r.pNum : d.reg[getRegs(r)[i]] = <<"old", ArgumentRegs(r.abi)[i]>>
  BY <1>3, ArgumentsMoved DEF Framed
<1>5. ASSUME NEW x \in GeneralRegs \ {"r8", "r9", "r10", "r11"}
      PROVE  d.reg[x] = IF r.framePointer /\ x = "rbp" THEN <<"sp", -8>> ELSE <<"old", x>>
  <2>1. c.reg[x] = IF r.framePointer /\ x = "rbp" THEN <<"sp", -8>> ELSE <<"old", x>>
    BY DEF Framed, OldRegs
  <2>2. \A y \in Targets : Alt(r.abi, y) # x
    <3>1. TAKE y \in Targets
    <3>2. Alt(r.abi, y) = "none" \/ Alt(r.abi, y) \in {"r8", "r9", "r10", "r11"}
      BY <1>2, AltsAreFree
    <3>3. "none" \notin GeneralRegs
      <4>1. PICK tbl : tbl = getRegEntryTbl("win")
        OBVIOUS
      <4>2. /\ tbl \in Seq(Names) /\ Len(tbl) = 14 /\ WinEntries(tbl) /\ CalleeEntries(tbl)
        BY <4>1, EntryTable DEF AbiNames
      <4>3. \A i \in 1..14 : tbl[i] # "none"
        BY <4>2, Fourteen DEF WinEntries, CalleeEntries
      <4>4. DOMAIN tbl = 1..14
        BY <4>2
      <4>5. QED BY <4>1, <4>3, <4>4 DEF GeneralRegs, Range
    <3>4. QED BY <3>2, <3>3
  <2>3. QED BY <1>3, <2>1, <2>2 DEF Moved
<1>6. /\ IsMachine(d) /\ Quiet(d) /\ (d.dirty => r.vec.noVz) /\ OldXmms(d) /\ d.sp = -8 * n - P
      /\ SavedCells(d, r, s, n) /\ SavedVecs(d, vp, V)
  BY <1>3 DEF Moved, Framed, Quiet, OldXmms, SavedCells, SavedVecs
<1>7. QED BY <1>1, <1>4, <1>5, <1>6 DEF Entered

LEMMA PrologRun ==
  ASSUME NEW c, NEW r, NEW f, Asked(r), f = Frame(r), NEW s, s = saveRegs(r), NEW n, n = Len(s),
         Pushed(c, r, s, 0, FALSE)
  PROVE  Entered(Run(c, Prolog(r, f)), r, s, n, P_(r, n), vecPos(r), vecSaveNum(r))
<1>1. PICK P, vp, V, st : P = P_(r, n) /\ vp = vecPos(r) /\ V = vecSaveNum(r) /\ st = Start(r)
  OBVIOUS
<1>2. f.saveRegs = s /\ f.P = P
  BY <1>1 DEF Frame
<1>3. SaveFacts(r, s, n) /\ n \in Nat /\ st \in {0, 1} /\ st <= n
  <2>1. SaveFacts(r, s, n)
    BY SaveRegsAre
  <2>2. QED BY <1>1, <2>1 DEF SaveFacts, Start
<1>4. Sizes(r, n, P, V, vp) /\ P \in Nat /\ V \in Nat
  <2>1. Sizes(r, n, P, V, vp)
    BY <1>1, <1>3, SizesAre
  <2>2. QED BY <2>1 DEF Sizes
<1>5. PICK c1, c2, c3, c4, c5 :
        /\ c1 = Run(c, PushRbp(r)) /\ c2 = Run(c1, Pushes(r, s, st))
        /\ c3 = Run(c2, <<Optional(P > 0, AddRsp(-P))>>) /\ c4 = Run(c3, MoveVecs(r, "store"))
        /\ c5 = Run(c4, MoveParams(r))
  OBVIOUS
<1>6. Pushed(c1, r, s, st, r.framePointer)
  BY <1>1, <1>3, <1>5, RbpIsPushed
<1>7. Pushed(c2, r, s, n, r.framePointer)
  BY <1>1, <1>3, <1>5, <1>6, PushesRun
<1>8. Framed(c3, r, s, n, P, vp, 0)
  BY <1>3, <1>4, <1>5, <1>7, RspIsMoved
<1>9. Framed(c4, r, s, n, P, vp, V)
  BY <1>1, <1>3, <1>4, <1>5, <1>8, StoresRun
<1>10. Entered(c5, r, s, n, P, vp, V)
  BY <1>5, <1>9, ParamsMoved
<1>11. Run(c, Prolog(r, f)) = c5
  <2>1. PICK k1, k2, k3, k4, k5 :
          /\ k1 = PushRbp(r) /\ k2 = Pushes(r, s, st) /\ k3 = <<Optional(P > 0, AddRsp(-P))>>
          /\ k4 = MoveVecs(r, "store") /\ k5 = MoveParams(r)
    OBVIOUS
  <2>2. Prolog(r, f) = (((k1 \o k2) \o k3) \o k4) \o k5
    BY <1>1, <1>2, <2>1 DEF Prolog
  <2>3. IsCode(k1) /\ IsCode(k3)
    BY <2>1, RunTwo, RunOne DEF PushRbp
  <2>4. IsCode(k2)
    BY <1>3, <2>1, PushesItem DEF PushesAre
  <2>5. IsCode(k4)
    BY <1>1, <1>4, <2>1, MoveVecsItem
  <2>6. IsCode(k5)
    <3>1. r.abi \in AbiNames /\ IsMachine(c)
      BY AskedFacts DEF Pushed
    <3>2. QED BY <2>1, <3>1, MovesRun
  <2>7. Run(c, k1 \o k2) = c2 /\ IsCode(k1 \o k2)
    BY <1>5, <2>1, <2>3, <2>4, RunConcat, ConcatFacts
  <2>8. Run(c, (k1 \o k2) \o k3) = c3 /\ IsCode((k1 \o k2) \o k3)
    BY <1>5, <2>1, <2>3, <2>7, RunConcat, ConcatFacts
  <2>9. Run(c, ((k1 \o k2) \o k3) \o k4) = c4 /\ IsCode(((k1 \o k2) \o k3) \o k4)
    BY <1>5, <2>1, <2>5, <2>8, RunConcat, ConcatFacts
  <2>10. Run(c, (((k1 \o k2) \o k3) \o k4) \o k5) = c5
    BY <1>5, <2>1, <2>6, <2>9, RunConcat
  <2>11. QED BY <2>2, <2>10
<1>12. QED BY <1>1, <1>10, <1>11

-----------------------------------------------------------------------------
(* The client's code.                                                      *)

LEMMA CalleeSavedAre ==
  ASSUME NEW abi \in AbiNames, NEW i \in 1..14
  PROVE  getRegEntryTbl(abi)[i] \in CalleeSaved(abi) => i \in (noSaveNum(abi) + 1)..14
<1>1. PICK tbl : tbl = getRegEntryTbl(abi) /\ CalleeEntries(tbl)
  BY EntryTable
<1>2. CASE abi = "win"
  <2>1. WinEntries(tbl) /\ noSaveNum(abi) = 6
    BY <1>1, <1>2, EntryTable DEF noSaveNum
  <2>2. CASE i \in 1..6
    <3>1. i = 1 \/ i = 2 \/ i = 3 \/ i = 4 \/ i = 5 \/ i = 6
      BY <2>2
    <3>2. tbl[i] \in {"rcx", "rdx", "r8", "r9", "r10", "r11"}
      BY <2>1, <3>1 DEF WinEntries
    <3>3. QED BY <1>1, <1>2, <3>2 DEF CalleeSaved
  <2>3. QED BY <2>1, <2>2
<1>3. CASE abi = "sysv"
  <2>1. SysvEntries(tbl) /\ noSaveNum(abi) = 8
    BY <1>1, <1>3, EntryTable DEF noSaveNum
  <2>2. CASE i \in 1..8
    <3>1. i = 1 \/ i = 2 \/ i = 3 \/ i = 4 \/ i = 5 \/ i = 6 \/ i = 7 \/ i = 8
      BY <2>2
    <3>2. tbl[i] \in {"rdi", "rsi", "rdx", "rcx", "r8", "r9", "r10", "r11"}
      BY <2>1, <3>1 DEF SysvEntries
    <3>3. QED BY <1>1, <1>3, <3>2 DEF CalleeSaved
  <2>3. QED BY <2>1, <2>2
<1>4. QED BY <1>2, <1>3 DEF AbiNames

LEMMA CalleeSavedInTable ==
  ASSUME NEW abi \in AbiNames, NEW x \in CalleeSaved(abi)
  PROVE  /\ x \in GeneralRegs \ {"rax", "r8", "r9", "r10", "r11"}
         /\ x \in {"r30", "r31"} \/ \E i \in 1..14 : getRegEntryTbl(abi)[i] = x
<1>1. PICK tbl : tbl = getRegEntryTbl(abi) /\ CalleeEntries(tbl)
  BY EntryTable
<1>2. /\ x \in {"rbx", "rbp", "r12", "r13", "r14", "r15"}
         \cup (IF abi = "win" THEN {"rdi", "rsi", "r30", "r31"} ELSE {})
  BY DEF CalleeSaved
<1>3. x \in GeneralRegs \ {"rax", "r8", "r9", "r10", "r11"}
  BY <1>2, GeneralRegsAre DEF Names
<1>4. CASE abi = "win"
  <2>1. tbl[7] = "rdi" /\ tbl[8] = "rsi"
    BY <1>1, <1>4, EntryTable DEF WinEntries
  <2>2. x \in {"r30", "r31"} \/ \E i \in 1..14 : tbl[i] = x
    BY <1>1, <1>2, <2>1 DEF CalleeEntries
  <2>3. QED BY <1>1, <1>3, <2>2
<1>5. CASE abi = "sysv"
  <2>1. x \in {"rbx", "rbp", "r12", "r13", "r14", "r15"}
    BY <1>2, <1>5
  <2>2. \E i \in 1..14 : tbl[i] = x
    BY <1>1, <2>1 DEF CalleeEntries
  <2>3. QED BY <1>1, <1>3, <2>2
<1>6. QED BY <1>4, <1>5 DEF AbiNames

\* What the client may overwrite and the caller wants back is saved.
LEMMA MineIsSaved ==
  ASSUME FrameIs, phase # "none", NEW x \in Mine, x \in CalleeSaved(req.abi)
  PROVE  \E j \in 1..Len(saveRegs(req)) : saveRegs(req)[j] = x
<1>1. PICK r, s, n : r = req /\ s = saveRegs(r) /\ n = Len(s)
  OBVIOUS
<1>2. Asked(r) /\ sf = Frame(r)
  BY <1>1 DEF FrameIs
<1>3. r.abi \in AbiNames /\ SaveFacts(r, s, n)
  BY <1>1, <1>2, AskedFacts, SaveRegsAre
<1>4. ASSUME NEW i \in 1..14, x = getRegEntryTbl(r.abi)[i],
             x \in r.use \/ i <= r.pNum + r.tNum + useNum(r)
      PROVE  \E j \in 1..n : s[j] = x
  <2>1. i \in (noSaveNum(r.abi) + 1)..14
    BY <1>1, <1>3, <1>4, CalleeSavedAre
  <2>2. QED BY <1>3, <1>4, <2>1 DEF SaveFacts
<1>5. x \in {"r30", "r31"} \/ \E i \in 1..14 : getRegEntryTbl(r.abi)[i] = x
  BY <1>1, <1>3, CalleeSavedInTable
<1>6. x \notin {"rax", "r8", "r9", "r10", "r11"}
  BY <1>1, <1>3, CalleeSavedInTable
<1>7. ASSUME NEW k \in 1..(r.pNum + r.tNum), x = getRegs(r)[k] PROVE \E j \in 1..n : s[j] = x
  <2>1. \/ x \in {"r8", "r9", "r10", "r11"}
        \/ \E i \in 1..14 : x = getRegEntryTbl(r.abi)[i] /\ i <= r.pNum + r.tNum + useNum(r)
    BY <1>2, <1>7, RegIsFree
  <2>2. QED BY <1>4, <1>6, <2>1
<1>8. r.pNum \in Nat /\ r.tNum \in Nat
  BY <1>2, AskedFacts
<1>9. /\ sf.p \in Seq(Names) /\ Len(sf.p) = r.pNum /\ sf.t \in Seq(Names) /\ Len(sf.t) = r.tNum
      /\ \A k \in 1..r.pNum : sf.p[k] = getRegs(r)[k]
      /\ \A k \in 1..r.tNum : sf.t[k] = getRegs(r)[r.pNum + k]
  BY <1>2, TablesFacts
<1>10. CASE x \in Range(sf.p)
  <2>1. PICK k \in 1..r.pNum : x = sf.p[k]
    BY <1>9, <1>10 DEF Range
  <2>2. k \in 1..(r.pNum + r.tNum)
    BY <1>8
  <2>3. QED BY <1>1, <1>7, <1>9, <2>1, <2>2
<1>11. CASE x \in Range(sf.t)
  <2>1. PICK k \in 1..r.tNum : x = sf.t[k]
    BY <1>9, <1>11 DEF Range
  <2>2. r.pNum + k \in 1..(r.pNum + r.tNum)
    BY <1>8
  <2>3. QED BY <1>1, <1>7, <1>9, <2>1, <2>2
<1>12. CASE x \in r.use
  <2>1. x \notin {"r30", "r31"}
    BY <1>2, <1>12, AskedFacts DEF UseRegs
  <2>2. QED BY <1>1, <1>4, <1>5, <1>12, <2>1
<1>13. CASE r.r30r31 /\ x \in {"r30", "r31"}
  BY <1>1, <1>3, <1>13 DEF SaveFacts
<1>14. QED BY <1>1, <1>6, <1>10, <1>11, <1>12, <1>13 DEF Mine

\* The machine when the client's code ends.
Worked(c, r, s, n, P, vp, V) ==
  /\ IsMachine(c) /\ Quiet(c) /\ (c.dirty => r.vec.kind = "AVX") /\ c.sp = -8 * n - P
  /\ SavedCells(c, r, s, n) /\ SavedVecs(c, vp, V)
  /\ \A x \in CalleeSaved(r.abi) : (\E j \in 1..n : s[j] = x) \/ c.reg[x] = <<"old", x>>
  /\ \A i \in 0..15 : i >= r.vec.num => c.xmm[i] = <<"old", i>>

LEMMA WorkIsMine ==
  ASSUME FrameIs, Work, NEW s, s = saveRegs(req), NEW n, n = Len(s),
         NEW P, NEW vp, NEW V, Sizes(req, n, P, V, vp), Entered(m, req, s, n, P, vp, V)
  PROVE  Worked(m', req, s, n, P, vp, V)
<1>1. PICK r, c, d : r = req /\ c = m /\ d = m'
  OBVIOUS
<1>2. Asked(r) /\ sf = Frame(r) /\ phase # "none"
  BY <1>1 DEF FrameIs, Work
<1>3. IsMachine(c) /\ c.sp = -8 * n - P /\ SaveFacts(r, s, n)
  BY <1>1, <1>2, SaveRegsAre DEF Entered
<1>4. PICK regs, xmms, st, dirty :
        /\ regs = [x \in GeneralRegs |-> IF x \in Mine THEN <<"junk">> ELSE c.reg[x]]
        /\ xmms = [i \in 0..15 |-> IF i < r.vec.num THEN <<"junk">> ELSE c.xmm[i]]
        /\ st = [a \in DOMAIN c.stack |-> IF a \in Locals THEN <<<<"junk">>, FALSE>> ELSE c.stack[a]]
        /\ dirty = (c.dirty \/ r.vec.kind = "AVX")
  OBVIOUS
<1>5. d = [c EXCEPT !.reg = regs, !.xmm = xmms, !.stack = st, !.dirty = dirty]
  BY <1>1, <1>3, <1>4 DEF Work, IsMachine
<1>6. /\ d.sp = c.sp /\ d.stack = st /\ d.reg = regs /\ d.xmm = xmms /\ d.dirty = dirty
      /\ d.fault = c.fault /\ d.penalty = c.penalty /\ d.mixed = c.mixed
  BY <1>3, <1>5 DEF IsMachine
<1>7. IsMachine(d)
  <2>1. DOMAIN regs = GeneralRegs /\ DOMAIN xmms = 0..15
    BY <1>4
  <2>2. QED BY <1>3, <1>5, <2>1 DEF IsMachine
<1>8. Quiet(d) /\ (d.dirty => r.vec.kind = "AVX")
  <2>1. c.dirty => r.vec.kind = "AVX"
    BY <1>1, <1>2 DEF Entered, Asked, Accepts
  <2>2. Quiet(c)
    BY <1>1 DEF Entered
  <2>3. dirty => r.vec.kind = "AVX"
    BY <1>4, <2>1
  <2>4. QED BY <1>6, <2>2, <2>3 DEF Quiet
<1>9. r.stack \in Nat /\ r.stack <= vp /\ r.stack <= P /\ vp \in Nat /\ P \in Nat /\ n \in Nat
      /\ V \in 0..10
  BY <1>1, <1>2, <1>3, AskedFacts DEF Sizes, SaveFacts
<1>10. ASSUME NEW a \in Int, NEW v, a >= c.sp + r.stack, Holds(c.stack, a, v)
       PROVE  Holds(d.stack, a, v)
  <2>1. c.sp \in Int
    BY <1>3 DEF IsMachine
  <2>2. ~(a < c.sp + r.stack)
    BY <1>9, <1>10, <2>1
  <2>3. a \notin Locals
    BY <1>1, <2>2 DEF Locals
  <2>4. QED BY <1>4, <1>6, <1>10, <2>3 DEF Holds
<1>11. SavedCells(d, r, s, n)
  <2>1. ASSUME NEW j \in 1..n PROVE -8 * j \in Int /\ -8 * j >= c.sp + r.stack
    BY <1>3, <1>9
  <2>2. 0 >= c.sp + r.stack
    BY <1>3, <1>9
  <2>3. SavedCells(c, r, s, n)
    BY <1>1 DEF Entered
  <2>4. Holds(d.stack, 0, <<<<"return">>, FALSE>>)
    <3>1. 0 \in Int /\ Holds(c.stack, 0, <<<<"return">>, FALSE>>)
      BY <2>3 DEF SavedCells
    <3>2. QED BY <1>10, <2>2, <3>1
  <2>5. ASSUME NEW j \in 1..n PROVE Holds(d.stack, -8 * j, <<<<"old", s[j]>>, r.ppx>>)
    <3>1. PICK a, v : a = -8 * j /\ v = <<<<"old", s[j]>>, r.ppx>>
      OBVIOUS
    <3>2. Holds(c.stack, a, v)
      BY <2>3, <3>1 DEF SavedCells
    <3>3. Holds(d.stack, a, v)
      BY <1>10, <2>1, <3>1, <3>2
    <3>4. QED BY <3>1, <3>3
  <2>6. QED BY <2>4, <2>5 DEF SavedCells
<1>12. SavedVecs(d, vp, V)
  <2>1. ASSUME NEW j \in 1..V, NEW a, a = c.sp + (vp + (j - 1) * 16)
        PROVE  a \in Int /\ a >= c.sp + r.stack /\ a + 8 \in Int /\ a + 8 >= c.sp + r.stack
    BY <1>3, <1>9, <2>1
  <2>2. SavedVecs(c, vp, V)
    BY <1>1 DEF Entered
  <2>3. ASSUME NEW j \in 1..V, NEW a, a = c.sp + (vp + (j - 1) * 16)
        PROVE  Holds(d.stack, a, VecCell(<<"old", 5 + j>>)) /\ Holds(d.stack, a + 8, VecCell(<<"old", 5 + j>>))
    BY <1>10, <2>1, <2>2, <2>3 DEF SavedVecs
  <2>4. QED BY <1>6, <2>3 DEF SavedVecs
<1>13. ASSUME NEW x \in CalleeSaved(r.abi)
       PROVE  (\E j \in 1..n : s[j] = x) \/ d.reg[x] = <<"old", x>>
  <2>1. CASE x \in Mine
    BY <1>1, <1>2, <2>1, MineIsSaved
  <2>2. CASE x \notin Mine
    <3>1. x \in GeneralRegs \ {"rax", "r8", "r9", "r10", "r11"}
      BY <1>2, AskedFacts, CalleeSavedInTable
    <3>2. ~(r.framePointer /\ x = "rbp")
      BY <1>1, <1>2, <2>2 DEF Asked, Mine
    <3>3. c.reg[x] = <<"old", x>>
      BY <1>1, <3>1, <3>2 DEF Entered
    <3>4. QED BY <1>4, <1>6, <2>2, <3>1, <3>3
  <2>3. QED BY <2>1, <2>2
<1>14. ASSUME NEW i \in 0..15, i >= r.vec.num PROVE d.xmm[i] = <<"old", i>>
  <2>1. PICK num : num = r.vec.num /\ num \in 0..63
    BY <1>2, AskedFacts
  <2>2. ~(i < num)
    BY <1>14, <2>1
  <2>3. d.xmm[i] = c.xmm[i]
    BY <1>4, <1>6, <2>1, <2>2
  <2>4. QED BY <1>1, <2>3 DEF Entered, OldXmms
<1>15. d.sp = -8 * n - P
  BY <1>3, <1>6
<1>16. QED BY <1>1, <1>7, <1>8, <1>11, <1>12, <1>13, <1>14, <1>15 DEF Worked

-----------------------------------------------------------------------------
(* The epilog.                                                             *)

\* k xmm registers are loaded again.
Loaded(c, r, s, n, P, vp, V, k) ==
  /\ IsMachine(c) /\ Quiet(c) /\ (c.dirty => r.vec.noVz) /\ c.sp = -8 * n - P
  /\ SavedCells(c, r, s, n) /\ SavedVecs(c, vp, V)
  /\ \A x \in CalleeSaved(r.abi) : (\E j \in 1..n : s[j] = x) \/ c.reg[x] = <<"old", x>>
  /\ \A i \in 0..15 : i >= r.vec.num \/ i - 5 \in 1..k => c.xmm[i] = <<"old", i>>

LEMMA HalvesAreClean ==
  ASSUME NEW c, NEW r, NEW s, NEW n, NEW P, NEW vp, NEW V, Worked(c, r, s, n, P, vp, V)
  PROVE  Loaded(Run(c, <<Optional(r.vec.kind = "AVX" /\ ~r.vec.noVz, Vzeroupper)>>),
                r, s, n, P, vp, V, 0)
<1>1. PICK d : d = Exec(c, Optional(r.vec.kind = "AVX" /\ ~r.vec.noVz, Vzeroupper))
  OBVIOUS
<1>2. Run(c, <<Optional(r.vec.kind = "AVX" /\ ~r.vec.noVz, Vzeroupper)>>) = d
  BY <1>1, RunOne
<1>3. IsMachine(c) /\ (c.dirty => r.vec.kind = "AVX")
  BY DEF Worked
<1>4. /\ IsMachine(d) /\ d.sp = c.sp /\ d.stack = c.stack /\ d.xmm = c.xmm
      /\ d.reg = c.reg /\ d.fault = c.fault /\ d.penalty = c.penalty /\ d.mixed = c.mixed
      /\ (d.dirty => r.vec.noVz)
  <2>1. CASE r.vec.kind = "AVX" /\ ~r.vec.noVz
    <3>1. d = Exec(c, Vzeroupper)
      BY <1>1, <2>1 DEF Optional
    <3>2. QED BY <1>3, <3>1, VzeroupperIs
  <2>2. CASE ~(r.vec.kind = "AVX" /\ ~r.vec.noVz)
    <3>1. d = c
      BY <1>1, <2>2, NoCodeIs DEF Optional
    <3>2. QED BY <1>3, <2>2, <3>1
  <2>3. QED BY <2>1, <2>2
<1>5. \A i \in 0..15 : i - 5 \notin 1..0
  OBVIOUS
<1>6. Loaded(d, r, s, n, P, vp, V, 0)
  BY <1>4, <1>5 DEF Worked, Loaded, Quiet, SavedCells, SavedVecs
<1>7. QED BY <1>2, <1>6

LEMMA LoadNext ==
  ASSUME NEW c, NEW r, NEW s, NEW n \in Nat, NEW P, NEW V, NEW vp, Sizes(r, n, P, V, vp),
         NEW k \in 0..(V - 1), Loaded(c, r, s, n, P, vp, V, k)
  PROVE  Loaded(Exec(c, Vec("load", 5 + (k + 1), vp + ((k + 1) - 1) * 16, r.vec.noVz)),
                r, s, n, P, vp, V, k + 1)
<1>1. PICK disp, x, a, d, vex, v :
        /\ disp = vp + ((k + 1) - 1) * 16 /\ x = 5 + (k + 1) /\ a = c.sp + disp
        /\ vex = r.vec.noVz /\ d = Exec(c, Vec("load", x, disp, vex)) /\ v = <<"old", x>>
  OBVIOUS
<1>2. /\ V \in 0..10 /\ vp \in Nat /\ P \in Nat /\ k \in 0..10
      /\ \A l \in 0..10 : Aligned((-8 * n - P) + (vp + l * 16))
  BY DEF Sizes
<1>3. IsMachine(c) /\ c.sp = -8 * n - P /\ (c.dirty => vex)
  BY <1>1 DEF Loaded
<1>4. disp = vp + k * 16 /\ x \in 0..15 /\ k + 1 \in 1..V
  BY <1>1, <1>2
<1>5. Aligned(a)
  BY <1>1, <1>2, <1>3, <1>4
<1>6. Holds(c.stack, a, VecCell(v)) /\ Holds(c.stack, a + 8, VecCell(v))
  BY <1>1, <1>4 DEF Loaded, SavedVecs
<1>7. /\ IsMachine(d) /\ d.sp = c.sp /\ d.stack = c.stack /\ d.xmm = [c.xmm EXCEPT ![x] = v]
      /\ d.reg = c.reg /\ d.dirty = c.dirty
      /\ (d.fault <=> c.fault) /\ (d.penalty <=> c.penalty) /\ d.mixed = c.mixed
  BY <1>1, <1>3, <1>4, <1>5, <1>6, LoadIs
<1>8. ASSUME NEW i \in 0..15, i >= r.vec.num \/ i - 5 \in 1..(k + 1) PROVE d.xmm[i] = <<"old", i>>
  <2>1. DOMAIN c.xmm = 0..15
    BY <1>3 DEF IsMachine
  <2>2. CASE i = x
    BY <1>1, <1>7, <2>1, <2>2
  <2>3. CASE i # x
    <3>1. i - 5 \in 1..(k + 1) => i - 5 \in 1..k
      BY <1>1, <2>3
    <3>2. c.xmm[i] = <<"old", i>>
      BY <1>8, <3>1 DEF Loaded
    <3>3. QED BY <1>7, <2>1, <2>3, <3>2
  <2>4. QED BY <2>2, <2>3
<1>9. Loaded(d, r, s, n, P, vp, V, k + 1)
  BY <1>3, <1>7, <1>8 DEF Loaded, Quiet, SavedCells, SavedVecs
<1>10. QED BY <1>1, <1>9

LEMMA LoadsRun ==
  ASSUME NEW c, NEW r, NEW s, NEW n \in Nat, NEW P, NEW V, NEW vp, Sizes(r, n, P, V, vp),
         V = vecSaveNum(r), vp = vecPos(r), Loaded(c, r, s, n, P, vp, V, 0)
  PROVE  Loaded(Run(c, MoveVecs(r, "load")), r, s, n, P, vp, V, V)
<1>1. PICK code : code = MoveVecs(r, "load")
  OBVIOUS
<1>2. V \in Nat
  BY DEF Sizes
<1>3. /\ Len(code) = V
      /\ \A k \in 1..V : code[k] = Vec("load", 5 + k, vp + (k - 1) * 16, r.vec.noVz)
  BY <1>1, <1>2, MoveVecsItem
<1>4. PICK f : Ran(f, c, code, V) /\ Run(c, code) = f[V]
  BY <1>2, <1>3, RunSteps
<1> DEFINE T == {k \in 0..V : Loaded(f[k], r, s, n, P, vp, V, k)}
<1>5. 0 \in T
  BY <1>2, <1>4 DEF Ran
<1>6. ASSUME NEW k \in 0..(V - 1), k \in T PROVE k + 1 \in T
  <2>1. f[k + 1] = Exec(f[k], code[k + 1]) /\ k + 1 \in 1..V /\ k + 1 \in 0..V
    BY <1>2, <1>4 DEF Ran
  <2>2. code[k + 1] = Vec("load", 5 + (k + 1), vp + ((k + 1) - 1) * 16, r.vec.noVz)
    BY <1>3, <2>1
  <2>3. Loaded(f[k + 1], r, s, n, P, vp, V, k + 1)
    BY <1>6, <2>1, <2>2, LoadNext
  <2>4. QED BY <2>1, <2>3
<1>7. \A k \in 0..V : k \in T
  <2> HIDE DEF T
  <2>1. QED BY <1>2, <1>5, <1>6, UpTo
<1>8. QED BY <1>1, <1>2, <1>4, <1>7

\* The frame is left, and all but the first k of s are popped.
Popped(c, r, s, n, k) ==
  /\ IsMachine(c) /\ Quiet(c) /\ c.sp = -8 * k /\ SavedCells(c, r, s, n)
  /\ \A x \in CalleeSaved(r.abi) : (\E j \in 1..k : s[j] = x) \/ c.reg[x] = <<"old", x>>
  /\ \A i \in CalleeSavedXmm(r.abi) : c.xmm[i] = <<"old", i>>

LEMMA RspIsBack ==
  ASSUME NEW c, NEW r, NEW s, NEW n \in Nat, NEW P, NEW vp, NEW V, Sizes(r, n, P, V, vp),
         Loaded(c, r, s, n, P, vp, V, V)
  PROVE  Popped(Run(c, <<Optional(P > 0, AddRsp(P))>>), r, s, n, n)
<1>1. PICK d : d = Exec(c, Optional(P > 0, AddRsp(P)))
  OBVIOUS
<1>2. Run(c, <<Optional(P > 0, AddRsp(P))>>) = d
  BY <1>1, RunOne
<1>3. IsMachine(c) /\ c.sp = -8 * n - P /\ P \in Nat /\ V \in 0..10
  BY DEF Loaded, Sizes
<1>4. /\ IsMachine(d) /\ d.sp = -8 * n /\ d.stack = c.stack /\ d.xmm = c.xmm
      /\ d.reg = c.reg /\ d.fault = c.fault /\ d.penalty = c.penalty /\ d.mixed = c.mixed
  <2>1. CASE P > 0
    <3>1. d = Exec(c, AddRsp(P))
      BY <1>1, <2>1 DEF Optional
    <3>2. P \in Int /\ c.sp + P = -8 * n
      BY <1>3
    <3>3. QED BY <1>3, <3>1, <3>2, AddRspIs
  <2>2. CASE P = 0
    <3>1. d = c
      BY <1>1, <2>2, NoCodeIs DEF Optional
    <3>2. QED BY <1>3, <2>2, <3>1
  <2>3. QED BY <1>3, <2>1, <2>2
<1>5. ASSUME NEW i \in CalleeSavedXmm(r.abi) PROVE d.xmm[i] = <<"old", i>>
  <2>1. r.abi = "win" /\ i \in 6..15
    BY <1>5 DEF CalleeSavedXmm
  <2>2. i >= r.vec.num \/ i - 5 \in 1..V
    <3>1. i - 5 > V => i >= r.vec.num
      BY <2>1 DEF Sizes
    <3>2. i - 5 > V \/ i - 5 \in 1..V
      BY <1>3, <2>1
    <3>3. QED BY <3>1, <3>2
  <2>3. i \in 0..15
    BY <2>1
  <2>4. QED BY <1>4, <2>2, <2>3 DEF Loaded
<1>6. Popped(d, r, s, n, n)
  BY <1>4, <1>5 DEF Loaded, Popped, Quiet, SavedCells
<1>7. QED BY <1>2, <1>6

LEMMA PopNext ==
  ASSUME NEW c, NEW r, NEW s, NEW n \in Nat, NEW k \in 1..n, Popped(c, r, s, n, k),
         s[k] \in GeneralRegs
  PROVE  Popped(PopOne(c, s[k], r.ppx), r, s, n, k - 1)
<1>1. PICK d, x, v, ppx : /\ d = PopOne(c, x, ppx) /\ x = s[k] /\ v = <<"old", x>>
                          /\ ppx = r.ppx
  OBVIOUS
<1>2. IsMachine(c) /\ c.sp = -8 * k /\ c.sp + 8 = -8 * (k - 1)
  BY DEF Popped
<1>3. Holds(c.stack, c.sp, <<v, ppx>>)
  BY <1>1, <1>2 DEF Popped, SavedCells
<1>4. /\ IsMachine(d) /\ d.sp = c.sp + 8 /\ d.reg = [c.reg EXCEPT ![x] = v]
      /\ d.stack = c.stack /\ d.xmm = c.xmm /\ d.dirty = c.dirty /\ d.fault = c.fault
      /\ d.penalty = c.penalty /\ (d.mixed <=> c.mixed)
  <2>1. x \in GeneralRegs
    BY <1>1
  <2>2. LET e == PopOne(c, x, ppx) IN
        /\ IsMachine(e) /\ e.sp = c.sp + 8 /\ e.reg = [c.reg EXCEPT ![x] = v]
        /\ e.stack = c.stack /\ e.xmm = c.xmm /\ e.dirty = c.dirty /\ e.fault = c.fault
        /\ e.penalty = c.penalty /\ (e.mixed <=> c.mixed)
    BY <1>2, <1>3, <2>1, PopOneIs
  <2>3. QED BY <1>1, <2>2
<1>5. ASSUME NEW y \in CalleeSaved(r.abi)
      PROVE  (\E j \in 1..(k - 1) : s[j] = y) \/ d.reg[y] = <<"old", y>>
  <2>1. DOMAIN c.reg = GeneralRegs
    BY <1>2 DEF IsMachine
  <2>2. CASE y = x
    BY <1>1, <1>4, <2>1, <2>2
  <2>3. CASE y # x
    <3>1. \A j \in 1..k : j = k \/ j \in 1..(k - 1)
      OBVIOUS
    <3>2. (\E j \in 1..(k - 1) : s[j] = y) \/ c.reg[y] = <<"old", y>>
      BY <1>1, <2>3, <3>1 DEF Popped
    <3>3. d.reg[y] = c.reg[y]
      BY <1>4, <2>3
    <3>4. QED BY <3>2, <3>3
  <2>4. QED BY <2>2, <2>3
<1>6. Popped(d, r, s, n, k - 1)
  BY <1>2, <1>4, <1>5 DEF Popped, Quiet, SavedCells
<1>7. QED BY <1>1, <1>6

LEMMA PopTwo ==
  ASSUME NEW c, NEW r, NEW s, NEW n \in Nat, NEW k \in 2..n, Popped(c, r, s, n, k), Aligned(c.sp),
         s[k] \in GeneralRegs, s[k - 1] \in GeneralRegs
  PROVE  Popped(Exec(c, Pop(<<s[k], s[k - 1]>>, r.ppx)), r, s, n, k - 2)
<1>1. PICK b, d, e, x, y : /\ b = PopOne(c, x, r.ppx) /\ d = PopOne(b, y, r.ppx)
                           /\ e = Exec(c, Pop(<<x, y>>, r.ppx)) /\ x = s[k] /\ y = s[k - 1]
  OBVIOUS
<1>2. k \in 1..n /\ k - 1 \in 1..n /\ (k - 1) - 1 = k - 2
  OBVIOUS
<1>3. Popped(b, r, s, n, k - 1)
  BY <1>1, <1>2, PopNext
<1>4. Popped(d, r, s, n, k - 2)
  <2>1. Popped(PopOne(b, s[k - 1], r.ppx), r, s, n, (k - 1) - 1)
    BY <1>2, <1>3, PopNext
  <2>2. QED BY <1>1, <1>2, <2>1
<1>5. IsMachine(d) /\ ~d.fault
  BY <1>4 DEF Popped, Quiet
<1>6. /\ IsMachine(e) /\ e.sp = d.sp /\ e.stack = d.stack /\ e.xmm = d.xmm
      /\ e.reg = d.reg /\ e.dirty = d.dirty /\ ~e.fault
      /\ e.penalty = d.penalty /\ e.mixed = d.mixed
  BY <1>1, <1>5, PopTwoIs
<1>7. Popped(e, r, s, n, k - 2)
  BY <1>4, <1>6 DEF Popped, Quiet, SavedCells
<1>8. QED BY <1>1, <1>7

\* Registers that the loop over saveRegs_ has still to pop when it comes to the i-th.
Left(r, start, i, n) == IF i < n - 1 /\ PairDown(r, i + 1, start) THEN i ELSE i + 1

\* The code of the loop, for i downwards.
PopsAre(code, r, s, n, st) ==
  /\ Len(code) = n /\ IsCode(code)
  /\ \A i \in 0..(n - 1) :
       /\ PairDown(r, i, st) => code[n - i] = Pop(<<s[i + 1], s[i]>>, r.ppx)
       /\ ~PairDown(r, i, st) /\ i < n - 1 /\ PairDown(r, i + 1, st) => code[n - i] = NoCode
       /\ ~PairDown(r, i, st) /\ ~(i < n - 1 /\ PairDown(r, i + 1, st)) =>
            code[n - i] = Pop(<<s[i + 1]>>, r.ppx)

LEMMA PopsItem ==
  ASSUME NEW r, NEW s, NEW n \in Nat, n = Len(s), NEW st, NEW code, code = Pops(r, s, st)
  PROVE  PopsAre(code, r, s, n, st)
<1> DEFINE at(i) == CASE PairDown(r, i, st) -> Pop(<<s[i + 1], s[i]>>, r.ppx)
                      [] i < n - 1 /\ PairDown(r, i + 1, st) -> NoCode
                      [] OTHER -> Pop(<<s[i + 1]>>, r.ppx)
<1>1. code = [k \in 1..n |-> at(n - k)]
  BY DEF Pops
<1>2. ASSUME NEW i \in 0..(n - 1) PROVE code[n - i] = at(i)
  <2>1. n - i \in 1..n /\ n - (n - i) = i
    OBVIOUS
  <2> HIDE DEF at
  <2>2. code[n - i] = at(n - (n - i))
    BY <1>1, <2>1
  <2>3. QED BY <2>1, <2>2
<1>3. Len(code) = n /\ IsCode(code)
  <2> HIDE DEF at
  <2> DEFINE S == {at(n - k) : k \in 1..n}
  <2>1. code \in [1..n -> S]
    BY <1>1
  <2> HIDE DEF S
  <2>2. code \in Seq(S) /\ Len(code) = n
    BY <2>1
  <2>3. QED BY <2>2 DEF IsCode
<1>4. ASSUME NEW i \in Nat
      PROVE  /\ PairDown(r, i, st) => at(i) = Pop(<<s[i + 1], s[i]>>, r.ppx)
             /\ ~PairDown(r, i, st) /\ i < n - 1 /\ PairDown(r, i + 1, st) => at(i) = NoCode
             /\ ~PairDown(r, i, st) /\ ~(i < n - 1 /\ PairDown(r, i + 1, st)) =>
                  at(i) = Pop(<<s[i + 1]>>, r.ppx)
  <2>1. CASE PairDown(r, i, st)
    <3>1. ~PairDown(r, i + 1, st)
      BY <2>1 DEF PairDown
    <3>2. QED BY <2>1, <3>1, Zenon
  <2>2. CASE ~PairDown(r, i, st) /\ i < n - 1 /\ PairDown(r, i + 1, st)
    BY <2>2, Zenon
  <2>3. CASE ~PairDown(r, i, st) /\ ~(i < n - 1 /\ PairDown(r, i + 1, st))
    BY <2>3, Zenon
  <2>4. QED BY <2>1, <2>2, <2>3
<1> HIDE DEF at
<1>5. ASSUME NEW i \in 0..(n - 1)
      PROVE  /\ PairDown(r, i, st) => code[n - i] = Pop(<<s[i + 1], s[i]>>, r.ppx)
             /\ ~PairDown(r, i, st) /\ i < n - 1 /\ PairDown(r, i + 1, st) => code[n - i] = NoCode
             /\ ~PairDown(r, i, st) /\ ~(i < n - 1 /\ PairDown(r, i + 1, st)) =>
                  code[n - i] = Pop(<<s[i + 1]>>, r.ppx)
  <2>1. i \in Nat
    OBVIOUS
  <2>2. code[n - i] = at(i)
    BY <1>2
  <2>3. QED BY <1>4, <2>1, <2>2
<1>6. QED BY <1>3, <1>5 DEF PopsAre

LEMMA PopsRun ==
  ASSUME NEW c, NEW r, NEW s, NEW n, n = Len(s), SaveFacts(r, s, n), NEW st, st \in {0, 1},
         Popped(c, r, s, n, n)
  PROVE  Popped(Run(c, Pops(r, s, st)), r, s, n, 0)
<1>1. PICK code : code = Pops(r, s, st)
  OBVIOUS
<1>2. n \in Nat /\ \A j \in 1..n : s[j] \in GeneralRegs
  BY DEF SaveFacts
<1>3. PopsAre(code, r, s, n, st) /\ Len(code) = n
  <2>1. PopsAre(code, r, s, n, st)
    BY <1>1, <1>2, PopsItem
  <2>2. QED BY <2>1 DEF PopsAre
<1>4. PICK f : Ran(f, c, code, n) /\ Run(c, code) = f[n]
  BY <1>2, <1>3, RunSteps
<1> DEFINE T == {k \in 0..n : Popped(f[k], r, s, n, Left(r, st, n - 1 - k, n))}
<1>5. 0 \in T
  <2>1. Left(r, st, n - 1 - 0, n) = n
    BY <1>2 DEF Left
  <2>2. f[0] = c
    BY <1>4 DEF Ran
  <2>3. QED BY <1>2, <2>1, <2>2
<1>6. ASSUME NEW k \in 0..(n - 1), k \in T PROVE k + 1 \in T
  <2>1. PICK i : /\ i \in 0..(n - 1) /\ i = n - 1 - k /\ i - 1 = n - 1 - (k + 1)
                 /\ n - i = k + 1
    BY <1>2
  <2>2. Popped(f[k], r, s, n, Left(r, st, i, n))
    BY <1>6, <2>1
  <2>3. f[k + 1] = Exec(f[k], code[k + 1]) /\ k + 1 \in 0..n
    BY <1>2, <1>4 DEF Ran
  <2>4. i - 1 < n - 1 /\ (i - 1) + 1 = i /\ i + 1 \in 1..n /\ (i + 1) - 1 = i
    BY <1>2, <2>1
  <2>5. Left(r, st, i - 1, n) = IF PairDown(r, i, st) THEN i - 1 ELSE i
    BY <2>4 DEF Left
  <2>6. Popped(f[k + 1], r, s, n, Left(r, st, i - 1, n))
    <3>1. CASE PairDown(r, i, st)
      <4>1. i % 2 = 0 /\ i - 1 >= st
        BY <3>1 DEF PairDown
      <4>2. ~PairDown(r, i + 1, st)
        BY <2>1, <4>1 DEF PairDown
      <4>3. Left(r, st, i, n) = i + 1
        BY <4>2 DEF Left
      <4>4. code[k + 1] = Pop(<<s[i + 1], s[i]>>, r.ppx)
        BY <1>3, <2>1, <3>1 DEF PopsAre
      <4>5. i + 1 \in 2..n /\ i \in 1..n /\ (i + 1) - 2 = i - 1
        BY <1>2, <2>1, <4>1
      <4>6. Aligned(f[k].sp)
        <5>1. f[k].sp = -8 * (i + 1)
          BY <2>2, <4>3 DEF Popped
        <5>2. (-8 * (i + 1) + 8) % 16 = 0
          BY <2>1, <4>1
        <5>3. QED BY <5>1, <5>2 DEF Aligned
      <4>7. Popped(Exec(f[k], Pop(<<s[i + 1], s[(i + 1) - 1]>>, r.ppx)), r, s, n, (i + 1) - 2)
        <5>1. s[i + 1] \in GeneralRegs /\ s[(i + 1) - 1] \in GeneralRegs
          BY <1>2, <2>4, <4>5
        <5>2. QED BY <1>2, <2>2, <4>3, <4>5, <4>6, <5>1, PopTwo
      <4>8. QED BY <1>1, <2>3, <2>4, <2>5, <3>1, <4>4, <4>5, <4>7
    <3>2. CASE ~PairDown(r, i, st) /\ i < n - 1 /\ PairDown(r, i + 1, st)
      <4>1. code[k + 1] = NoCode
        BY <1>3, <2>1, <3>2 DEF PopsAre
      <4>2. Left(r, st, i, n) = i
        BY <3>2 DEF Left
      <4>3. QED BY <2>2, <2>3, <2>5, <3>2, <4>1, <4>2, NoCodeIs
    <3>3. CASE ~PairDown(r, i, st) /\ ~(i < n - 1 /\ PairDown(r, i + 1, st))
      <4>1. code[k + 1] = Pop(<<s[i + 1]>>, r.ppx)
        BY <1>3, <2>1, <3>3 DEF PopsAre
      <4>2. Left(r, st, i, n) = i + 1
        BY <3>3 DEF Left
      <4>3. Popped(PopOne(f[k], s[i + 1], r.ppx), r, s, n, (i + 1) - 1)
        BY <1>2, <2>2, <2>4, <4>2, PopNext
      <4>4. QED BY <1>1, <2>3, <2>4, <2>5, <3>3, <4>1, <4>3, PopIs
    <3>4. QED BY <3>1, <3>2, <3>3
  <2>7. QED BY <2>1, <2>3, <2>6
<1>7. n \in T
  <2>1. \A k \in 0..n : k \in T
    <3> HIDE DEF T
    <3>1. QED BY <1>2, <1>5, <1>6, UpTo
  <2>2. QED BY <1>2, <2>1
<1>8. Left(r, st, n - 1 - n, n) = 0
  <2>1. PICK i : i = n - 1 - n /\ i = -1 /\ i + 1 = 0
    BY <1>2
  <2>2. ~PairDown(r, i + 1, st)
    BY <2>1 DEF PairDown
  <2>3. QED BY <2>1, <2>2 DEF Left
<1>9. QED BY <1>1, <1>4, <1>7, <1>8

LEMMA EpilogRun ==
  ASSUME NEW c, NEW r, NEW f, Asked(r), f = Frame(r), NEW s, s = saveRegs(r), NEW n, n = Len(s),
         Worked(c, r, s, n, P_(r, n), vecPos(r), vecSaveNum(r))
  PROVE  Popped(Run(c, Epilog(r, f)), r, s, n, 0)
<1>1. PICK P, vp, V, st, vz :
        /\ P = P_(r, n) /\ vp = vecPos(r) /\ V = vecSaveNum(r) /\ st = Start(r)
        /\ vz = Optional(r.vec.kind = "AVX" /\ ~r.vec.noVz, Vzeroupper)
  OBVIOUS
<1>2. f.saveRegs = s /\ f.P = P
  BY <1>1 DEF Frame
<1>3. SaveFacts(r, s, n) /\ n \in Nat /\ st \in {0, 1}
  <2>1. SaveFacts(r, s, n)
    BY SaveRegsAre
  <2>2. QED BY <1>1, <2>1 DEF SaveFacts, Start
<1>4. Sizes(r, n, P, V, vp) /\ V \in Nat
  <2>1. Sizes(r, n, P, V, vp)
    BY <1>1, <1>3, SizesAre
  <2>2. QED BY <2>1 DEF Sizes
<1>5. PICK c1, c2, c3, c4 :
        /\ c1 = Run(c, <<vz>>) /\ c2 = Run(c1, MoveVecs(r, "load"))
        /\ c3 = Run(c2, <<Optional(P > 0, AddRsp(P))>>) /\ c4 = Run(c3, Pops(r, s, st))
  OBVIOUS
<1>6. Loaded(c1, r, s, n, P, vp, V, 0)
  BY <1>1, <1>5, HalvesAreClean
<1>7. Loaded(c2, r, s, n, P, vp, V, V)
  BY <1>1, <1>3, <1>4, <1>5, <1>6, LoadsRun
<1>8. Popped(c3, r, s, n, n)
  BY <1>3, <1>4, <1>5, <1>7, RspIsBack
<1>9. Popped(c4, r, s, n, 0)
  BY <1>3, <1>5, <1>8, PopsRun
<1>10. Run(c, Epilog(r, f)) = c4
  <2>1. PICK k1, k2, k3, k4 :
          /\ k1 = <<vz>> /\ k2 = MoveVecs(r, "load") /\ k3 = <<Optional(P > 0, AddRsp(P))>>
          /\ k4 = Pops(r, s, st)
    OBVIOUS
  <2>2. Epilog(r, f) = ((k1 \o k2) \o k3) \o k4
    BY <1>1, <1>2, <2>1 DEF Epilog
  <2>3. IsCode(k1) /\ IsCode(k3)
    BY <2>1, RunOne
  <2>4. IsCode(k2)
    BY <1>1, <1>4, <2>1, MoveVecsItem
  <2>5. IsCode(k4)
    BY <1>3, <2>1, PopsItem DEF PopsAre
  <2>6. Run(c, k1 \o k2) = c2 /\ IsCode(k1 \o k2)
    BY <1>5, <2>1, <2>3, <2>4, RunConcat, ConcatFacts
  <2>7. Run(c, (k1 \o k2) \o k3) = c3 /\ IsCode((k1 \o k2) \o k3)
    BY <1>5, <2>1, <2>3, <2>6, RunConcat, ConcatFacts
  <2>8. Run(c, ((k1 \o k2) \o k3) \o k4) = c4
    BY <1>5, <2>1, <2>5, <2>7, RunConcat
  <2>9. QED BY <2>2, <2>8
<1>11. QED BY <1>9, <1>10

-----------------------------------------------------------------------------
(* The call, from stage to stage.                                          *)

\* The inductive invariant: what the machine is at each stage of the call.
StagesAre ==
  LET s == saveRegs(req)
      n == Len(s)
      P == P_(req, n)
      vp == vecPos(req)
      V == vecSaveNum(req)
  IN /\ phase = "none" => m = Machine
     /\ phase = "called" => Pushed(m, req, s, 0, FALSE)
     /\ phase = "entered" => Entered(m, req, s, n, P, vp, V)
     /\ phase = "worked" => Worked(m, req, s, n, P, vp, V)
     /\ phase = "returned" => Popped(m, req, s, n, 0)

LEMMA MachineIsReady ==
  ASSUME NEW r, NEW s, NEW dirty, dirty => r.vec.noVz
  PROVE  Pushed([Machine EXCEPT !.dirty = dirty], r, s, 0, FALSE)
<1>1. PICK d, b, u, w : /\ d = [Machine EXCEPT !.dirty = b] /\ b = dirty
                        /\ u = [x \in GeneralRegs |-> <<"old", x>>]
                        /\ w = [i \in 0..15 |-> <<"old", i>>]
  OBVIOUS
<1>2. PICK st : st = [a \in {0} |-> <<<<"return">>, FALSE>>]
  OBVIOUS
<1>3. /\ d.reg = u /\ d.xmm = w /\ d.sp = 0 /\ d.stack = st /\ d.dirty = b
      /\ d.fault = FALSE /\ d.penalty = FALSE /\ d.mixed = FALSE
  BY <1>1, <1>2 DEF Machine
<1>4. d = [reg |-> d.reg, xmm |-> d.xmm, sp |-> d.sp, stack |-> d.stack, dirty |-> d.dirty,
           fault |-> d.fault, penalty |-> d.penalty, mixed |-> d.mixed]
  BY <1>1, <1>2 DEF Machine
<1>5. IsMachine(d)
  BY <1>1, <1>3, <1>4 DEF IsMachine
<1>6. OldRegs(d, FALSE) /\ OldXmms(d)
  BY <1>1, <1>3 DEF OldRegs, OldXmms
<1>7. SavedCells(d, r, s, 0)
  <2>1. Holds(st, 0, <<<<"return">>, FALSE>>)
    BY <1>2 DEF Holds
  <2>2. \A j \in 1..0 : FALSE
    OBVIOUS
  <2>3. QED BY <1>3, <2>1, <2>2 DEF SavedCells
<1>8. Quiet(d) /\ d.sp = -8 * 0 /\ (d.dirty => r.vec.noVz)
  BY <1>1, <1>3 DEF Quiet
<1>9. Pushed(d, r, s, 0, FALSE)
  BY <1>5, <1>6, <1>7, <1>8 DEF Pushed
<1>10. QED BY <1>1, <1>9

LEMMA StagesAreNext == FrameIs /\ StagesAre /\ [Next]_vars => StagesAre'
<1>1. ASSUME Call PROVE StagesAre'
  <2>1. PICK r \in Requests :
          /\ \E dirty \in IF r.vec.noVz THEN BOOLEAN ELSE {FALSE} :
               m' = [Machine EXCEPT !.dirty = dirty]
          /\ req' = r
    BY <1>1 DEF Call
  <2>2. PICK dirty : m' = [Machine EXCEPT !.dirty = dirty] /\ (dirty => r.vec.noVz)
    BY <2>1
  <2>3. Pushed(m', r, saveRegs(r), 0, FALSE)
    BY <2>2, MachineIsReady
  <2>4. phase' = "called"
    BY <1>1 DEF Call
  <2>5. QED BY <2>1, <2>3, <2>4 DEF StagesAre
<1>2. ASSUME FrameIs, StagesAre, Enter PROVE StagesAre'
  <2>1. PICK s, n : s = saveRegs(req) /\ n = Len(s)
    OBVIOUS
  <2>2. /\ phase = "called" /\ phase' = "entered" /\ m' = Run(m, Prolog(req, sf))
        /\ req' = req /\ Asked(req) /\ sf = Frame(req)
    BY <1>2 DEF Enter, FrameIs
  <2>3. Pushed(m, req, s, 0, FALSE)
    BY <1>2, <2>1, <2>2 DEF StagesAre
  <2>4. Entered(m', req, s, n, P_(req, n), vecPos(req), vecSaveNum(req))
    BY <2>1, <2>2, <2>3, PrologRun
  <2>5. QED BY <2>1, <2>2, <2>4 DEF StagesAre
<1>3. ASSUME FrameIs, StagesAre, Work PROVE StagesAre'
  <2>1. PICK s, n, P, vp, V : /\ s = saveRegs(req) /\ n = Len(s) /\ P = P_(req, n)
                              /\ vp = vecPos(req) /\ V = vecSaveNum(req)
    OBVIOUS
  <2>2. phase = "entered" /\ phase' = "worked" /\ req' = req /\ Asked(req)
    BY <1>3 DEF Work, FrameIs
  <2>3. Entered(m, req, s, n, P, vp, V)
    BY <1>3, <2>1, <2>2 DEF StagesAre
  <2>4. Sizes(req, n, P, V, vp)
    <3>1. n \in Nat
      BY <2>1, <2>2, SaveRegsAre DEF SaveFacts
    <3>2. QED BY <2>1, <2>2, <3>1, SizesAre
  <2>5. Worked(m', req, s, n, P, vp, V)
    BY <1>3, <2>1, <2>3, <2>4, WorkIsMine
  <2>6. QED BY <2>1, <2>2, <2>5 DEF StagesAre
<1>4. ASSUME FrameIs, StagesAre, Close PROVE StagesAre'
  <2>1. PICK s, n : s = saveRegs(req) /\ n = Len(s)
    OBVIOUS
  <2>2. /\ phase = "worked" /\ phase' = "returned" /\ m' = Run(m, Epilog(req, sf))
        /\ req' = req /\ Asked(req) /\ sf = Frame(req)
    BY <1>4 DEF Close, FrameIs
  <2>3. Worked(m, req, s, n, P_(req, n), vecPos(req), vecSaveNum(req))
    BY <1>4, <2>1, <2>2 DEF StagesAre
  <2>4. Popped(m', req, s, n, 0)
    BY <2>1, <2>2, <2>3, EpilogRun
  <2>5. QED BY <2>1, <2>2, <2>4 DEF StagesAre
<1>5. ASSUME Return PROVE StagesAre'
  BY <1>5 DEF StagesAre, Return
<1>6. ASSUME StagesAre, UNCHANGED vars PROVE StagesAre'
  BY <1>6 DEF StagesAre, vars
<1>7. QED BY <1>1, <1>2, <1>3, <1>4, <1>5, <1>6 DEF Next

\* At each stage of every call the machine is what its stage says.
THEOREM StagesFollow == Spec => [](FrameIs /\ StagesAre)
<1>1. Init => FrameIs /\ StagesAre
  BY DEF Init, FrameIs, StagesAre
<1>2. FrameIs /\ StagesAre /\ [Next]_vars => FrameIs' /\ StagesAre'
  BY FrameIsNext, StagesAreNext
<1>3. QED BY <1>1, <1>2, PTL DEF Spec

LEMMA CallerAtReturn == FrameIs /\ StagesAre => CallerKeepsItsOwn
<1>1. SUFFICES ASSUME FrameIs, StagesAre, phase = "returned" PROVE CallerKeepsItsOwn
  BY DEF CallerKeepsItsOwn
<1>2. PICK s, n : Popped(m, req, s, n, 0)
  BY <1>1 DEF StagesAre
<1>3. \A j \in 1..0 : FALSE
  OBVIOUS
<1>4. /\ m.sp = 0 /\ m.stack[0] = <<<<"return">>, FALSE>>
      /\ \A x \in CalleeSaved(req.abi) : m.reg[x] = <<"old", x>>
      /\ \A i \in CalleeSavedXmm(req.abi) : m.xmm[i] = <<"old", i>>
  <2>1. m.sp = 0 /\ \A i \in CalleeSavedXmm(req.abi) : m.xmm[i] = <<"old", i>>
    <3>1. PICK k \in Int : k = 0 /\ k <= 0 /\ k >= 0
      OBVIOUS
    <3>2. m.sp = -8 * k /\ \A i \in CalleeSavedXmm(req.abi) : m.xmm[i] = <<"old", i>>
      BY <1>2, <3>1 DEF Popped
    <3>3. \A l \in Int : l <= 0 /\ l >= 0 => -8 * l = 0
      OBVIOUS
    <3>4. QED BY <3>1, <3>2, <3>3
  <2>2. Holds(m.stack, 0, <<<<"return">>, FALSE>>)
    BY <1>2 DEF Popped, SavedCells
  <2>3. \A x \in CalleeSaved(req.abi) : m.reg[x] = <<"old", x>>
    BY <1>2, <1>3 DEF Popped
  <2>4. QED BY <2>1, <2>2, <2>3 DEF Holds
<1>5. QED BY <1>4 DEF CallerKeepsItsOwn

\* For every request, and whatever the client does with what is its own, the
\* caller finds its registers and its stack as they were.
THEOREM CallerIsUntouched == Spec => []CallerKeepsItsOwn
<1>1. FrameIs /\ StagesAre => CallerKeepsItsOwn
  BY CallerAtReturn
<1>2. QED BY <1>1, StagesFollow, PTL

LEMMA ArgumentsAtEntry == FrameIs /\ StagesAre => ArgumentsArrive
<1>1. SUFFICES ASSUME FrameIs, StagesAre, phase = "entered" PROVE ArgumentsArrive
  BY DEF ArgumentsArrive
<1>2. PICK s, n, P, vp, V : Entered(m, req, s, n, P, vp, V) /\ s = saveRegs(req) /\ n = Len(s)
  BY <1>1 DEF StagesAre
<1>3. Asked(req) /\ sf = Frame(req)
  BY <1>1 DEF FrameIs
<1>4. ASSUME NEW i \in 1..req.pNum
      PROVE  m.reg[sf.p[i]] = <<"old", ArgumentRegs(req.abi)[i]>>
  <2>1. sf.p[i] = getRegs(req)[i]
    BY <1>3, TablesFacts
  <2>2. QED BY <1>2, <2>1 DEF Entered
<1>5. ASSUME req.framePointer
      PROVE  m.reg["rbp"] = <<"sp", -8>> /\ m.stack[-8][1] = <<"old", "rbp">>
  <2>1. "rbp" \in GeneralRegs \ {"r8", "r9", "r10", "r11"}
    BY GeneralRegsAre DEF Names
  <2>2. m.reg["rbp"] = <<"sp", -8>>
    BY <1>2, <1>5, <2>1 DEF Entered
  <2>3. n \in Nat /\ n >= 1 /\ s[1] = "rbp"
    BY <1>2, <1>3, <1>5, SaveRegsAre DEF Asked, SaveFacts
  <2>4. 1 \in 1..n /\ -8 * 1 = -8
    BY <2>3
  <2>5. PICK v, ppx : v = <<"old", "rbp">> /\ ppx = req.ppx
    OBVIOUS
  <2>6. Holds(m.stack, -8, <<v, ppx>>)
    <3>1. Holds(m.stack, -8 * 1, <<<<"old", s[1]>>, req.ppx>>)
      BY <1>2, <2>4 DEF Entered, SavedCells
    <3>2. QED BY <2>3, <2>4, <2>5, <3>1
  <2>7. m.stack[-8][1] = v
    <3>1. m.stack[-8] = <<v, ppx>>
      BY <2>6 DEF Holds
    <3>2. QED BY <3>1
  <2>8. QED BY <2>2, <2>5, <2>7
<1>6. QED BY <1>4, <1>5 DEF ArgumentsArrive

\* For every request, the arguments are in p when the client's code begins,
\* and the frame pointer points at the caller's rbp.
THEOREM ArgumentsAreThere == Spec => []ArgumentsArrive
<1>1. FrameIs /\ StagesAre => ArgumentsArrive
  BY ArgumentsAtEntry
<1>2. QED BY <1>1, StagesFollow, PTL

LEMMA QuietAtAllStages == FrameIs /\ StagesAre => Quiet(m)
<1>1. Quiet(Machine)
  <2>1. Machine.fault = FALSE /\ Machine.penalty = FALSE /\ Machine.mixed = FALSE
    BY DEF Machine
  <2>2. QED BY <2>1 DEF Quiet
<1>2. QED BY <1>1 DEF FrameIs, StagesAre, Pushed, Entered, Worked, Popped

LEMMA AlignedAtEntry == FrameIs /\ StagesAre => Alignment
<1>1. SUFFICES ASSUME FrameIs, StagesAre, phase = "entered", req.stack > 0 PROVE Aligned(m.sp)
  BY QuietAtAllStages DEF Alignment, Quiet
<1>2. PICK s, n, P, vp, V : /\ Entered(m, req, s, n, P, vp, V) /\ s = saveRegs(req) /\ n = Len(s)
                            /\ P = P_(req, n) /\ vp = vecPos(req) /\ V = vecSaveNum(req)
  BY <1>1 DEF StagesAre
<1>3. Asked(req) /\ n \in Nat
  BY <1>1, <1>2, SaveRegsAre DEF FrameIs, SaveFacts
<1>4. Sizes(req, n, P, V, vp)
  BY <1>2, <1>3, SizesAre
<1>5. Aligned(-8 * n - P) /\ m.sp = -8 * n - P
  BY <1>1, <1>2, <1>4 DEF Sizes, Entered
<1>6. QED BY <1>5

\* For every request, no push2, pop2, movaps or vmovaps faults, and rsp is
\* aligned when the client has a local stack.
THEOREM StackIsAligned == Spec => []Alignment
<1>1. FrameIs /\ StagesAre => Alignment
  BY AlignedAtEntry
<1>2. QED BY <1>1, StagesFollow, PTL

\* For every request, pushp and popp are paired, and no movaps meets dirty
\* upper halves.
THEOREM HintsMatch == Spec => []HintsAndHalves
<1>1. FrameIs /\ StagesAre => HintsAndHalves
  BY QuietAtAllStages DEF Quiet, HintsAndHalves
<1>2. QED BY <1>1, StagesFollow, PTL
=============================================================================

---- MODULE Wire_proofs ----
(***************************************************************************)
(* Theorems about Wire: for bytes of any size, any flag and escape byte    *)
(* that the assumption admits, any replies and any damage.                 *)
(***************************************************************************)
EXTENDS Wire, SequenceTheorems, FiniteSetTheorems, WellFoundedInduction, TLAPS

----
(***************************************************************************)
(* Counting up.                                                            *)
(***************************************************************************)
LEMMA LeastIndex ==
    ASSUME NEW T, T \subseteq Nat, T # {}
    PROVE  \E m \in T : \A n \in T : m <= n
<1>1. PICK m \in T : \A n \in T : <<n, m>> \notin OpToRel(<, Nat)
  BY WFMin, NatLessThanWellFounded, Zenon
<1>2. \A n \in T : ~(n < m)
  BY <1>1, Zenon DEF OpToRel
<1> QED
  BY <1>2

\* Induction up to a number, for what a set T says of the numbers.
LEMMA CountUp ==
    ASSUME NEW k \in Nat, NEW n \in Nat, NEW T, k \in T,
           \A i \in k + 1 .. n : i - 1 \in T => i \in T
    PROVE  k .. n \subseteq T
<1> DEFINE Missing == {i \in k .. n : i \notin T}
<1> SUFFICES ASSUME Missing # {} PROVE FALSE
  OBVIOUS
<1>1. Missing \subseteq Nat
  OBVIOUS
<1>2. PICK m \in Missing : \A i \in Missing : m <= i
  <2> HIDE DEF Missing
  <2> QED
    BY <1>1, LeastIndex
<1>3. m \in k + 1 .. n /\ m - 1 \in k .. n
  OBVIOUS
<1>4. m - 1 \in T
  BY <1>2, <1>3
<1> QED
  BY <1>3, <1>4

\* A loop over n inputs, each of which maps a state in S to one in S, has a run.
Steps(S, n, g) == g \in [1 .. n -> [S -> S]]
Runs(S, b, n, g, h) ==
    h \in [0 .. n -> S] /\ h[0] = b /\ \A i \in 1 .. n : h[i] = g[i][h[i - 1]]

LEMMA LoopExists ==
    ASSUME NEW S, NEW b \in S, NEW n \in Nat, NEW g, Steps(S, n, g)
    PROVE  \E h : Runs(S, b, n, g, h)
<1> DEFINE Run(h, m) == /\ h \in [0 .. m -> S] /\ h[0] = b
                        /\ \A i \in 1 .. m : h[i] = g[i][h[i - 1]]
           T == {m \in 0 .. n : \E h : Run(h, m)}
<1>1. 0 \in T
  <2>1. Run([i \in 0 .. 0 |-> b], 0)
    OBVIOUS
  <2> HIDE DEF Run
  <2> QED
    BY <2>1
<1>2. ASSUME NEW m \in 0 + 1 .. n, m - 1 \in T PROVE m \in T
  <2>1. PICK h : Run(h, m - 1)
    BY <1>2
  <2> DEFINE k == [i \in 0 .. m |-> IF i = m THEN g[m][h[m - 1]] ELSE h[i]]
  <2>2. m \in 1 .. n /\ m - 1 \in 0 .. m - 1 /\ h[m - 1] \in S /\ g[m] \in [S -> S]
    BY <2>1 DEF Steps
  <2>3. k \in [0 .. m -> S]
    BY <2>1, <2>2
  <2>4. k[0] = b
    BY <2>1, <2>2
  <2>5. ASSUME NEW i \in 1 .. m PROVE k[i] = g[i][k[i - 1]]
    <3>1. CASE i = m
      BY <2>2, <3>1
    <3>2. CASE i # m
      <4>1. i \in 1 .. m - 1 /\ i - 1 # m /\ i \in 0 .. m /\ i - 1 \in 0 .. m
        BY <3>2
      <4>2. h[i] = g[i][h[i - 1]]
        BY <2>1, <4>1
      <4> QED
        BY <3>2, <4>1, <4>2
    <3> QED
      BY <3>1, <3>2
  <2>6. Run(k, m)
    <3> HIDE DEF k
    <3> QED
      BY <2>3, <2>4, <2>5
  <2> HIDE DEF Run, k
  <2> QED
    BY <2>2, <2>6
<1>3. 0 .. n \subseteq T
  <2> HIDE DEF T
  <2> QED
    BY <1>1, <1>2, CountUp
<1>4. n \in T
  BY <1>3
<1> QED
  BY <1>4 DEF Runs

----
(***************************************************************************)
(* Bytes and the escaping of one.                                          *)
(***************************************************************************)
LEMMA BaseFacts ==
    /\ Base \in Nat /\ Base > 0 /\ FieldSize \in Nat /\ FieldSize > 0
    /\ Byte \subseteq Nat /\ 0 \in Byte /\ Bit \in Nat /\ Bit > 0
    /\ Flag \in Byte /\ Escape \in Byte /\ Flag # Escape
<1>1. Base \in Nat /\ Base > 0
  BY WireAssumption
<1>2. \A n \in Nat : n > 0 => n * n \in Nat /\ n * n > 0
  OBVIOUS
<1>3. FieldSize \in Nat /\ FieldSize > 0
  BY <1>1, <1>2 DEF FieldSize
<1>4. Bit \in Nat /\ Bit > 0
  BY WireAssumption
<1> QED
  BY <1>1, <1>3, <1>4, WireAssumption DEF Byte

LEMMA FlipTwice ==
    ASSUME NEW b \in Byte, Flip(b) \in Byte
    PROVE  Flip(Flip(b)) = b
<1>1. Bit \in Nat /\ Bit > 0 /\ b \in Nat /\ Flip(b) \in Nat
  BY BaseFacts
<1>2. CASE (b \div Bit) % 2 = 1
  <2>1. Flip(b) = b - Bit /\ b >= Bit
    BY <1>1, <1>2 DEF Flip
  <2>2. (b - Bit) \div Bit = (b \div Bit) - 1
    BY <1>1, <2>1, Z3
  <2>3. b \div Bit \in Nat
    BY <1>1, Z3
  <2>4. ((b - Bit) \div Bit) % 2 # 1
    BY <1>2, <2>2, <2>3
  <2> QED
    BY <1>1, <2>1, <2>4 DEF Flip
<1>3. CASE (b \div Bit) % 2 # 1
  <2>1. Flip(b) = b + Bit
    BY <1>3 DEF Flip
  <2>2. (b + Bit) \div Bit = (b \div Bit) + 1
    BY <1>1, Z3
  <2>3. b \div Bit \in Nat
    BY <1>1, Z3
  <2>4. ((b + Bit) \div Bit) % 2 = 1
    BY <1>3, <2>2, <2>3
  <2> QED
    BY <1>1, <2>1, <2>4 DEF Flip
<1> QED
  BY <1>2, <1>3

\* A flipped byte is a byte, and flipping it again gives it back where it is needed.
LEMMA EscapedFacts ==
    ASSUME NEW b \in Byte
    PROVE  /\ Escaped(b) \in Seq(Byte) /\ Len(Escaped(b)) \in 1 .. 2
           /\ \A i \in 1 .. Len(Escaped(b)) : Escaped(b)[i] # Flag
           /\ b \notin {Flag, Escape} => Escaped(b) = <<b>>
           /\ b \in {Flag, Escape} => /\ Escaped(b) = <<Escape, Flip(b)>>
                                      /\ Flip(Flip(b)) = b
<1>1. Flip(b) \in Byte
  BY WireAssumption
<1>2. CASE b \notin {Flag, Escape}
  BY <1>2, BaseFacts DEF Escaped
<1>3. CASE b \in {Flag, Escape}
  <2>1. Flip(b) \notin {Flag, Escape}
    BY <1>3, WireAssumption
  <2>2. Escaped(b) = <<Escape, Flip(b)>>
    BY <1>3 DEF Escaped
  <2>3. Escaped(b) \in Seq(Byte) /\ Len(Escaped(b)) = 2
        /\ Escaped(b)[1] = Escape /\ Escaped(b)[2] = Flip(b)
    BY <1>1, <2>2, BaseFacts
  <2> QED
    BY <1>1, <1>3, <2>1, <2>2, <2>3, BaseFacts, FlipTwice
<1> QED
  BY <1>2, <1>3

----
(***************************************************************************)
(* escape and unescape, each as the run of a loop.                         *)
(***************************************************************************)
EscapeRun(s, e) ==
    /\ e \in [0 .. Len(s) -> Seq(Byte)] /\ e[0] = <<>>
    /\ \A n \in 1 .. Len(s) : e[n] = e[n - 1] \o Escaped(s[n])

LEMMA EscapeLoop ==
    ASSUME NEW s \in Seq(Byte)
    PROVE  \E e : EscapeRun(s, e) /\ EscapeBytes(s) = e[Len(s)]
<1> DEFINE S == Seq(Byte)
           b == <<>>
           N == Len(s)
           Step(x, n) == x \o Escaped(s[n])
           Body(h) == [n \in 0 .. N |-> IF n = 0 THEN b ELSE Step(h[n - 1], n)]
           e == CHOOSE h : h = Body(h)
           g == [n \in 1 .. N |-> [x \in S |-> Step(x, n)]]
<1>1. N \in Nat /\ \A n \in 1 .. N : s[n] \in Byte
  BY LenProperties
<1>2. b \in S
  OBVIOUS
<1>3. \A n \in 1 .. N, x \in S : Step(x, n) \in S
  BY <1>1, EscapedFacts
<1>4. EscapeBytes(s) = e[N]
  BY DEF EscapeBytes
<1>5. ASSUME NEW h \in [0 .. N -> S], h[0] = b, \A n \in 1 .. N : h[n] = Step(h[n - 1], n)
      PROVE  EscapeRun(s, h)
  BY <1>5 DEF EscapeRun
<1> HIDE DEF S, b, Step
<1>6. Steps(S, N, g)
  BY <1>3 DEF Steps
<1> HIDE DEF N
<1>7. PICK h : Runs(S, b, N, g, h)
  <2> HIDE DEF g
  <2> QED
    BY <1>1, <1>2, <1>6, LoopExists, Zenon
<1>8. \A i \in 1 .. N : h[i] = Step(h[i - 1], i)
  <2> SUFFICES ASSUME NEW i \in 1 .. N PROVE h[i] = Step(h[i - 1], i)
    OBVIOUS
  <2>1. h[i - 1] \in S
    BY <1>1, <1>7 DEF Runs
  <2> QED
    BY <1>7, <2>1 DEF Runs
<1>9. h = Body(h)
  BY <1>1, <1>7, <1>8 DEF Runs
<1>10. e = Body(e)
  <2> HIDE DEF Body
  <2> QED
    BY <1>9
<1> HIDE DEF e
<1>11. e[0] = b /\ \A n \in 1 .. N : e[n] = Step(e[n - 1], n)
  <2>1. \A n \in 0 .. N : e[n] = IF n = 0 THEN b ELSE Step(e[n - 1], n)
    BY <1>10
  <2> QED
    BY <1>1, <2>1
<1>12. e \in [0 .. N -> S]
  <2> DEFINE T == {n \in 0 .. N : e[n] \in S}
  <2>1. 0 \in T
    BY <1>1, <1>2, <1>11
  <2>2. ASSUME NEW n \in 0 + 1 .. N, n - 1 \in T PROVE n \in T
    BY <1>1, <1>3, <1>11, <2>2
  <2>3. 0 .. N \subseteq T
    <3> HIDE DEF T
    <3> QED
      BY <1>1, <2>1, <2>2, CountUp
  <2>4. e = [n \in 0 .. N |-> e[n]]
    BY <1>10
  <2> QED
    BY <2>3, <2>4
<1>13. EscapeRun(s, e)
  BY <1>5, <1>11, <1>12
<1> QED
  BY <1>4, <1>13 DEF N

\* What unescape can have on its way.
Readers == [out : Seq(Byte), escape : BOOLEAN]

LEMMA UnescapedType ==
    ASSUME NEW r \in Readers, NEW b \in Byte
    PROVE  Unescaped(r, b) \in Readers
<1>1. Flip(b) \in Byte
  BY WireAssumption
<1> QED
  BY <1>1 DEF Readers, Unescaped

UnescapeRun(s, u) ==
    /\ u \in [0 .. Len(s) -> Readers] /\ u[0] = [out |-> <<>>, escape |-> FALSE]
    /\ \A n \in 1 .. Len(s) : u[n] = Unescaped(u[n - 1], s[n])

LEMMA UnescapeLoop ==
    ASSUME NEW s \in Seq(Byte)
    PROVE  \E e : UnescapeRun(s, e) /\ Unescape(s) = e[Len(s)].out
<1> DEFINE S == Readers
           b == [out |-> <<>>, escape |-> FALSE]
           N == Len(s)
           Step(x, n) == Unescaped(x, s[n])
           Body(h) == [n \in 0 .. N |-> IF n = 0 THEN b ELSE Step(h[n - 1], n)]
           e == CHOOSE h : h = Body(h)
           g == [n \in 1 .. N |-> [x \in S |-> Step(x, n)]]
<1>1. N \in Nat /\ \A n \in 1 .. N : s[n] \in Byte
  BY LenProperties
<1>2. b \in S
  BY DEF Readers
<1>3. \A n \in 1 .. N, x \in S : Step(x, n) \in S
  BY <1>1, UnescapedType
<1>4. Unescape(s) = e[N].out
  BY DEF Unescape
<1>5. ASSUME NEW h \in [0 .. N -> S], h[0] = b, \A n \in 1 .. N : h[n] = Step(h[n - 1], n)
      PROVE  UnescapeRun(s, h)
  BY <1>5 DEF UnescapeRun
<1> HIDE DEF S, b, Step
<1>6. Steps(S, N, g)
  BY <1>3 DEF Steps
<1> HIDE DEF N
<1>7. PICK h : Runs(S, b, N, g, h)
  <2> HIDE DEF g
  <2> QED
    BY <1>1, <1>2, <1>6, LoopExists, Zenon
<1>8. \A i \in 1 .. N : h[i] = Step(h[i - 1], i)
  <2> SUFFICES ASSUME NEW i \in 1 .. N PROVE h[i] = Step(h[i - 1], i)
    OBVIOUS
  <2>1. h[i - 1] \in S
    BY <1>1, <1>7 DEF Runs
  <2> QED
    BY <1>7, <2>1 DEF Runs
<1>9. h = Body(h)
  BY <1>1, <1>7, <1>8 DEF Runs
<1>10. e = Body(e)
  <2> HIDE DEF Body
  <2> QED
    BY <1>9
<1> HIDE DEF e
<1>11. e[0] = b /\ \A n \in 1 .. N : e[n] = Step(e[n - 1], n)
  <2>1. \A n \in 0 .. N : e[n] = IF n = 0 THEN b ELSE Step(e[n - 1], n)
    BY <1>10
  <2> QED
    BY <1>1, <2>1
<1>12. e \in [0 .. N -> S]
  <2> DEFINE T == {n \in 0 .. N : e[n] \in S}
  <2>1. 0 \in T
    BY <1>1, <1>2, <1>11
  <2>2. ASSUME NEW n \in 0 + 1 .. N, n - 1 \in T PROVE n \in T
    BY <1>1, <1>3, <1>11, <2>2
  <2>3. 0 .. N \subseteq T
    <3> HIDE DEF T
    <3> QED
      BY <1>1, <2>1, <2>2, CountUp
  <2>4. e = [n \in 0 .. N |-> e[n]]
    BY <1>10
  <2> QED
    BY <2>3, <2>4
<1>13. UnescapeRun(s, e)
  BY <1>5, <1>11, <1>12
<1> QED
  BY <1>4, <1>13 DEF N

\* A checksum is a number, whatever it is taken over.
LEMMA SumIsNat ==
    ASSUME NEW s \in Seq(Byte)
    PROVE  SprdSum(s) \in Nat
<1> DEFINE S == Nat
           b == 0
           N == Len(s)
           Step(x, n) == x + s[n] * (IF n % 2 = 1 THEN 1 ELSE Base)
           Body(h) == [n \in 0 .. N |-> IF n = 0 THEN b ELSE Step(h[n - 1], n)]
           e == CHOOSE h : h = Body(h)
           g == [n \in 1 .. N |-> [x \in S |-> Step(x, n)]]
<1>1. N \in Nat /\ \A n \in 1 .. N : s[n] \in Byte
  BY LenProperties
<1>2. b \in S
  OBVIOUS
<1>3. \A n \in 1 .. N, x \in S : Step(x, n) \in S
  <2>1. \A c, d \in Nat : c * d \in Nat
    OBVIOUS
  <2> SUFFICES ASSUME NEW n \in 1 .. N, NEW x \in Nat PROVE Step(x, n) \in Nat
    OBVIOUS
  <2>2. s[n] \in Nat /\ (IF n % 2 = 1 THEN 1 ELSE Base) \in Nat
    BY <1>1, BaseFacts
  <2>3. s[n] * (IF n % 2 = 1 THEN 1 ELSE Base) \in Nat
    BY <2>1, <2>2
  <2> QED
    BY <2>3
<1>4. e[N] \in Nat => SprdSum(s) \in Nat
  <2> DEFINE total  == e[N]
             once   == (total \div FieldSize) + (total % FieldSize)
             folded == FieldSize - 1 - ((once + (once \div FieldSize)) % FieldSize)
  <2>1. SprdSum(s) = (folded \div Base) + (folded % Base) * Base
    BY DEF SprdSum
  <2> HIDE DEF e
  <2> SUFFICES ASSUME total \in Nat PROVE SprdSum(s) \in Nat
    OBVIOUS
  <2> HIDE DEF total
  <2>2. once \in Nat
    BY BaseFacts, Z3
  <2> HIDE DEF once
  <2>3. folded \in Nat
    <3>1. once \div FieldSize \in Nat
      BY <2>2, BaseFacts, Z3
    <3>2. (once + (once \div FieldSize)) % FieldSize \in 0 .. FieldSize - 1
      BY <2>2, <3>1, BaseFacts
    <3> QED
      BY <3>2, BaseFacts
  <2> HIDE DEF folded
  <2>4. folded \div Base \in Nat /\ folded % Base \in Nat
    BY <2>3, BaseFacts, Z3
  <2>5. \A c, d \in Nat : c * d \in Nat
    OBVIOUS
  <2>6. (folded % Base) * Base \in Nat
    BY <2>4, <2>5, BaseFacts
  <2> QED
    BY <2>1, <2>4, <2>6
<1> HIDE DEF S, b, Step
<1>6. Steps(S, N, g)
  BY <1>3 DEF Steps
<1> HIDE DEF N
<1>7. PICK h : Runs(S, b, N, g, h)
  <2> HIDE DEF g
  <2> QED
    BY <1>1, <1>2, <1>6, LoopExists, Zenon
<1>8. \A i \in 1 .. N : h[i] = Step(h[i - 1], i)
  <2> SUFFICES ASSUME NEW i \in 1 .. N PROVE h[i] = Step(h[i - 1], i)
    OBVIOUS
  <2>1. h[i - 1] \in S
    BY <1>1, <1>7 DEF Runs
  <2> QED
    BY <1>7, <2>1 DEF Runs
<1>9. h = Body(h)
  BY <1>1, <1>7, <1>8 DEF Runs
<1>10. e = Body(e)
  <2> HIDE DEF Body
  <2> QED
    BY <1>9
<1> HIDE DEF e
<1>11. e[0] = b /\ \A n \in 1 .. N : e[n] = Step(e[n - 1], n)
  <2>1. \A n \in 0 .. N : e[n] = IF n = 0 THEN b ELSE Step(e[n - 1], n)
    BY <1>10
  <2> QED
    BY <1>1, <2>1
<1>12. e \in [0 .. N -> S]
  <2> DEFINE T == {n \in 0 .. N : e[n] \in S}
  <2>1. 0 \in T
    BY <1>1, <1>2, <1>11
  <2>2. ASSUME NEW n \in 0 + 1 .. N, n - 1 \in T PROVE n \in T
    BY <1>1, <1>3, <1>11, <2>2
  <2>3. 0 .. N \subseteq T
    <3> HIDE DEF T
    <3> QED
      BY <1>1, <2>1, <2>2, CountUp
  <2>4. e = [n \in 0 .. N |-> e[n]]
    BY <1>10
  <2> QED
    BY <2>3, <2>4
<1> QED
  BY <1>1, <1>4, <1>12 DEF S

\* r is s and t behind it.
Joins(r, s, t) ==
    /\ r \in Seq(Byte) /\ s \in Seq(Byte) /\ t \in Seq(Byte)
    /\ Len(r) \in Nat /\ Len(s) \in Nat /\ Len(t) \in Nat
    /\ Len(r) = Len(s) + Len(t)
    /\ \A i \in 1 .. Len(s) : r[i] = s[i]
    /\ \A j \in 1 .. Len(t) : r[Len(s) + j] = t[j]

LEMMA Concatenated ==
    ASSUME NEW s \in Seq(Byte), NEW t \in Seq(Byte)
    PROVE  Joins(s \o t, s, t)
<1>1. /\ s \o t \in Seq(Byte) /\ Len(s \o t) = Len(s) + Len(t)
      /\ \A i \in 1 .. Len(s) + Len(t) : (s \o t)[i] = IF i <= Len(s) THEN s[i] ELSE t[i - Len(s)]
  BY ConcatProperties
<1>2. Len(s) \in Nat /\ Len(t) \in Nat
  BY LenProperties
<1>3. ASSUME NEW j \in 1 .. Len(t) PROVE (s \o t)[Len(s) + j] = t[j]
  <2>1. /\ Len(s) + j \in 1 .. Len(s) + Len(t) /\ ~(Len(s) + j <= Len(s))
        /\ Len(s) + j - Len(s) = j
    BY <1>2
  <2> QED
    BY <1>1, <2>1
<1>4. \A i \in 1 .. Len(s) : i \in 1 .. Len(s) + Len(t) /\ i <= Len(s)
  BY <1>2
<1> QED
  BY <1>1, <1>2, <1>3, <1>4 DEF Joins

LEMMA JoinsAt ==
    ASSUME NEW r, NEW s, NEW t, Joins(r, s, t), NEW i \in 1 .. Len(r)
    PROVE  /\ i <= Len(s) => r[i] = s[i]
           /\ \A j \in 1 .. Len(t) : i = Len(s) + j => r[i] = t[j]
  BY DEF Joins

\* What escape has after n bytes is the beginning of what it has in the end.
LEMMA EscapeGrows ==
    ASSUME NEW s \in Seq(Byte), NEW e, EscapeRun(s, e), NEW k \in 0 .. Len(s)
    PROVE  \A m \in k .. Len(s) : /\ Len(e[k]) <= Len(e[m])
                                  /\ \A i \in 1 .. Len(e[k]) : e[m][i] = e[k][i]
<1> DEFINE T == {m \in k .. Len(s) : /\ Len(e[k]) <= Len(e[m])
                                     /\ \A i \in 1 .. Len(e[k]) : e[m][i] = e[k][i]}
<1>1. Len(s) \in Nat /\ k \in Nat /\ \A n \in 1 .. Len(s) : s[n] \in Byte
  BY LenProperties
<1>2. \A n \in 0 .. Len(s) : e[n] \in Seq(Byte) /\ Len(e[n]) \in Nat
  BY DEF EscapeRun
<1>3. k \in T
  BY <1>1, <1>2
<1>4. ASSUME NEW m \in k + 1 .. Len(s), m - 1 \in T PROVE m \in T
  <2> DEFINE p == Escaped(s[m])
  <2>1. m \in 1 .. Len(s) /\ m - 1 \in 0 .. Len(s)
    BY <1>1
  <2>2. Joins(e[m], e[m - 1], p)
    <3>1. e[m] = e[m - 1] \o p /\ e[m - 1] \in Seq(Byte) /\ p \in Seq(Byte)
      BY <1>1, <1>2, <2>1, EscapedFacts DEF EscapeRun
    <3> QED
      BY <3>1, Concatenated, Zenon
  <2> HIDE DEF p
  <2>3. /\ Len(e[m]) = Len(e[m - 1]) + Len(p) /\ Len(p) \in Nat /\ Len(e[m - 1]) \in Nat
        /\ \A i \in 1 .. Len(e[m - 1]) : e[m][i] = e[m - 1][i]
    BY <2>2 DEF Joins
  <2>4. Len(e[k]) <= Len(e[m - 1]) /\ Len(e[k]) \in Nat
    BY <1>1, <1>2, <1>4
  <2>5. Len(e[k]) <= Len(e[m])
    BY <2>1, <2>3, <2>4
  <2>6. ASSUME NEW i \in 1 .. Len(e[k]) PROVE e[m][i] = e[k][i]
    <3>1. i \in 1 .. Len(e[m - 1])
      BY <2>3, <2>4
    <3> QED
      BY <1>4, <2>3, <3>1
  <2> QED
    BY <2>1, <2>5, <2>6
<1>5. k .. Len(s) \subseteq T
  <2> HIDE DEF T
  <2> QED
    BY <1>1, <1>3, <1>4, CountUp
<1> QED
  BY <1>5

\* Each byte adds one or two that are no flags, and stands where it was put.
LEMMA EscapePieces ==
    ASSUME NEW s \in Seq(Byte), NEW e, EscapeRun(s, e), NEW n \in 1 .. Len(s),
           NEW p, p = Escaped(s[n])
    PROVE  /\ e[n - 1] \in Seq(Byte) /\ Len(e[n - 1]) \in Nat /\ Len(e[n]) \in Nat
           /\ Joins(e[n], e[n - 1], p)
           /\ Len(e[n]) <= Len(e[Len(s)])
           /\ \A j \in 1 .. Len(p) : e[Len(s)][Len(e[n - 1]) + j] = p[j]
<1>1. Len(s) \in Nat /\ s[n] \in Byte /\ n \in 0 .. Len(s) /\ n - 1 \in 0 .. Len(s)
      /\ Len(s) \in n .. Len(s)
  BY LenProperties
<1>2. Joins(e[n], e[n - 1], p) /\ e[n - 1] \in Seq(Byte)
  <2>1. e[n] = e[n - 1] \o p /\ e[n - 1] \in Seq(Byte) /\ p \in Seq(Byte)
    BY <1>1, EscapedFacts DEF EscapeRun
  <2> QED
    BY <2>1, Concatenated, Zenon
<1>3. /\ Len(e[n]) = Len(e[n - 1]) + Len(p) /\ Len(p) \in Nat
      /\ Len(e[n - 1]) \in Nat /\ Len(e[n]) \in Nat
      /\ \A j \in 1 .. Len(p) : e[n][Len(e[n - 1]) + j] = p[j]
  BY <1>2 DEF Joins
<1>4. /\ Len(e[n]) <= Len(e[Len(s)])
      /\ \A i \in 1 .. Len(e[n]) : e[Len(s)][i] = e[n][i]
  BY <1>1, EscapeGrows
<1>5. ASSUME NEW j \in 1 .. Len(p)
      PROVE  e[Len(s)][Len(e[n - 1]) + j] = p[j]
  <2>0. j \in 1 .. Len(p)
    OBVIOUS
  <2>1. Len(e[n - 1]) + j \in 1 .. Len(e[n])
    BY ONLY <1>1, <1>3, <2>0
  <2> QED
    BY <1>3, <1>4, <2>1
<1> QED
  BY <1>2, <1>3, <1>4, <1>5

\* The escaped bytes hold no flag, and are as many at least.
LEMMA EscapedHasNoFlag ==
    ASSUME NEW s \in Seq(Byte)
    PROVE  /\ EscapeBytes(s) \in Seq(Byte) /\ Len(EscapeBytes(s)) \in Nat
           /\ Len(EscapeBytes(s)) >= Len(s)
           /\ \A i \in 1 .. Len(EscapeBytes(s)) : EscapeBytes(s)[i] # Flag
<1>1. PICK e : EscapeRun(s, e) /\ EscapeBytes(s) = e[Len(s)]
  BY EscapeLoop
<1> DEFINE T == {n \in 0 .. Len(s) : Len(e[n]) >= n /\ \A i \in 1 .. Len(e[n]) : e[n][i] # Flag}
<1>2. Len(s) \in Nat /\ \A n \in 1 .. Len(s) : s[n] \in Byte
  BY LenProperties
<1>3. 0 \in T
  BY <1>1, <1>2 DEF EscapeRun
<1>4. ASSUME NEW n \in 0 + 1 .. Len(s), n - 1 \in T PROVE n \in T
  <2> DEFINE p == Escaped(s[n])
  <2>1. n \in 1 .. Len(s) /\ n \in 0 .. Len(s) /\ n - 1 \in 0 .. Len(s) /\ s[n] \in Byte
    BY <1>2
  <2>2. Len(p) \in 1 .. 2 /\ \A i \in 1 .. Len(p) : p[i] # Flag
    BY <2>1, EscapedFacts
  <2>3. Joins(e[n], e[n - 1], p)
    BY <1>1, <2>1, EscapePieces
  <2> HIDE DEF p
  <2>4. /\ Len(e[n]) = Len(e[n - 1]) + Len(p) /\ Len(e[n - 1]) \in Nat
        /\ \A i \in 1 .. Len(e[n - 1]) : e[n][i] = e[n - 1][i]
        /\ \A j \in 1 .. Len(p) : e[n][Len(e[n - 1]) + j] = p[j]
    BY <2>3 DEF Joins
  <2>5. Len(e[n]) >= n
    <3>1. Len(e[n - 1]) >= n - 1
      BY <1>4
    <3> QED
      BY <1>2, <2>1, <2>2, <2>4, <3>1
  <2>6. ASSUME NEW i \in 1 .. Len(e[n]) PROVE e[n][i] # Flag
    <3>1. CASE i <= Len(e[n - 1])
      <4>1. i \in 1 .. Len(e[n - 1])
        BY <2>4, <3>1
      <4> QED
        BY <1>4, <2>4, <3>1, <4>1
    <3>2. CASE ~(i <= Len(e[n - 1]))
      <4>1. PICK j \in 1 .. Len(p) : i = Len(e[n - 1]) + j
        <5>1. i - Len(e[n - 1]) \in 1 .. Len(p)
              /\ i = Len(e[n - 1]) + (i - Len(e[n - 1]))
          BY <1>2, <2>1, <2>2, <2>4, <3>2
        <5> QED
          BY <5>1
      <4> QED
        BY <2>2, <2>4, <4>1
    <3> QED
      BY <3>1, <3>2
  <2> QED
    BY <2>1, <2>5, <2>6
<1>5. 0 .. Len(s) \subseteq T
  <2> HIDE DEF T
  <2> QED
    BY <1>2, <1>3, <1>4, CountUp
<1>6. Len(s) \in T /\ e[Len(s)] \in Seq(Byte)
  BY <1>1, <1>2, <1>5 DEF EscapeRun
<1> QED
  BY <1>1, <1>6

\* What unescape makes of the byte that is next.
LEMMA UnescapeStep ==
    ASSUME NEW f, NEW u, UnescapeRun(f, u), NEW k \in Nat, NEW q \in 1 .. Len(f), q = k + 1,
           NEW b, f[q] = b
    PROVE  u[q] = Unescaped(u[k], b)
<1>1. q - 1 = k
  OBVIOUS
<1>2. u[q] = Unescaped(u[q - 1], f[q])
  BY DEF UnescapeRun
<1> QED
  BY <1>1, <1>2

\* unescape undoes escape, whatever the bytes are: a body that holds flags and escape
\* bytes, in runs or at its ends, comes out as it went in.
THEOREM RoundTrip ==
    ASSUME NEW s \in Seq(Byte)
    PROVE  Unescape(EscapeBytes(s)) = s
<1> DEFINE f == EscapeBytes(s)
<1>1. PICK e : EscapeRun(s, e) /\ f = e[Len(s)]
  BY EscapeLoop
<1>2. f \in Seq(Byte) /\ Len(f) \in Nat
  BY EscapedHasNoFlag
<1>3. PICK u : UnescapeRun(f, u) /\ Unescape(f) = u[Len(f)].out
  BY <1>2, UnescapeLoop
<1> HIDE DEF f
<1> DEFINE Done(n) == [out |-> SubSeq(s, 1, n), escape |-> FALSE]
           T == {n \in 0 .. Len(s) : u[Len(e[n])] = Done(n)}
<1>4. Len(s) \in Nat /\ \A n \in 1 .. Len(s) : s[n] \in Byte
  BY LenProperties
<1>5. 0 \in T
  <2>1. e[0] = <<>> /\ Len(e[0]) = 0 /\ u[0] = [out |-> <<>>, escape |-> FALSE]
    BY <1>1, <1>3 DEF EscapeRun, UnescapeRun
  <2>2. SubSeq(s, 1, 0) = <<>>
    BY SubSeqEmpty
  <2>3. u[Len(e[0])] = Done(0)
    BY <2>1, <2>2
  <2> HIDE DEF Done
  <2> QED
    BY <1>4, <2>3
<1>6. ASSUME NEW n \in 0 + 1 .. Len(s), n - 1 \in T PROVE n \in T
  <2> DEFINE p == Escaped(s[n])
             k == Len(e[n - 1])
  <2>1. n \in 1 .. Len(s) /\ n \in 0 .. Len(s) /\ n - 1 \in 0 .. Len(s) /\ s[n] \in Byte
    BY <1>4
  <2>2. /\ k \in Nat /\ Joins(e[n], e[n - 1], p) /\ Len(e[n]) <= Len(f)
        /\ \A j \in 1 .. Len(p) : f[k + j] = p[j]
    BY <1>1, <2>1, EscapePieces
  <2>3. Len(p) \in 1 .. 2
    BY <2>1, EscapedFacts
  <2>4. u[k] = Done(n - 1)
    BY <1>6
  <2>5. Append(SubSeq(s, 1, n - 1), s[n]) = SubSeq(s, 1, n)
    <3>1. /\ SubSeq(s, 1, n - 1) \in Seq(Byte) /\ Len(SubSeq(s, 1, n - 1)) = n - 1
          /\ \A i \in 1 .. n - 1 : SubSeq(s, 1, n - 1)[i] = s[i]
      BY <1>4, <2>1
    <3>2. /\ SubSeq(s, 1, n) \in Seq(Byte) /\ Len(SubSeq(s, 1, n)) = n
          /\ \A i \in 1 .. n : SubSeq(s, 1, n)[i] = s[i]
      BY <1>4, <2>1
    <3>3. /\ Append(SubSeq(s, 1, n - 1), s[n]) \in Seq(Byte)
          /\ Len(Append(SubSeq(s, 1, n - 1), s[n])) = n
          /\ \A i \in 1 .. n : Append(SubSeq(s, 1, n - 1), s[n])[i] = s[i]
      BY <2>1, <3>1, AppendProperties
    <3> QED
      BY <3>2, <3>3, SeqEqual
  <2>6. CASE s[n] \notin {Flag, Escape}
    <3>1. p = <<s[n]>>
      BY <2>1, <2>6, EscapedFacts
    <3> HIDE DEF p
    <3>2. Len(p) = 1 /\ p[1] = s[n]
      BY <3>1
    <3>3. Len(e[n]) = k + 1 /\ k + 1 \in 1 .. Len(f) /\ f[k + 1] = s[n]
      BY <1>2, <2>2, <3>2 DEF Joins
    <3> HIDE DEF k
    <3>4. u[k + 1] = Unescaped(u[k], s[n])
      <4> DEFINE q == k + 1
      <4>1. k \in Nat /\ q \in 1 .. Len(f) /\ q = k + 1 /\ f[q] = s[n]
        BY <2>2, <3>3
      <4> HIDE DEF q
      <4>2. u[q] = Unescaped(u[k], s[n])
        BY <1>3, <4>1, UnescapeStep
      <4> QED
        BY <4>2 DEF q
    <3>5. u[k + 1] = [out |-> Append(SubSeq(s, 1, n - 1), s[n]), escape |-> FALSE]
      BY <2>4, <2>6, <3>4 DEF Unescaped
    <3> QED
      BY <2>1, <2>5, <3>3, <3>5
  <2>7. CASE s[n] \in {Flag, Escape}
    <3>1. p = <<Escape, Flip(s[n])>> /\ Flip(Flip(s[n])) = s[n]
      BY <2>1, <2>7, EscapedFacts
    <3> HIDE DEF p
    <3>2. Len(p) = 2 /\ p[1] = Escape /\ p[2] = Flip(s[n])
      BY <3>1
    <3>3. /\ Len(e[n]) = k + 2 /\ k + 1 \in 1 .. Len(f) /\ k + 2 \in 1 .. Len(f)
          /\ f[k + 1] = Escape /\ f[k + 2] = Flip(s[n])
      BY <1>2, <2>2, <3>2 DEF Joins
    <3> HIDE DEF k
    <3>4. /\ u[k + 1] = Unescaped(u[k], Escape)
          /\ u[k + 2] = Unescaped(u[k + 1], Flip(s[n]))
      <4> DEFINE q == k + 1
                 r == k + 2
                 b == Flip(s[n])
      <4>1. /\ k \in Nat /\ q \in 1 .. Len(f) /\ q = k + 1 /\ f[q] = Escape
            /\ q \in Nat /\ r \in 1 .. Len(f) /\ r = q + 1 /\ f[r] = b
        BY <2>2, <3>3
      <4> HIDE DEF q, r, b
      <4>2. u[q] = Unescaped(u[k], Escape) /\ u[r] = Unescaped(u[q], b)
        BY <1>3, <4>1, UnescapeStep
      <4> QED
        BY <4>2 DEF q, r, b
    <3>5. u[k + 1] = [out |-> SubSeq(s, 1, n - 1), escape |-> TRUE]
      BY <2>4, <3>4 DEF Unescaped
    <3>6. u[k + 2] = [out |-> Append(SubSeq(s, 1, n - 1), s[n]), escape |-> FALSE]
      <4>1. Unescaped(u[k + 1], Flip(s[n]))
               = [out |-> Append(u[k + 1].out, Flip(Flip(s[n]))), escape |-> FALSE]
        BY <3>5 DEF Unescaped
      <4>2. u[k + 1].out = SubSeq(s, 1, n - 1) /\ Flip(Flip(s[n])) = s[n]
        BY <3>1, <3>5
      <4> QED
        BY <3>4, <4>1, <4>2
    <3> QED
      BY <2>1, <2>5, <3>3, <3>6
  <2> QED
    BY <2>6, <2>7
<1>7. 0 .. Len(s) \subseteq T
  <2> HIDE DEF T
  <2> QED
    BY <1>4, <1>5, <1>6, CountUp
<1>8. u[Len(f)].out = SubSeq(s, 1, Len(s))
  <2>1. Len(s) \in T
    <3> HIDE DEF T
    <3> QED
      BY <1>4, <1>7
  <2>2. u[Len(e[Len(s)])] = Done(Len(s))
    BY <2>1
  <2> QED
    BY <1>1, <2>2
<1> QED
  BY <1>3, <1>8, SubSeqFull DEF f

----
(***************************************************************************)
(* Fields and messages.                                                    *)
(***************************************************************************)
LEMMA Division ==
    ASSUME NEW n \in Nat, NEW m \in Nat, m > 0
    PROVE  /\ n \div m \in Nat /\ n % m \in Nat /\ n % m < m
           /\ n = m * (n \div m) + (n % m)
<1>1. n \div m \in Nat
  BY Z3
<1>2. n % m \in Nat /\ n % m < m
  OBVIOUS
<1>3. n = m * (n \div m) + (n % m)
  BY <1>1, <1>2, Z3
<1> QED
  BY <1>1, <1>2, <1>3

LEMMA DivisionUnique ==
    ASSUME NEW m \in Nat, m > 0, NEW a \in Nat, NEW c \in Nat, NEW r \in Nat, NEW s \in Nat,
           r < m, s < m, m * a + r = m * c + s
    PROVE  a = c /\ r = s
<1>1. \A x, y \in Nat : x < y => m * x + m <= m * y
  OBVIOUS
<1> QED
  BY <1>1

\* A field of two bytes holds what fits it of a number, and gives that back.
LEMMA FieldFacts ==
    ASSUME NEW n \in Nat
    PROVE  /\ Field(n) \in Seq(Byte) /\ Len(Field(n)) = 2
           /\ Field(n)[1] * Base + Field(n)[2] = n % FieldSize
<1> DEFINE q == n % FieldSize
           b == q \div Base
           r == q % Base
           a == n \div FieldSize
<1>1. /\ q \in Nat /\ a \in Nat /\ q < FieldSize /\ n = FieldSize * a + q
  BY BaseFacts, Division
<1>2. /\ b \in Nat /\ r \in Nat /\ r < Base /\ q = Base * b + r
  <2> HIDE DEF q
  <2> QED
    BY <1>1, BaseFacts, Division
<1>3. n % Base \in Nat /\ n % Base < Base /\ n \div Base \in Nat
      /\ n = Base * (n \div Base) + (n % Base)
  BY BaseFacts, Division
<1> HIDE DEF q, b, r, a
<1>4. b < Base
  <2>1. ASSUME b >= Base PROVE FALSE
    <3>1. \A x, y, z \in Nat : x >= y => z * x >= z * y
      OBVIOUS
    <3>2. Base * b >= Base * Base
      BY <1>2, <2>1, <3>1, BaseFacts
    <3>3. Base * b \in Nat /\ FieldSize = Base * Base
      BY <1>2, BaseFacts DEF FieldSize
    <3> QED
      BY <1>1, <1>2, <3>2, <3>3, BaseFacts
  <2> QED
    BY <1>2, <2>1, BaseFacts
<1>5. n % Base = r
  <2>1. \A x, y, z \in Nat : x * x * y + x * z = x * (x * y + z) /\ x * y + z \in Nat
    OBVIOUS
  <2>2. n = Base * (Base * a + b) + r /\ Base * a + b \in Nat
    BY <1>1, <1>2, <2>1, BaseFacts DEF FieldSize
  <2> DEFINE c == Base * a + b
             d == n \div Base
  <2>3. c \in Nat /\ d \in Nat /\ Base * c + r = Base * d + (n % Base)
    BY <1>3, <2>2
  <2> HIDE DEF c, d
  <2> QED
    BY <1>2, <1>3, <2>3, BaseFacts, DivisionUnique
<1>6. Field(n) = <<b, n % Base>>
  BY DEF Field, b, q
<1>7. b \in Byte /\ n % Base \in Byte /\ b * Base = Base * b
  BY <1>2, <1>3, <1>4, BaseFacts DEF Byte
<1> QED
  BY <1>2, <1>5, <1>6, <1>7 DEF q

Message == [type : 0 .. FieldSize - 1, data : Seq(Byte)]

\* The fields of a message and its data, before they are escaped.
LEMMA RawFacts ==
    ASSUME NEW m \in Message, NEW body, NEW raw,
           body = Field(m.type) \o Field(Len(m.data)) \o m.data,
           raw = body \o Field(SprdSum(body))
    PROVE  /\ raw \in Seq(Byte) /\ Len(raw) = Len(m.data) + 6 /\ Len(m.data) \in Nat
           /\ FieldAt(raw, 1) = m.type /\ FieldAt(raw, 3) = Len(m.data) % FieldSize
           /\ \A i \in 1 .. Len(m.data) : raw[4 + i] = m.data[i]
<1> DEFINE d == m.data
           t == Field(m.type)
           l == Field(Len(d))
           h == t \o l
           s == Field(SprdSum(body))
<1>1. d \in Seq(Byte) /\ Len(d) \in Nat /\ m.type \in Nat /\ m.type < FieldSize
  BY LenProperties, BaseFacts DEF Message
<1>2. /\ t \in Seq(Byte) /\ Len(t) = 2 /\ t[1] * Base + t[2] = m.type % FieldSize
  BY <1>1, FieldFacts
<1>3. /\ l \in Seq(Byte) /\ Len(l) = 2 /\ l[1] * Base + l[2] = Len(d) % FieldSize
  BY <1>1, FieldFacts
<1>4. m.type % FieldSize = m.type
  BY <1>1, BaseFacts
<1> HIDE DEF t, l
<1>5. Joins(h, t, l)
  BY <1>2, <1>3, Concatenated
<1>6. body = h \o d
  BY DEF t, l
<1> HIDE DEF h
<1>7. Joins(body, h, d)
  <2>1. h \in Seq(Byte)
    BY <1>5 DEF Joins
  <2> QED
    BY <1>1, <1>6, <2>1, Concatenated, Zenon
<1>8. s \in Seq(Byte) /\ Len(s) = 2
  <2>1. SprdSum(body) \in Nat
    BY <1>7, SumIsNat DEF Joins
  <2> QED
    BY <2>1, FieldFacts
<1>9. Joins(raw, body, s)
  <2>1. body \in Seq(Byte)
    BY <1>7 DEF Joins
  <2>2. raw = body \o s
    OBVIOUS
  <2> HIDE DEF s
  <2> QED
    BY <1>8, <2>1, <2>2, Concatenated, Zenon
<1> HIDE DEF s, d
<1>10. Len(h) = 4 /\ Len(body) = Len(d) + 4 /\ Len(raw) = Len(d) + 6
  BY <1>1, <1>2, <1>3, <1>5, <1>7, <1>8, <1>9 DEF Joins
<1>11. raw[1] = t[1] /\ raw[2] = t[2] /\ raw[3] = l[1] /\ raw[4] = l[2]
  <2>1. h[1] = t[1] /\ h[2] = t[2] /\ h[3] = l[1] /\ h[4] = l[2]
    <3>1. 1 \in 1 .. Len(h) /\ 2 \in 1 .. Len(h) /\ 1 <= Len(t) /\ 2 <= Len(t)
      BY <1>2, <1>10
    <3>2. /\ 3 \in 1 .. Len(h) /\ 1 \in 1 .. Len(l) /\ 3 = Len(t) + 1
          /\ 4 \in 1 .. Len(h) /\ 2 \in 1 .. Len(l) /\ 4 = Len(t) + 2
      BY <1>2, <1>3, <1>10
    <3> QED
      BY <1>5, <3>1, <3>2, JoinsAt
  <2>2. \A i \in 1 .. 4 : i \in 1 .. Len(raw) /\ i \in 1 .. Len(body)
                        /\ i <= Len(h) /\ i <= Len(body)
    BY <1>1, <1>10
  <2>3. \A i \in 1 .. 4 : raw[i] = h[i]
    <3> SUFFICES ASSUME NEW i \in 1 .. 4 PROVE raw[i] = h[i]
      OBVIOUS
    <3>1. /\ i \in 1 .. Len(raw) /\ i \in 1 .. Len(body)
          /\ i <= Len(h) /\ i <= Len(body)
      BY <2>2
    <3>2. raw[i] = body[i]
      BY <1>9, <3>1, JoinsAt
    <3>3. body[i] = h[i]
      BY ONLY <1>7, <3>1, JoinsAt
    <3> QED
      BY <3>2, <3>3
  <2>4. 1 \in 1 .. 4 /\ 2 \in 1 .. 4 /\ 3 \in 1 .. 4 /\ 4 \in 1 .. 4
    OBVIOUS
  <2> QED
    BY <2>1, <2>3, <2>4
<1>12. ASSUME NEW i \in 1 .. Len(d) PROVE raw[4 + i] = d[i]
  <2>1. body[4 + i] = d[i]
    BY <1>7, <1>10 DEF Joins
  <2>2. 4 + i \in 1 .. Len(body)
    BY <1>1, <1>10
  <2> QED
    BY <1>9, <2>1, <2>2 DEF Joins
<1>13. FieldAt(raw, 1) = m.type /\ FieldAt(raw, 3) = Len(d) % FieldSize
  <2>1. 1 + 1 = 2 /\ 3 + 1 = 4
    OBVIOUS
  <2>2. FieldAt(raw, 1) = t[1] * Base + t[2] /\ FieldAt(raw, 3) = l[1] * Base + l[2]
    BY <1>11, <2>1, Zenon DEF FieldAt
  <2> QED
    BY <1>2, <1>3, <1>4, <2>2
<1> QED
  BY <1>1, <1>9, <1>10, <1>12, <1>13 DEF Joins, d

\* What parse_message makes of the fields of a message is what can be heard of it.
LEMMA Parsed ==
    ASSUME NEW m \in Message, NEW raw, raw \in Seq(Byte), Len(m.data) \in Nat,
           Len(raw) = Len(m.data) + 6,
           FieldAt(raw, 1) = m.type, FieldAt(raw, 3) = Len(m.data) % FieldSize,
           \A i \in 1 .. Len(m.data) : raw[4 + i] = m.data[i]
    PROVE  ParseMessage(raw) = Heard(m)
<1> DEFINE n == Len(m.data)
           k == n % FieldSize
<1>1. n \in Nat /\ k \in Nat /\ k <= n
  <2>1. /\ n \in Nat /\ k \in Nat /\ n \div FieldSize \in Nat
        /\ n = FieldSize * (n \div FieldSize) + k
    BY BaseFacts, Division
  <2>2. \A x, y \in Nat : x * y \in Nat
    OBVIOUS
  <2>3. FieldSize * (n \div FieldSize) \in Nat
    BY <2>1, <2>2, BaseFacts
  <2> HIDE DEF k, n
  <2> QED
    BY <2>1, <2>3
<1>2. ParseMessage(raw) = [type |-> m.type, data |-> SubSeq(raw, 5, 4 + k)]
  <2> HIDE DEF k, n
  <2>1. Len(raw) = n + 6 /\ FieldAt(raw, 3) = k
    BY DEF k, n
  <2>2. ~(Len(raw) < 6 \/ Len(raw) - 4 < k + 2)
    BY <1>1, <2>1
  <2> QED
    BY <2>1, <2>2 DEF ParseMessage
<1>3. SubSeq(raw, 5, 4 + k) = SubSeq(m.data, 1, k)
  <2> HIDE DEF k
  <2>0. m.data \in Seq(Byte)
    BY DEF Message
  <2> DEFINE d == m.data
  <2>1. \A i \in 5 .. 4 + k : raw[i] \in Byte
    BY <1>1, ElementOfSeq
  <2>2. \A i \in 1 .. k : d[i] \in Byte
    BY <1>1, <2>0, ElementOfSeq
  <2>3. /\ SubSeq(raw, 5, 4 + k) \in Seq(Byte) /\ Len(SubSeq(raw, 5, 4 + k)) = k
        /\ \A i \in 1 .. k : SubSeq(raw, 5, 4 + k)[i] = raw[4 + i]
    <3>1. \A i \in Int : 5 + i - 1 = 4 + i
      OBVIOUS
    <3> QED
      BY <1>1, <2>1, SubSeqProperties
  <2>4. /\ SubSeq(d, 1, k) \in Seq(Byte) /\ Len(SubSeq(d, 1, k)) = k
        /\ \A i \in 1 .. k : SubSeq(d, 1, k)[i] = d[i]
    <3>1. \A i \in Int : 1 + i - 1 = i
      OBVIOUS
    <3> QED
      BY <1>1, <2>2, SubSeqProperties
  <2>5. \A i \in 1 .. k : raw[4 + i] = d[i]
    BY <1>1
  <2> HIDE DEF d
  <2>6. SubSeq(raw, 5, 4 + k) = SubSeq(d, 1, k)
    BY <2>3, <2>4, <2>5, SeqEqual
  <2> QED
    BY <2>6 DEF d
<1>4. Heard(m) = [type |-> m.type, data |-> SubSeq(m.data, 1, k)]
  <2> HIDE DEF k, n
  <2>1. Heard(m) = [m EXCEPT !.data = SubSeq(m.data, 1, k)]
    BY Zenon DEF Heard, k, n
  <2> QED
    BY <2>1 DEF Message
<1> QED
  BY <1>2, <1>3, <1>4

\* M is the frame of m: between two flags bytes that are none, and that stand for m.
IsFrame(M, m) ==
    /\ M \in Seq(Byte) /\ Len(M) \in Nat /\ Len(M) >= 3
    /\ M[1] = Flag /\ M[Len(M)] = Flag
    /\ \A i \in 2 .. Len(M) - 1 : M[i] # Flag
    /\ ParseMessage(Unescape(SubSeq(M, 2, Len(M) - 1))) = Heard(m)

LEMMA FrameFacts ==
    ASSUME NEW m \in Message
    PROVE  IsFrame(BuildMessage(m), m)
<1> DEFINE body == Field(m.type) \o Field(Len(m.data)) \o m.data
           raw == body \o Field(SprdSum(body))
           E == EscapeBytes(raw)
           F == <<Flag>>
           G == F \o E
           M == G \o F
<1>1. /\ raw \in Seq(Byte) /\ Len(raw) = Len(m.data) + 6 /\ Len(m.data) \in Nat
      /\ FieldAt(raw, 1) = m.type /\ FieldAt(raw, 3) = Len(m.data) % FieldSize
      /\ \A i \in 1 .. Len(m.data) : raw[4 + i] = m.data[i]
  <2> HIDE DEF body
  <2>1. body = Field(m.type) \o Field(Len(m.data)) \o m.data
    BY DEF body
  <2> QED
    BY <2>1, RawFacts
<1>2. BuildMessage(m) = M
  BY DEF BuildMessage
<1> HIDE DEF raw
<1>3. ParseMessage(raw) = Heard(m)
  BY <1>1, Parsed
<1>4. /\ E \in Seq(Byte) /\ Len(E) \in Nat /\ Len(E) >= Len(raw)
      /\ \A i \in 1 .. Len(E) : E[i] # Flag
  BY <1>1, EscapedHasNoFlag
<1>5. Unescape(E) = raw
  BY <1>1, RoundTrip
<1>6. F \in Seq(Byte) /\ Len(F) = 1 /\ F[1] = Flag
  BY BaseFacts
<1> HIDE DEF E, F
<1>7. Joins(G, F, E)
  BY <1>4, <1>6, Concatenated
<1> HIDE DEF G
<1>8. Joins(M, G, F)
  <2>1. G \in Seq(Byte)
    BY <1>7 DEF Joins
  <2> QED
    BY <1>6, <2>1, Concatenated, Zenon
<1> HIDE DEF M
<1>9. /\ Len(G) = Len(E) + 1 /\ Len(M) = Len(E) + 2 /\ Len(E) >= 6
      /\ M \in Seq(Byte) /\ G \in Seq(Byte)
  BY <1>1, <1>4, <1>6, <1>7, <1>8 DEF Joins
<1>10. M[1] = Flag
  <2>1. 1 \in 1 .. Len(M) /\ 1 <= Len(G) /\ 1 \in 1 .. Len(G) /\ 1 <= Len(F)
    BY <1>4, <1>6, <1>9
  <2>2. M[1] = G[1]
    BY <1>8, <2>1, JoinsAt
  <2>3. G[1] = F[1]
    BY <1>7, <2>1, JoinsAt
  <2> QED
    BY <1>6, <2>2, <2>3
<1>11. M[Len(M)] = Flag
  <2> DEFINE i == Len(M)
  <2>1. i \in 1 .. Len(M) /\ 1 \in 1 .. Len(F) /\ i = Len(G) + 1
    BY <1>4, <1>6, <1>9
  <2> HIDE DEF i
  <2>2. M[i] = F[1]
    BY <1>8, <2>1, JoinsAt
  <2> QED
    BY <1>6, <2>2 DEF i
<1>12. ASSUME NEW i \in 2 .. Len(M) - 1 PROVE \E j \in 1 .. Len(E) : i = 1 + j /\ M[i] = E[j]
  <2> DEFINE j == i - 1
  <2>1. /\ i \in 1 .. Len(M) /\ i <= Len(G) /\ i \in 1 .. Len(G)
        /\ j \in 1 .. Len(E) /\ i = Len(F) + j /\ i = 1 + j
    BY <1>4, <1>6, <1>9
  <2> HIDE DEF j
  <2>2. M[i] = G[i]
    BY <1>8, <2>1, JoinsAt
  <2>3. G[i] = E[j]
    BY <1>7, <2>1, JoinsAt
  <2> QED
    BY <2>1, <2>2, <2>3
<1>13. SubSeq(M, 2, Len(M) - 1) = E
  <2> DEFINE n == Len(M) - 1
             S == SubSeq(M, 2, n)
  <2>1. n = Len(E) + 1 /\ n \in Int /\ Len(E) = n - 2 + 1 /\ 2 <= n
    BY <1>4, <1>9
  <2>2. \A i \in 2 .. n : M[i] \in Byte
    BY <1>4, <1>9, ElementOfSeq
  <2>3. /\ S \in Seq(Byte) /\ Len(S) = Len(E)
        /\ \A i \in 1 .. Len(E) : S[i] = M[2 + i - 1]
    <3> HIDE DEF n
    <3> QED
      BY <2>1, <2>2, SubSeqProperties
  <2>4. ASSUME NEW i \in 1 .. Len(E) PROVE S[i] = E[i]
    <3> DEFINE k == 2 + i - 1
    <3>1. k \in 2 .. Len(M) - 1 /\ \A j \in 1 .. Len(E) : k = 1 + j => j = i
      BY <1>4, <2>1
    <3>2. S[i] = M[k]
      BY <2>3
    <3> HIDE DEF k
    <3>3. PICK j \in 1 .. Len(E) : k = 1 + j /\ M[k] = E[j]
      BY <1>12, <3>1
    <3>4. j = i
      BY <3>1, <3>3, Zenon
    <3> QED
      BY <3>2, <3>3, <3>4
  <2> HIDE DEF S
  <2>5. S = E
    BY <1>4, <2>3, <2>4, SeqEqual
  <2> QED
    BY <2>5 DEF S
<1>14. \A i \in 2 .. Len(M) - 1 : M[i] # Flag
  BY <1>4, <1>12
<1> QED
  <2>1. Len(M) \in Nat /\ Len(M) >= 3
    BY <1>4, <1>9
  <2>2. ParseMessage(Unescape(SubSeq(M, 2, Len(M) - 1))) = Heard(m)
    BY <1>3, <1>5, <1>13
  <2> QED
    BY <1>2, <1>9, <1>10, <1>11, <1>14, <2>1, <2>2, Zenon DEF IsFrame

Answer == [type : -1 .. FieldSize - 1, data : Seq(Byte)]

LEMMA UnescapeBytes ==
    ASSUME NEW s \in Seq(Byte)
    PROVE  Unescape(s) \in Seq(Byte)
<1>1. PICK u : UnescapeRun(s, u) /\ Unescape(s) = u[Len(s)].out
  BY UnescapeLoop
<1>2. u[Len(s)] \in Readers
  <2>1. Len(s) \in 0 .. Len(s)
    BY LenProperties
  <2> QED
    BY <1>1, <2>1 DEF UnescapeRun
<1> QED
  BY <1>1, <1>2 DEF Readers

\* Whatever parse_message is given, what it returns has its type.
LEMMA ParsedType ==
    ASSUME NEW b \in Seq(Byte)
    PROVE  ParseMessage(b) \in Answer
<1>0. Len(b) \in Nat /\ \A i \in 1 .. Len(b) : b[i] \in Byte
  BY LenProperties
<1>1. CASE Len(b) < 6 \/ Len(b) - 4 < FieldAt(b, 3) + 2
  BY <1>1, BaseFacts, EmptySeq DEF ParseMessage, Bad, Answer
<1>2. CASE ~(Len(b) < 6 \/ Len(b) - 4 < FieldAt(b, 3) + 2)
  <2>1. ASSUME NEW x \in Byte, NEW y \in Byte PROVE x * Base + y \in 0 .. FieldSize - 1
    <3>1. x \in Nat /\ y \in Nat /\ x + 1 <= Base /\ y < Base /\ Base \in Nat
      BY BaseFacts DEF Byte
    <3>2. \A p, q, z \in Nat : p <= q => p * z <= q * z
      OBVIOUS
    <3>3. (x + 1) * Base <= Base * Base
      BY <3>1, <3>2
    <3>4. (x + 1) * Base = x * Base + Base /\ x * Base \in Nat
      BY <3>1
    <3>5. FieldSize = Base * Base /\ FieldSize \in Nat
      BY BaseFacts DEF FieldSize
    <3> DEFINE f == FieldSize
               z == x * Base
    <3>6. z + Base <= f /\ z \in Nat /\ f \in Nat
      BY <3>3, <3>4, <3>5
    <3> HIDE DEF z, f
    <3>7. z + y \in 0 .. f - 1
      BY <3>1, <3>6
    <3> QED
      BY <3>7 DEF z, f
  <2>2. FieldAt(b, 1) \in 0 .. FieldSize - 1 /\ FieldAt(b, 3) \in 0 .. FieldSize - 1
    <3>1. /\ b[1] \in Byte /\ b[2] \in Byte /\ b[3] \in Byte /\ b[4] \in Byte
      BY <1>0, <1>2
    <3>2. 1 + 1 = 2 /\ 3 + 1 = 4
      OBVIOUS
    <3>3. FieldAt(b, 1) = b[1] * Base + b[2] /\ FieldAt(b, 3) = b[3] * Base + b[4]
      BY <3>2, Zenon DEF FieldAt
    <3> QED
      BY <2>1, <3>1, <3>3
  <2> DEFINE k == FieldAt(b, 3)
  <2>3. k \in Nat /\ 4 + k <= Len(b)
    BY <1>0, <1>2, <2>2, BaseFacts
  <2>4. ParseMessage(b) = [type |-> FieldAt(b, 1), data |-> SubSeq(b, 5, 4 + k)]
    BY <1>2 DEF ParseMessage
  <2>5. SubSeq(b, 5, 4 + k) \in Seq(Byte)
    <3> HIDE DEF k
    <3>1. \A i \in 5 .. 4 + k : b[i] \in Byte
      BY <1>0, <2>3
    <3> QED
      BY <2>3, <3>1, SubSeqProperties
  <2> QED
    BY <2>2, <2>4, <2>5, BaseFacts DEF Answer
<1> QED
  BY <1>1, <1>2

----
(***************************************************************************)
(* Where find_frame_body finds a frame.                                    *)
(***************************************************************************)
LEMMA MinFacts ==
    ASSUME NEW S, S \subseteq Nat, S # {}
    PROVE  Min(S) \in S /\ \A x \in S : Min(S) <= x
<1>1. \E m \in S : \A x \in S : m <= x
  BY LeastIndex
<1> QED
  BY <1>1 DEF Min

\* The frame that buf holds first begins with the flag at lo and ends with the one at hi.
FirstFrame(buf, lo, hi) ==
    /\ lo \in 1 .. Len(buf) /\ hi \in 1 .. Len(buf) /\ lo + 2 <= hi
    /\ buf[lo] = Flag /\ buf[hi] = Flag
    /\ \A i \in lo + 1 .. hi - 1 : buf[i] # Flag
    /\ FrameBody(buf) = Unescape(SubSeq(buf, lo + 1, hi - 1))

LEMMA ClosingGives ==
    ASSUME NEW buf \in Seq(Byte), Closing(buf) # {}
    PROVE  \E lo, hi : FirstFrame(buf, lo, hi)
<1> DEFINE a == Min(Opening(buf))
           c == Min(Closing(buf))
<1>1. Len(buf) \in Nat /\ DOMAIN buf = 1 .. Len(buf)
  BY LenProperties
<1>2. Opening(buf) # {} /\ Opening(buf) \subseteq Nat /\ Closing(buf) \subseteq Nat
  <2>1. Opening(buf) # {}
    BY Zenon DEF Closing
  <2>2. Opening(buf) \subseteq 1 .. Len(buf) /\ Closing(buf) \subseteq 1 .. Len(buf)
    BY <1>1, Zenon DEF Closing, Opening
  <2> QED
    BY <1>1, <2>1, <2>2
<1>3. /\ a \in 1 .. Len(buf) /\ a > 1 /\ buf[a - 1] = Flag /\ buf[a] # Flag
  <2>1. a \in Opening(buf)
    BY <1>2, MinFacts
  <2> HIDE DEF a
  <2> QED
    BY <1>1, <2>1 DEF Opening
<1>4. /\ c \in 1 .. Len(buf) /\ buf[c] = Flag /\ c >= a
      /\ \A j \in 1 .. Len(buf) : buf[j] = Flag /\ j >= a => c <= j
  <2>1. c \in Closing(buf) /\ \A j \in Closing(buf) : c <= j
    BY <1>2, MinFacts
  <2> HIDE DEF c
  <2> QED
    BY <1>1, <1>2, <2>1 DEF Closing
<1>5. FrameBody(buf) = Unescape(SubSeq(buf, a, c - 1))
  BY DEF FrameBody
<1> DEFINE lo == a - 1
<1> HIDE DEF a, c
<1>6. /\ lo \in 1 .. Len(buf) /\ lo + 2 <= c /\ lo + 1 = a /\ buf[lo] = Flag
      /\ \A i \in lo + 1 .. c - 1 : i \in 1 .. Len(buf) /\ i >= a /\ ~(c <= i)
  BY <1>1, <1>3, <1>4
<1> HIDE DEF lo
<1>7. \A i \in lo + 1 .. c - 1 : buf[i] # Flag
  BY <1>4, <1>6
<1>8. FrameBody(buf) = Unescape(SubSeq(buf, lo + 1, c - 1))
  BY <1>5, <1>6
<1> QED
  BY <1>4, <1>6, <1>7, <1>8 DEF FirstFrame

\* Two flags and something between them are enough.
LEMMA ClosingWhen ==
    ASSUME NEW buf \in Seq(Byte), NEW i \in 1 .. Len(buf), NEW k \in 1 .. Len(buf),
           NEW j \in 1 .. Len(buf), k = i + 1, k <= j,
           buf[i] = Flag, buf[k] # Flag, buf[j] = Flag
    PROVE  Closing(buf) # {}
<1>1. Len(buf) \in Nat /\ DOMAIN buf = 1 .. Len(buf)
  BY LenProperties
<1>2. k \in Opening(buf)
  <2>1. k > 1 /\ k - 1 = i
    BY <1>1
  <2> QED
    BY <1>1, <2>1 DEF Opening
<1>3. Opening(buf) \subseteq Nat
  BY <1>1 DEF Opening
<1> DEFINE a == Min(Opening(buf))
<1>4. a \in Nat /\ a <= k
  BY <1>2, <1>3, MinFacts
<1>5. j >= a
  <2> HIDE DEF a
  <2> QED
    BY <1>1, <1>4
<1>6. j \in Closing(buf)
  BY <1>1, <1>2, <1>5 DEF Closing
<1> QED
  BY <1>6

----
(***************************************************************************)
(* Type correctness.                                                       *)
(***************************************************************************)
LEMMA ExchangeFacts ==
    ASSUME NEW x \in Exchanges
    PROVE  /\ x.replies \in Seq(Message) /\ Len(x.replies) \in Nat /\ x.damage \in Nat
           /\ \A k \in 1 .. Len(x.replies) :
                 /\ x.replies[k] \in Message
                 /\ IsFrame(BuildMessage(x.replies[k]), x.replies[k])
<1>1. x.replies \in Seq(Message) /\ x.damage \in Nat
  BY WireAssumption DEF Message
<1>2. Len(x.replies) \in Nat /\ \A k \in 1 .. Len(x.replies) : x.replies[k] \in Message
  BY <1>1, LenProperties, ElementOfSeq
<1> QED
  BY <1>1, <1>2, FrameFacts

\* The bytes a read takes off the line, and those it leaves.
LEMMA Cut ==
    ASSUME NEW l \in Seq(Byte), NEW n \in 1 .. Len(l)
    PROVE  /\ Len(l) \in Nat
           /\ SubSeq(l, 1, n) \in Seq(Byte) /\ Len(SubSeq(l, 1, n)) = n
           /\ \A i \in 1 .. n : SubSeq(l, 1, n)[i] = l[i]
           /\ SubSeq(l, n + 1, Len(l)) \in Seq(Byte)
           /\ Len(SubSeq(l, n + 1, Len(l))) = Len(l) - n
           /\ \A i \in 1 .. Len(l) - n : SubSeq(l, n + 1, Len(l))[i] = l[n + i]
           /\ l = SubSeq(l, 1, n) \o SubSeq(l, n + 1, Len(l))
<1>1. Len(l) \in Nat /\ \A i \in 1 .. Len(l) : l[i] \in Byte
  BY LenProperties
<1>2. /\ SubSeq(l, 1, n) \in Seq(Byte) /\ Len(SubSeq(l, 1, n)) = n
      /\ \A i \in 1 .. n : SubSeq(l, 1, n)[i] = l[i]
  BY <1>1
<1>3. /\ SubSeq(l, n + 1, Len(l)) \in Seq(Byte)
      /\ Len(SubSeq(l, n + 1, Len(l))) = Len(l) - n
      /\ \A i \in 1 .. Len(l) - n : SubSeq(l, n + 1, Len(l))[i] = l[n + i]
  <2> DEFINE k == Len(l)
             m == n + 1
  <2>1. /\ m \in Int /\ k \in Int /\ \A i \in m .. k : l[i] \in Byte
        /\ k - m + 1 = Len(l) - n /\ (m <= k \/ k - n = 0)
        /\ \A i \in Int : m + i - 1 = n + i
    BY <1>1
  <2>2. /\ SubSeq(l, m, k) \in Seq(Byte)
        /\ Len(SubSeq(l, m, k)) = IF m <= k THEN k - m + 1 ELSE 0
        /\ \A i \in 1 .. k - m + 1 : SubSeq(l, m, k)[i] = l[m + i - 1]
    <3>1. m \in Int /\ k \in Int /\ \A i \in m .. k : l[i] \in Byte
      BY <2>1
    <3> HIDE DEF k, m
    <3> QED
      BY ONLY <3>1, SubSeqProperties
  <2>3. m \in Int /\ k \in Nat /\ n \in Nat /\ m = n + 1 /\ n <= k
    BY <1>1
  <2> DEFINE S == SubSeq(l, m, k)
  <2> HIDE DEF S, m, k
  <2>4. /\ S \in Seq(Byte)
        /\ Len(S) = IF m <= k THEN k - m + 1 ELSE 0
        /\ \A i \in 1 .. k - m + 1 : S[i] = l[m + i - 1]
    BY <2>2 DEF S
  <2>5. Len(S) = k - n
    BY <2>3, <2>4
  <2>6. ASSUME NEW i \in 1 .. k - n PROVE S[i] = l[n + i]
    <3>1. i \in 1 .. k - m + 1 /\ m + i - 1 = n + i
      BY <2>3
    <3> QED
      BY <2>4, <3>1
  <2> QED
    BY <2>4, <2>5, <2>6 DEF S, m, k
<1>4. SubSeq(l, 1, n) \o SubSeq(l, n + 1, Len(l)) = SubSeq(l, 1, Len(l))
  <2>1. 1 \in 1 .. Len(l) + 1 /\ n \in 1 - 1 .. Len(l) /\ Len(l) \in n .. Len(l)
    BY <1>1
  <2> QED
    BY <2>1, ConcatAdjacentSubSeq
<1> QED
  BY <1>1, <1>2, <1>3, <1>4, SubSeqFull

LEMMA TypeInit == Init => TypeOK
<1> SUFFICES ASSUME Init PROVE TypeOK
  OBVIOUS
<1>1. Len(exchange.replies) \in Nat /\ exchange.damage \in Nat
  BY ExchangeFacts DEF Init
<1> QED
  BY <1>1 DEF Init, TypeOK

LEMMA TypeNext == TypeOK /\ [Next]_vars => TypeOK'
<1> SUFFICES ASSUME TypeOK, [Next]_vars PROVE TypeOK'
  OBVIOUS
<1>0. /\ Len(exchange.replies) \in Nat /\ exchange.damage \in Nat
      /\ sent \in Nat /\ since \in Nat /\ since <= sent
      /\ damages \in Nat /\ damages <= exchange.damage
      /\ sent <= Len(exchange.replies)
  BY ExchangeFacts DEF TypeOK
<1>1. CASE DeviceSends
  <2> DEFINE M == BuildMessage(exchange.replies[sent + 1])
  <2>1. M \in Seq(Byte)
    <3>1. sent + 1 \in 1 .. Len(exchange.replies)
      BY <1>0, <1>1 DEF DeviceSends
    <3> QED
      BY <3>1, ExchangeFacts DEF TypeOK, IsFrame
  <2>2. line' = line \o M
    BY <1>1 DEF DeviceSends
  <2> HIDE DEF M
  <2>3. line' \in Seq(Byte)
    BY <2>1, <2>2, ConcatProperties DEF TypeOK
  <2>4. sent' \in 0 .. Len(exchange'.replies) /\ since' \in 0 .. sent'
    BY <1>0, <1>1 DEF DeviceSends
  <2> QED
    BY <1>1, <2>3, <2>4 DEF TypeOK, DeviceSends
<1>2. CASE Damage
  <2>1. line' \in Seq(Byte)
    <3>1. PICK i \in DOMAIN line, b \in Byte : line' = [line EXCEPT ![i] = b]
      BY <1>2 DEF Damage
    <3>2. line \in Seq(Byte) /\ i \in 1 .. Len(line)
      BY LenProperties DEF TypeOK
    <3> QED
      BY <3>1, <3>2, ExceptSeq
  <2>2. damages' \in 0 .. exchange'.damage /\ since' \in 0 .. sent'
    BY <1>0, <1>2 DEF Damage
  <2> QED
    BY <1>2, <2>1, <2>2 DEF TypeOK, Damage
<1>3. CASE BeginRecv
  <2>1. acc' \in Seq(Byte) /\ since' \in 0 .. sent'
    BY <1>0, <1>3, EmptySeq DEF BeginRecv
  <2> QED
    BY <1>3, <2>1 DEF TypeOK, BeginRecv
<1>4. CASE ReadSome
  <2>1. PICK n \in 1 .. Len(line) :
             LET buf == acc \o SubSeq(line, 1, n)
             IN  /\ line' = SubSeq(line, n + 1, Len(line))
                 /\ IF Closing(buf) = {}
                    THEN acc' = buf /\ UNCHANGED <<pc, got>>
                    ELSE /\ got' = Append(got, ParseMessage(FrameBody(buf)))
                         /\ pc' = "idle" /\ acc' = <<>>
    BY <1>4 DEF ReadSome
  <2> DEFINE buf == acc \o SubSeq(line, 1, n)
  <2>2. line' \in Seq(Byte) /\ buf \in Seq(Byte)
    BY <2>1, Cut, ConcatProperties DEF TypeOK
  <2>3. CASE Closing(buf) = {}
    <3>1. acc' = buf /\ UNCHANGED <<pc, got>>
      BY <2>1, <2>3
    <3> HIDE DEF buf
    <3> QED
      BY <1>4, <2>2, <3>1 DEF TypeOK, ReadSome
  <2>4. CASE Closing(buf) # {}
    <3>1. got' = Append(got, ParseMessage(FrameBody(buf))) /\ pc' = "idle" /\ acc' = <<>>
      BY <2>1, <2>4
    <3> HIDE DEF buf
    <3>2. PICK lo, hi : FirstFrame(buf, lo, hi)
      BY <2>2, <2>4, ClosingGives
    <3>3. SubSeq(buf, lo + 1, hi - 1) \in Seq(Byte)
      <4>1. /\ lo + 1 \in Int /\ hi - 1 \in Int
            /\ \A i \in lo + 1 .. hi - 1 : i \in 1 .. Len(buf)
        BY <2>2, <3>2, LenProperties DEF FirstFrame
      <4>2. \A i \in lo + 1 .. hi - 1 : buf[i] \in Byte
        BY <2>2, <4>1, ElementOfSeq
      <4> QED
        BY <4>1, <4>2, SubSeqProperties, Zenon
    <3>4. ParseMessage(FrameBody(buf)) \in Answer
      BY <3>2, <3>3, UnescapeBytes, ParsedType DEF FirstFrame
    <3>5. got' \in Seq(Answer)
      BY <3>1, <3>4 DEF TypeOK, Answer
    <3>6. acc' \in Seq(Byte)
      BY <3>1, EmptySeq
    <3> QED
      BY <1>4, <2>2, <3>1, <3>5, <3>6 DEF TypeOK, ReadSome, Answer
  <2> QED
    BY <2>3, <2>4
<1>5. CASE Timeout
  BY <1>5, EmptySeq DEF TypeOK, Timeout
<1>6. CASE PurgeInput
  <2>1. line' \in Seq(Byte)
    BY <1>6, Cut DEF TypeOK, PurgeInput
  <2> QED
    BY <1>6, <2>1 DEF TypeOK, PurgeInput
<1>7. CASE UNCHANGED vars
  BY <1>7 DEF TypeOK, vars
<1> QED
  BY <1>1, <1>2, <1>3, <1>4, <1>5, <1>6, <1>7 DEF Next

\* The line and the host's buffer hold bytes, recv returns fields that fit their
\* two bytes, and no more bytes are damaged than may be.
THEOREM TypeCorrect == Spec => []TypeOK
<1> QED
  BY TypeInit, TypeNext, PTL DEF Spec

----
(***************************************************************************)
(* A reply sent during the wait ends it.                                   *)
(*                                                                         *)
(* What the host has read and what is left on the line end in the reply    *)
(* that was sent last, for as long as it waits and nothing is damaged: the *)
(* host keeps every byte that it reads until it has a frame.               *)
(***************************************************************************)
EndsIn(s, M) == \E p \in Seq(Byte) : s = p \o M

EndInv ==
    pc = "recv" =>
        /\ Closing(acc) = {}
        /\ sent > since => EndsIn(acc \o line, BuildMessage(exchange.replies[sent]))

LEMMA EndGives == TypeOK /\ EndInv => ReplyEndsTheWait
<1> SUFFICES ASSUME TypeOK, EndInv, pc = "recv", sent > since, line = <<>>
             PROVE  FALSE
  BY DEF ReplyEndsTheWait
<1> DEFINE m == exchange.replies[sent]
           M == BuildMessage(m)
<1>1. IsFrame(M, m)
  <2>1. sent \in 1 .. Len(exchange.replies)
    BY ExchangeFacts DEF TypeOK
  <2> QED
    BY <2>1, ExchangeFacts DEF TypeOK
<1>2. PICK p \in Seq(Byte) : acc \o line = p \o M
  BY DEF EndInv, EndsIn
<1>3. acc \in Seq(Byte) /\ acc = p \o M
  BY <1>2, ConcatEmptySeq DEF TypeOK
<1>4. Closing(acc) = {}
  BY DEF EndInv
<1> HIDE DEF M, m
<1>5. /\ M \in Seq(Byte) /\ Len(M) \in Nat /\ Len(M) >= 3
      /\ M[1] = Flag /\ M[Len(M)] = Flag /\ \A i \in 2 .. Len(M) - 1 : M[i] # Flag
  BY <1>1 DEF IsFrame
<1>6. Joins(acc, p, M)
  BY <1>2, <1>3, <1>5, Concatenated, Zenon
<1> DEFINE i == Len(p) + 1
           k == Len(p) + 2
           j == Len(p) + Len(M)
<1>7. /\ i \in 1 .. Len(acc) /\ k \in 1 .. Len(acc) /\ j \in 1 .. Len(acc)
      /\ k = i + 1 /\ k <= j /\ 1 \in 1 .. Len(M) /\ 2 \in 2 .. Len(M) - 1
      /\ 2 \in 1 .. Len(M) /\ Len(M) \in 1 .. Len(M)
      /\ i = Len(p) + 1 /\ k = Len(p) + 2 /\ j = Len(p) + Len(M)
  BY <1>5, <1>6 DEF Joins
<1> HIDE DEF i, k, j
<1>8. acc[i] = Flag /\ acc[k] # Flag /\ acc[j] = Flag
  <2>1. acc[i] = M[1]
    BY <1>6, <1>7, JoinsAt
  <2>2. acc[k] = M[2]
    BY <1>6, <1>7, JoinsAt
  <2>3. acc[j] = M[Len(M)]
    BY <1>6, <1>7, JoinsAt
  <2> QED
    BY <1>5, <1>7, <2>1, <2>2, <2>3
<1> QED
  BY <1>3, <1>4, <1>7, <1>8, ClosingWhen

LEMMA EndNext == TypeOK /\ EndInv /\ [Next]_vars => EndInv'
<1> SUFFICES ASSUME TypeOK, EndInv, [Next]_vars, pc' = "recv"
             PROVE  /\ Closing(acc') = {}
                    /\ sent' > since'
                          => EndsIn(acc' \o line', BuildMessage(exchange'.replies[sent']))
  BY DEF EndInv
<1>0. acc \in Seq(Byte) /\ line \in Seq(Byte) /\ sent \in Nat /\ exchange \in Exchanges
  BY ExchangeFacts DEF TypeOK
<1>1. CASE DeviceSends
  <2> DEFINE M == BuildMessage(exchange.replies[sent + 1])
  <2>1. M \in Seq(Byte)
    <3>1. sent + 1 \in 1 .. Len(exchange.replies)
      BY <1>0, <1>1, ExchangeFacts DEF DeviceSends
    <3> QED
      BY <1>0, <3>1, ExchangeFacts DEF IsFrame
  <2>2. line' = line \o M /\ acc' = acc
        /\ M = BuildMessage(exchange'.replies[sent'])
    BY <1>1 DEF DeviceSends
  <2>3. Closing(acc') = {}
    BY <1>1 DEF DeviceSends, EndInv
  <2> HIDE DEF M
  <2>4. acc \o line' = (acc \o line) \o M
    BY <1>0, <2>1, <2>2, ConcatAssociative
  <2>5. acc \o line \in Seq(Byte)
    BY <1>0, ConcatProperties
  <2> QED
    BY <2>2, <2>3, <2>4, <2>5 DEF EndsIn
<1>2. CASE Damage
  BY <1>0, <1>2 DEF Damage, EndInv
<1>3. CASE BeginRecv
  <2>1. acc' = <<>> /\ ~(sent' > since')
    BY <1>0, <1>3 DEF BeginRecv
  <2>2. Closing(<<>>) = {}
    BY DEF Closing
  <2> QED
    BY <2>1, <2>2
<1>4. CASE ReadSome
  <2>1. PICK n \in 1 .. Len(line) :
             LET buf == acc \o SubSeq(line, 1, n)
             IN  /\ line' = SubSeq(line, n + 1, Len(line))
                 /\ IF Closing(buf) = {}
                    THEN acc' = buf /\ UNCHANGED <<pc, got>>
                    ELSE /\ got' = Append(got, ParseMessage(FrameBody(buf)))
                         /\ pc' = "idle" /\ acc' = <<>>
    BY <1>4 DEF ReadSome
  <2> DEFINE r == SubSeq(line, 1, n)
             l == SubSeq(line, n + 1, Len(line))
             buf == acc \o r
  <2>2. Closing(buf) = {} /\ acc' = buf /\ line' = l
    BY <2>1
  <2>3. r \in Seq(Byte) /\ l \in Seq(Byte) /\ line = r \o l
    BY <1>0, Cut
  <2> HIDE DEF r, l
  <2>4. acc' \o line' = acc \o line
    BY <1>0, <2>2, <2>3, ConcatAssociative
  <2>5. pc = "recv" /\ UNCHANGED <<exchange, sent, since>>
    BY <1>4 DEF ReadSome
  <2> QED
    BY <2>2, <2>4, <2>5 DEF EndInv
<1>5. CASE Timeout
  BY <1>5 DEF Timeout
<1>6. CASE PurgeInput
  BY <1>6 DEF PurgeInput
<1>7. CASE UNCHANGED vars
  BY <1>7 DEF vars, EndInv
<1> QED
  BY <1>1, <1>2, <1>3, <1>4, <1>5, <1>6, <1>7 DEF Next

\* A reply that is sent while the host waits and is not damaged ends the wait, at the
\* latest with its last byte, whatever remains of earlier frames lie before it.
THEOREM ReplyEnds == Spec => []ReplyEndsTheWait
<1>1. Init => EndInv
  BY DEF Init, EndInv
<1> QED
  BY <1>1, TypeInit, TypeNext, EndNext, EndGives, PTL DEF Spec

----
(***************************************************************************)
(* What recv returns is genuine.                                           *)
(*                                                                         *)
(* The state does not hold what was on the line before: the invariant says *)
(* that there is a history which explains the state.                       *)
(*   - P, the bytes the device has sent: its replies one behind the other, *)
(*     reply k behind place end[k - 1] and up to place end[k];             *)
(*   - T, what became of them on the line, which is no different but at    *)
(*     the places in D, a place for each damage at most;                   *)
(*   - c, how much of T is dealt with: what acc and line hold is what      *)
(*     comes behind it in T;                                               *)
(*   - lo and hi, where the frame of each result begins and ends in T.     *)
(***************************************************************************)
Laid(P, end, F, n) ==
    /\ n \in Nat /\ end \in [0 .. n -> Nat] /\ end[0] = 0
    /\ P \in Seq(Byte) /\ Len(P) = end[n]
    /\ \A k \in 1 .. n :
          /\ end[k] = end[k - 1] + Len(F[k])
          /\ \A i \in 1 .. Len(F[k]) : P[end[k - 1] + i] = F[k][i]

Changed(P, T, D, d) ==
    /\ T \in Seq(Byte) /\ Len(T) \in Nat /\ Len(P) = Len(T)
    /\ D \subseteq 1 .. Len(T) /\ IsFiniteSet(D) /\ Cardinality(D) <= d
    /\ \A i \in 1 .. Len(T) : i \notin D => P[i] = T[i]

Window(T, c, a, l) ==
    /\ T \in Seq(Byte) /\ a \in Seq(Byte) /\ l \in Seq(Byte) /\ c \in Nat
    /\ Len(T) = c + Len(a) + Len(l)
    /\ \A i \in 1 .. Len(a) : T[c + i] = a[i]
    /\ \A i \in 1 .. Len(l) : T[c + Len(a) + i] = l[i]

\* A result whose frame holds no changed byte is that of a reply, whole and in its place.
Result(g, R, n, end, D, lo, hi) ==
    (\A d \in D : ~(lo <= d /\ d <= hi))
        => \E k \in 1 .. n : lo = end[k - 1] + 1 /\ hi = end[k] /\ g = Heard(R[k])

Results(g, R, n, end, D, c, lo, hi) ==
    /\ lo \in [1 .. Len(g) -> Nat] /\ hi \in [1 .. Len(g) -> Nat]
    /\ \A i \in 1 .. Len(g) : 0 < lo[i] /\ lo[i] < hi[i] /\ hi[i] <= c
    /\ \A i, j \in 1 .. Len(g) : i < j => hi[i] < lo[j]
    /\ \A i \in 1 .. Len(g) : Result(g[i], R, n, end, D, lo[i], hi[i])

\* The frames of the replies.
Framed(F, R) ==
    \A k \in 1 .. Len(R) : F[k] = BuildMessage(R[k]) /\ IsFrame(F[k], R[k])

GenInv ==
    /\ pc = "idle" => acc = <<>>
    /\ \E F, P, T, end, D, c, lo, hi :
          /\ Framed(F, exchange.replies)
          /\ Laid(P, end, F, sent)
          /\ Changed(P, T, D, damages)
          /\ Window(T, c, acc, line)
          /\ Results(got, exchange.replies, sent, end, D, c, lo, hi)

----
(***************************************************************************)
(* Frames in what was sent.                                                *)
(***************************************************************************)
\* Two flags with something between them, none of it a flag, are those of one message.
LEMMA FrameAt ==
    ASSUME NEW P, NEW end, NEW F, NEW R, NEW n, Laid(P, end, F, n), Framed(F, R),
           Len(R) \in Nat, n <= Len(R),
           NEW lo \in Nat, NEW hi \in Nat, 1 <= lo, lo + 2 <= hi, hi <= Len(P),
           P[lo] = Flag, P[hi] = Flag, \A i \in lo + 1 .. hi - 1 : P[i] # Flag
    PROVE  \E k \in 1 .. n : lo = end[k - 1] + 1 /\ hi = end[k]
<1>1. n \in Nat /\ \A k \in 0 .. n : end[k] \in Nat
  BY DEF Laid
<1> DEFINE T == {k \in 0 .. n : hi <= end[k]}
<1>2. n \in T /\ T \subseteq Nat
  BY <1>1 DEF Laid
<1>3. PICK k \in T : \A i \in T : k <= i
  <2> HIDE DEF T
  <2> QED
    BY <1>2, LeastIndex
<1>4. k \in 1 .. n /\ k - 1 \in 0 .. n /\ end[k - 1] < hi /\ hi <= end[k]
  <2>1. k # 0
    BY DEF Laid
  <2>2. k - 1 \in 0 .. n
    BY <1>1, <2>1
  <2>3. k - 1 \notin T
    BY <1>3, <2>2
  <2> QED
    BY <1>1, <2>1, <2>2, <2>3
<1> DEFINE M == F[k]
           b == end[k - 1]
           m == Len(M)
<1>5. /\ b \in Nat /\ m \in Nat /\ m >= 3 /\ end[k] = b + m
      /\ M[1] = Flag /\ M[m] = Flag /\ \A i \in 2 .. m - 1 : M[i] # Flag
      /\ \A i \in 1 .. m : P[b + i] = M[i]
  <2>1. k \in 1 .. Len(R)
    BY <1>1, <1>4
  <2>2. IsFrame(F[k], R[k])
    BY <2>1 DEF Framed
  <2> QED
    BY <1>1, <1>4, <2>2 DEF Laid, IsFrame
<1>6. b < hi /\ hi <= b + m
  BY <1>4, <1>5
<1> HIDE DEF M, b, m
<1>7. CASE hi = b + m
  <2>1. ASSUME lo <= b PROVE FALSE
    <3> DEFINE q == b + 1
    <3>1. q \in lo + 1 .. hi - 1 /\ 1 \in 1 .. m
      BY <1>5, <1>7, <2>1
    <3>2. P[q] = M[1]
      BY <1>5, <3>1
    <3> HIDE DEF q
    <3> QED
      BY <1>5, <3>1, <3>2
  <2>2. ASSUME lo > b + 1 PROVE FALSE
    <3> DEFINE i == lo - b
    <3>1. i \in 2 .. m - 1 /\ i \in 1 .. m /\ b + i = lo
      BY <1>5, <1>7, <2>2
    <3> HIDE DEF i
    <3> QED
      BY <1>5, <3>1
  <2>3. lo = b + 1
    BY <1>5, <2>1, <2>2
  <2> QED
    BY <1>4, <1>5, <1>7, <2>3 DEF b
<1>8. CASE hi # b + m
  <2> DEFINE i == hi - b
  <2>1. i \in 1 .. m - 1 /\ i \in 1 .. m /\ b + i = hi
    BY <1>5, <1>6, <1>8
  <2>2. i = 1
    <3>1. i \notin 2 .. m - 1
      <4> HIDE DEF i
      <4> QED
        BY <1>5, <2>1
    <3> QED
      BY <1>5, <2>1, <3>1
  <2>3. hi = b + 1
    BY <2>1, <2>2
  <2>4. b \in lo + 1 .. hi - 1 /\ b > 0
    BY <1>5, <2>3
  <2>5. k - 1 \in 1 .. n /\ k - 1 - 1 \in 0 .. n
    <3>1. k - 1 # 0
      BY <2>4 DEF Laid, b
    <3> QED
      BY <1>1, <1>4, <3>1
  <2> DEFINE h == k - 1
             N == F[h]
             e == end[h - 1]
  <2>6. /\ e \in Nat /\ Len(N) \in Nat /\ Len(N) >= 3 /\ b = e + Len(N)
        /\ N[Len(N)] = Flag /\ \A j \in 1 .. Len(N) : P[e + j] = N[j]
    <3>1. h \in 1 .. n /\ h \in 1 .. Len(R) /\ b = end[h] /\ h - 1 \in 0 .. n
      BY <1>1, <2>5 DEF b
    <3> HIDE DEF h
    <3>2. IsFrame(F[h], R[h])
      BY <3>1 DEF Framed
    <3> QED
      BY <1>1, <3>1, <3>2 DEF Laid, IsFrame
  <2> HIDE DEF N, e, h
  <2>7. P[b] = Flag
    <3>1. Len(N) \in 1 .. Len(N)
      BY <2>6
    <3> QED
      BY <2>6, <3>1
  <2> QED
    BY <2>4, <2>7
<1> QED
  BY <1>7, <1>8

\* A later message ends at a later place.
LEMMA EndsGrow ==
    ASSUME NEW P, NEW end, NEW F, NEW R, NEW n, Laid(P, end, F, n), Framed(F, R),
           Len(R) \in Nat, n <= Len(R), NEW j \in 0 .. n
    PROVE  \A k \in j .. n : end[j] <= end[k]
<1> DEFINE T == {k \in j .. n : end[j] <= end[k]}
<1>1. n \in Nat /\ j \in Nat /\ \A k \in 0 .. n : end[k] \in Nat
  BY DEF Laid
<1>2. j \in T
  BY <1>1
<1>3. ASSUME NEW k \in j + 1 .. n, k - 1 \in T PROVE k \in T
  <2>1. k \in 1 .. n /\ k - 1 \in 0 .. n /\ k \in 1 .. Len(R) /\ k \in j .. n
    BY <1>1
  <2>2. end[k] = end[k - 1] + Len(F[k]) /\ Len(F[k]) \in Nat
    BY <2>1 DEF Laid, Framed, IsFrame
  <2>3. end[j] <= end[k - 1]
    BY <1>3
  <2>4. end[j] <= end[k]
    BY <1>1, <2>1, <2>2, <2>3
  <2> QED
    BY <2>1, <2>4
<1>4. j .. n \subseteq T
  <2> HIDE DEF T
  <2> QED
    BY <1>1, <1>2, <1>3, CountUp
<1> QED
  BY <1>4

LEMMA GenGives == TypeOK /\ GenInv => RepliesAreGenuine
<1> SUFFICES ASSUME TypeOK, GenInv PROVE RepliesAreGenuine
  OBVIOUS
<1> DEFINE R == exchange.replies
           I == 1 .. Len(got)
<1>1. PICK F, P, T, end, D, c, lo, hi :
             /\ Framed(F, R) /\ Laid(P, end, F, sent) /\ Changed(P, T, D, damages)
             /\ Results(got, R, sent, end, D, c, lo, hi)
  BY DEF GenInv
<1>2. /\ Len(got) \in Nat /\ DOMAIN got = I /\ damages \in Nat
      /\ sent \in Nat /\ Len(R) \in Nat /\ sent <= Len(R)
  BY LenProperties, ExchangeFacts DEF TypeOK
<1> DEFINE Hurt(i, d) == lo[i] <= d /\ d <= hi[i]
           wrong == {i \in I : \E d \in D : Hurt(i, d)}
           f == [i \in wrong |-> CHOOSE d \in D : Hurt(i, d)]
<1>3. \A i \in wrong : f[i] \in D /\ Hurt(i, f[i])
  <2> HIDE DEF Hurt
  <2> QED
    OBVIOUS
<1>4. \A i, j \in I : i # j => hi[i] < lo[j] \/ hi[j] < lo[i]
  <2> SUFFICES ASSUME NEW i \in I, NEW j \in I, i # j
               PROVE  hi[i] < lo[j] \/ hi[j] < lo[i]
    OBVIOUS
  <2>1. i < j \/ j < i
    OBVIOUS
  <2> QED
    BY <1>1, <2>1 DEF Results
<1>5. \A i \in I : lo[i] \in Nat /\ hi[i] \in Nat
  BY <1>1 DEF Results
<1>6. D \subseteq Nat /\ IsFiniteSet(D) /\ Cardinality(D) <= damages
  BY <1>1 DEF Changed
<1>7. ASSUME NEW i \in wrong, NEW j \in wrong, f[i] = f[j] PROVE i = j
  <2> DEFINE d == f[i]
  <2>1. d \in Nat /\ Hurt(i, d) /\ Hurt(j, d) /\ i \in I /\ j \in I
    BY <1>3, <1>6, <1>7
  <2> HIDE DEF d, f, wrong
  <2> QED
    BY <1>4, <1>5, <2>1
<1>8. Cardinality(wrong) <= damages
  <2>1. f \in [wrong -> D]
    BY <1>3
  <2> HIDE DEF f
  <2>2. f \in Injection(wrong, D)
    BY <1>7, <2>1 DEF Injection, IsInjective
  <2>3. IsFiniteSet(wrong) /\ Cardinality(wrong) <= Cardinality(D)
    <3> HIDE DEF wrong
    <3> QED
      BY <1>6, <2>2, FS_Injection
  <2> HIDE DEF wrong
  <2>4. Cardinality(wrong) \in Nat /\ Cardinality(D) \in Nat
    BY <1>6, <2>3, FS_CardinalityType
  <2> QED
    BY <1>2, <1>6, <2>3, <2>4
<1>9. wrong \in SUBSET DOMAIN got
  BY <1>2
<1> DEFINE Good == DOMAIN got \ wrong
           At(i, k) == /\ lo[i] = end[k - 1] + 1 /\ hi[i] = end[k]
                       /\ got[i] = Heard(R[k])
           of == [i \in Good |-> CHOOSE k \in 1 .. sent : At(i, k)]
<1>10. \A i \in Good : \E k \in 1 .. sent : At(i, k)
  <2> SUFFICES ASSUME NEW i \in Good PROVE \E k \in 1 .. sent : At(i, k)
    OBVIOUS
  <2>1. i \in I /\ \A d \in D : ~(lo[i] <= d /\ d <= hi[i])
    BY <1>2
  <2>2. Result(got[i], R, sent, end, D, lo[i], hi[i])
    BY <1>1, <2>1 DEF Results
  <2> QED
    BY <2>1, <2>2 DEF Result
<1>11. \A i \in Good : of[i] \in 1 .. sent /\ At(i, of[i])
  <2> HIDE DEF At, Good
  <2> QED
    BY <1>10
<1>12. of \in [Good -> 1 .. sent]
  BY <1>11
<1>13. ASSUME NEW i \in Good, NEW j \in Good, i < j PROVE of[i] < of[j]
  <2> DEFINE k == of[i]
             l == of[j]
  <2>1. k \in 1 .. sent /\ l \in 1 .. sent /\ hi[i] = end[k] /\ hi[j] = end[l]
    BY <1>11
  <2>2. i \in I /\ j \in I
    BY <1>2
  <2> HIDE DEF of, k, l, Good
  <2>3. hi[i] < lo[j] /\ lo[j] < hi[j] /\ hi[i] \in Nat /\ hi[j] \in Nat /\ lo[j] \in Nat
    BY <1>1, <1>13, <2>2 DEF Results
  <2>4. ~(l <= k)
    <3> SUFFICES ASSUME l <= k PROVE FALSE
      OBVIOUS
    <3>1. l \in 0 .. sent /\ k \in l .. sent
      BY <1>2, <2>1
    <3>2. end[l] <= end[k]
      BY <1>1, <1>2, <3>1, EndsGrow
    <3> QED
      BY <2>1, <2>3, <3>2
  <2> QED
    BY <1>2, <2>1, <2>4 DEF k, l
<1>14. \A i \in Good : got[i] = Heard(R[of[i]])
  BY <1>11
<1> HIDE DEF wrong, of
<1>15. DOMAIN of = Good
  BY <1>12
<1> QED
  BY <1>8, <1>9, <1>12, <1>13, <1>14, <1>15 DEF RepliesAreGenuine

----
(***************************************************************************)
(* What each step makes of the history.                                    *)
(***************************************************************************)
\* e is f with x at the new place q.
Longer(e, f, b, q, x) == e = [i \in b .. q |-> IF i = q THEN x ELSE f[i]]

LEMMA SendLaid ==
    ASSUME NEW P, NEW end, NEW F, NEW R, NEW n, Laid(P, end, F, n), Framed(F, R),
           Len(R) \in Nat, n <= Len(R), NEW q \in Nat, q = n + 1, q <= Len(R),
           NEW M, M \in Seq(Byte), F[q] = M, NEW S, Joins(S, P, M),
           NEW e, Longer(e, end, 0, q, end[n] + Len(M))
    PROVE  Laid(S, e, F, q)
<1>1. n \in Nat /\ \A k \in 0 .. n : end[k] \in Nat
  BY DEF Laid
<1>2. /\ S \in Seq(Byte) /\ Len(M) \in Nat /\ Len(S) = Len(P) + Len(M) /\ Len(P) = end[n]
      /\ \A i \in 1 .. Len(P) : S[i] = P[i]
      /\ \A i \in 1 .. Len(M) : S[Len(P) + i] = M[i]
  BY DEF Joins, Laid
<1>3. e[q] = end[n] + Len(M) /\ \A k \in 0 .. n : e[k] = end[k]
  BY <1>1 DEF Longer
<1>4. e \in [0 .. q -> Nat]
  BY <1>1, <1>2 DEF Longer
<1>5. e[0] = 0 /\ Len(S) = e[q]
  BY <1>1, <1>2, <1>3 DEF Laid
<1>6. ASSUME NEW k \in 1 .. q
      PROVE  /\ e[k] = e[k - 1] + Len(F[k])
             /\ \A i \in 1 .. Len(F[k]) : S[e[k - 1] + i] = F[k][i]
  <2>1. CASE k = q
    <3>1. e[k - 1] = end[n] /\ e[k] = end[n] + Len(M) /\ F[k] = M
      BY <1>1, <1>3, <2>1
    <3> QED
      BY <1>2, <3>1
  <2>2. CASE k # q
    <3>1. k \in 1 .. n /\ k - 1 \in 0 .. n /\ k \in 0 .. n /\ n \in k .. n /\ k \in 1 .. Len(R)
      BY <1>1, <2>2
    <3> DEFINE b == end[k - 1]
               N == F[k]
    <3>2. /\ end[k] = b + Len(N) /\ b \in Nat
          /\ \A i \in 1 .. Len(N) : P[b + i] = N[i]
      BY <1>1, <3>1 DEF Laid
    <3>3. Len(N) \in Nat
      BY <3>1 DEF Framed, IsFrame
    <3>4. end[k] <= end[n]
      BY <3>1, EndsGrow
    <3>5. e[k] = end[k] /\ e[k - 1] = b
      BY <1>3, <3>1
    <3> HIDE DEF b, N
    <3>6. \A i \in 1 .. Len(N) : S[b + i] = N[i]
      <4> SUFFICES ASSUME NEW i \in 1 .. Len(N) PROVE S[b + i] = N[i]
        OBVIOUS
      <4> DEFINE j == b + i
      <4>1. j \in 1 .. Len(P) /\ P[j] = N[i]
        BY <1>1, <1>2, <3>2, <3>3, <3>4
      <4> HIDE DEF j
      <4>2. S[j] = N[i]
        BY <1>2, <4>1
      <4> QED
        BY <4>2 DEF j
    <3> QED
      BY <3>2, <3>5, <3>6 DEF N
  <2> QED
    BY <2>1, <2>2
<1> QED
  BY <1>2, <1>4, <1>5, <1>6 DEF Laid

LEMMA SendChanged ==
    ASSUME NEW P, NEW T, NEW D, NEW d, Changed(P, T, D, d),
           NEW M, NEW S, NEW U, Joins(S, P, M), Joins(U, T, M)
    PROVE  Changed(S, U, D, d)
<1>1. /\ Len(T) \in Nat /\ Len(P) = Len(T) /\ Len(M) \in Nat
      /\ Len(S) = Len(P) + Len(M) /\ Len(U) = Len(T) + Len(M)
      /\ U \in Seq(Byte) /\ Len(U) \in Nat
  BY DEF Changed, Joins
<1>2. D \subseteq 1 .. Len(U) /\ IsFiniteSet(D) /\ Cardinality(D) <= d
  BY <1>1 DEF Changed
<1>3. ASSUME NEW i \in 1 .. Len(U), i \notin D PROVE S[i] = U[i]
  <2>1. CASE i <= Len(T)
    <3>1. i \in 1 .. Len(T) /\ i \in 1 .. Len(S) /\ i <= Len(P)
      BY <1>1, <2>1
    <3>2. S[i] = P[i] /\ U[i] = T[i]
      BY <2>1, <3>1, JoinsAt
    <3> QED
      BY <1>3, <3>1, <3>2 DEF Changed
  <2>2. CASE ~(i <= Len(T))
    <3> DEFINE j == i - Len(T)
    <3>1. j \in 1 .. Len(M) /\ i = Len(T) + j /\ i = Len(P) + j /\ i \in 1 .. Len(S)
      BY <1>1, <2>2
    <3> HIDE DEF j
    <3>2. S[i] = M[j] /\ U[i] = M[j]
      BY <3>1, JoinsAt
    <3> QED
      BY <3>2
  <2> QED
    BY <2>1, <2>2
<1>4. Len(S) = Len(U)
  BY <1>1
<1> QED
  BY <1>1, <1>2, <1>3, <1>4 DEF Changed

LEMMA SendWindow ==
    ASSUME NEW T, NEW c, NEW a, NEW l, Window(T, c, a, l),
           NEW M, NEW U, NEW k, Joins(U, T, M), Joins(k, l, M)
    PROVE  Window(U, c, a, k)
<1>1. /\ Len(T) = c + Len(a) + Len(l) /\ c \in Nat /\ Len(a) \in Nat /\ Len(l) \in Nat
      /\ Len(U) = Len(T) + Len(M) /\ Len(k) = Len(l) + Len(M) /\ Len(M) \in Nat
      /\ U \in Seq(Byte) /\ a \in Seq(Byte) /\ k \in Seq(Byte)
      /\ Len(U) = c + Len(a) + Len(k)
  <2>1. Len(a) \in Nat
    BY LenProperties DEF Window
  <2> QED
    BY <2>1 DEF Window, Joins
<1>2. ASSUME NEW i \in 1 .. Len(a) PROVE U[c + i] = a[i]
  <2> DEFINE j == c + i
  <2>1. j \in 1 .. Len(U) /\ j <= Len(T) /\ T[j] = a[i]
    BY <1>1 DEF Window
  <2> HIDE DEF j
  <2>2. U[j] = a[i]
    BY <2>1, JoinsAt
  <2> QED
    BY <2>2 DEF j
<1>3. ASSUME NEW i \in 1 .. Len(k) PROVE U[c + Len(a) + i] = k[i]
  <2> DEFINE j == c + Len(a) + i
  <2>1. CASE i <= Len(l)
    <3>1. i \in 1 .. Len(l) /\ j \in 1 .. Len(U) /\ j <= Len(T)
      BY <1>1, <2>1
    <3>2. T[j] = l[i]
      BY <3>1 DEF Window
    <3> HIDE DEF j
    <3>3. U[j] = T[j] /\ k[i] = l[i]
      BY <2>1, <3>1, JoinsAt
    <3> QED
      BY <3>2, <3>3 DEF j
  <2>2. CASE ~(i <= Len(l))
    <3> DEFINE h == i - Len(l)
    <3>1. h \in 1 .. Len(M) /\ i = Len(l) + h /\ j = Len(T) + h /\ j \in 1 .. Len(U)
      BY <1>1, <2>2
    <3> HIDE DEF h, j
    <3>2. U[j] = M[h] /\ k[i] = M[h]
      BY <3>1, JoinsAt
    <3> QED
      BY <3>2 DEF j
  <2> QED
    BY <2>1, <2>2
<1> QED
  BY <1>1, <1>2, <1>3 DEF Window

LEMMA SendResults ==
    ASSUME NEW g, NEW R, NEW n \in Nat, NEW end, NEW D, NEW c, NEW lo, NEW hi,
           Results(g, R, n, end, D, c, lo, hi),
           NEW q \in Nat, n <= q, NEW e, \A k \in 0 .. n : e[k] = end[k]
    PROVE  Results(g, R, q, e, D, c, lo, hi)
<1>1. ASSUME NEW i \in 1 .. Len(g), \A d \in D : ~(lo[i] <= d /\ d <= hi[i])
      PROVE  \E k \in 1 .. q : lo[i] = e[k - 1] + 1 /\ hi[i] = e[k] /\ g[i] = Heard(R[k])
  <2>1. PICK k \in 1 .. n :
             lo[i] = end[k - 1] + 1 /\ hi[i] = end[k] /\ g[i] = Heard(R[k])
    BY <1>1 DEF Results, Result
  <2>2. k \in 1 .. q /\ k \in 0 .. n /\ k - 1 \in 0 .. n
    OBVIOUS
  <2>3. e[k] = end[k] /\ e[k - 1] = end[k - 1]
    BY <2>2
  <2> QED
    BY <2>1, <2>2, <2>3
<1>2. \A i \in 1 .. Len(g) : Result(g[i], R, q, e, D, lo[i], hi[i])
  BY <1>1 DEF Result
<1> QED
  BY <1>2, Zenon DEF Results

LEMMA DamageChanged ==
    ASSUME NEW P, NEW T, NEW D, NEW d \in Nat, Changed(P, T, D, d),
           NEW q \in 1 .. Len(T), NEW b \in Byte, NEW U, U = [T EXCEPT ![q] = b]
    PROVE  Changed(P, U, D \cup {q}, d + 1)
<1>1. T \in Seq(Byte) /\ Len(T) \in Nat
  BY DEF Changed
<1>2. /\ U \in Seq(Byte) /\ Len(U) = Len(T)
      /\ \A j \in 1 .. Len(T) : j # q => U[j] = T[j]
  BY <1>1, ExceptSeq
<1>3. IsFiniteSet(D \cup {q}) /\ Cardinality(D \cup {q}) <= d + 1
  <2>1. IsFiniteSet(D) /\ Cardinality(D) \in Nat /\ Cardinality(D) <= d
    BY FS_CardinalityType DEF Changed
  <2>2. /\ IsFiniteSet(D \cup {q})
        /\ Cardinality(D \cup {q}) = IF q \in D THEN Cardinality(D) ELSE Cardinality(D) + 1
    BY <2>1, FS_AddElement
  <2> QED
    BY <2>1, <2>2
<1>4. \A i \in 1 .. Len(U) : i \notin D \cup {q} => P[i] = U[i]
  BY <1>2 DEF Changed
<1> QED
  BY <1>1, <1>2, <1>3, <1>4 DEF Changed

LEMMA DamageWindow ==
    ASSUME NEW T, NEW c, NEW a, NEW l, Window(T, c, a, l),
           NEW i \in 1 .. Len(l), NEW b \in Byte, NEW q, q = c + Len(a) + i,
           NEW U, U = [T EXCEPT ![q] = b], NEW k, k = [l EXCEPT ![i] = b]
    PROVE  q \in 1 .. Len(T) /\ Window(U, c, a, k)
<1>1. /\ T \in Seq(Byte) /\ a \in Seq(Byte) /\ l \in Seq(Byte) /\ c \in Nat
      /\ Len(T) = c + Len(a) + Len(l) /\ Len(a) \in Nat /\ Len(l) \in Nat
  BY LenProperties DEF Window
<1>2. q \in 1 .. Len(T)
  BY <1>1
<1>3. /\ U \in Seq(Byte) /\ Len(U) = Len(T)
      /\ \A j \in 1 .. Len(T) : U[j] = IF j = q THEN b ELSE T[j]
  BY <1>1, <1>2, ExceptSeq
<1>4. /\ k \in Seq(Byte) /\ Len(k) = Len(l)
      /\ \A j \in 1 .. Len(l) : k[j] = IF j = i THEN b ELSE l[j]
  BY <1>1, ExceptSeq
<1>5. ASSUME NEW j \in 1 .. Len(a) PROVE U[c + j] = a[j]
  <2> DEFINE h == c + j
  <2>1. h \in 1 .. Len(T) /\ h # q /\ T[h] = a[j]
    BY <1>1 DEF Window
  <2> HIDE DEF h
  <2>2. U[h] = a[j]
    BY <1>3, <2>1
  <2> QED
    BY <2>2 DEF h
<1>6. ASSUME NEW j \in 1 .. Len(k) PROVE U[c + Len(a) + j] = k[j]
  <2> DEFINE h == c + Len(a) + j
  <2>0. j \in 1 .. Len(l) /\ h \in 1 .. Len(T) /\ (h = q <=> j = i)
    BY <1>1, <1>4
  <2>1. T[h] = l[j]
    BY <2>0 DEF Window
  <2> HIDE DEF h
  <2>2. U[h] = k[j]
    BY <1>3, <1>4, <2>0, <2>1
  <2> QED
    BY <2>2 DEF h
<1> QED
  BY <1>1, <1>2, <1>3, <1>4, <1>5, <1>6 DEF Window

LEMMA MoreHurt ==
    ASSUME NEW g, NEW R, NEW n, NEW end, NEW D, NEW c, NEW lo, NEW hi,
           Results(g, R, n, end, D, c, lo, hi), NEW E, D \subseteq E
    PROVE  Results(g, R, n, end, E, c, lo, hi)
<1>1. \A i \in 1 .. Len(g) : Result(g[i], R, n, end, E, lo[i], hi[i])
  <2> SUFFICES ASSUME NEW i \in 1 .. Len(g), \A d \in E : ~(lo[i] <= d /\ d <= hi[i])
               PROVE  \E k \in 1 .. n : /\ lo[i] = end[k - 1] + 1 /\ hi[i] = end[k]
                                        /\ g[i] = Heard(R[k])
    BY DEF Result
  <2>1. \A d \in D : ~(lo[i] <= d /\ d <= hi[i])
    OBVIOUS
  <2> QED
    BY <2>1 DEF Results, Result
<1> QED
  BY <1>1, Zenon DEF Results

\* The host takes bytes off the line,
LEMMA ReadWindow ==
    ASSUME NEW T, NEW c, NEW a, NEW l, Window(T, c, a, l), NEW n \in 1 .. Len(l)
    PROVE  Window(T, c, a \o SubSeq(l, 1, n), SubSeq(l, n + 1, Len(l)))
<1> DEFINE r == SubSeq(l, 1, n)
           k == SubSeq(l, n + 1, Len(l))
           s == a \o r
<1>1. /\ T \in Seq(Byte) /\ a \in Seq(Byte) /\ l \in Seq(Byte) /\ c \in Nat
      /\ Len(T) = c + Len(a) + Len(l) /\ Len(a) \in Nat /\ Len(l) \in Nat
  BY LenProperties DEF Window
<1>2. /\ r \in Seq(Byte) /\ Len(r) = n /\ \A i \in 1 .. n : r[i] = l[i]
      /\ k \in Seq(Byte) /\ Len(k) = Len(l) - n /\ \A i \in 1 .. Len(l) - n : k[i] = l[n + i]
  BY <1>1, Cut
<1> HIDE DEF r, k
<1>3. Joins(s, a, r)
  BY <1>1, <1>2, Concatenated
<1> HIDE DEF s
<1>4. s \in Seq(Byte) /\ Len(s) = Len(a) + n /\ Len(T) = c + Len(s) + Len(k)
  BY <1>1, <1>2, <1>3 DEF Joins
<1>5. ASSUME NEW i \in 1 .. Len(s) PROVE T[c + i] = s[i]
  <2>1. CASE i <= Len(a)
    <3>1. i \in 1 .. Len(a) /\ s[i] = a[i]
      BY <1>1, <1>3, <1>4, <2>1, JoinsAt
    <3> QED
      BY <3>1 DEF Window
  <2>2. CASE ~(i <= Len(a))
    <3> DEFINE j == i - Len(a)
    <3>1. /\ j \in 1 .. Len(r) /\ i = Len(a) + j /\ j \in 1 .. n /\ j \in 1 .. Len(l)
          /\ c + Len(a) + j = c + i
      BY <1>1, <1>2, <1>4, <2>2
    <3> HIDE DEF j
    <3>2. s[i] = r[j] /\ r[j] = l[j]
      BY <1>2, <1>3, <3>1, JoinsAt
    <3>3. T[c + Len(a) + j] = l[j]
      BY <3>1 DEF Window
    <3> QED
      BY <3>1, <3>2, <3>3
  <2> QED
    BY <2>1, <2>2
<1>6. ASSUME NEW i \in 1 .. Len(k) PROVE T[c + Len(s) + i] = k[i]
  <2> DEFINE j == n + i
  <2>1. j \in 1 .. Len(l) /\ c + Len(a) + j = c + Len(s) + i /\ k[i] = l[j]
    BY <1>1, <1>2, <1>4
  <2> HIDE DEF j
  <2>2. T[c + Len(a) + j] = l[j]
    BY <2>1 DEF Window
  <2> QED
    BY <2>1, <2>2
<1>7. Window(T, c, s, k)
  BY <1>1, <1>2, <1>4, <1>5, <1>6 DEF Window
<1> QED
  BY <1>7 DEF r, k, s

\* and is done with what it has.
LEMMA DropWindow ==
    ASSUME NEW T, NEW c, NEW a, NEW l, Window(T, c, a, l)
    PROVE  /\ Window(T, c + Len(a), <<>>, l)
           /\ Len(a) \in Nat /\ c \in Nat /\ c + Len(a) \in Nat
<1>1. /\ T \in Seq(Byte) /\ a \in Seq(Byte) /\ l \in Seq(Byte) /\ c \in Nat
      /\ Len(T) = c + Len(a) + Len(l) /\ Len(a) \in Nat /\ Len(l) \in Nat
  BY LenProperties DEF Window
<1> DEFINE d == c + Len(a)
           e == <<>>
<1>2. d \in Nat /\ e \in Seq(Byte) /\ Len(e) = 0 /\ d + Len(e) = d /\ Len(T) = d + Len(e) + Len(l)
  BY <1>1
<1>3. \A i \in 1 .. Len(l) : T[d + i] = l[i]
  BY DEF Window
<1> HIDE DEF d, e
<1>4. Window(T, d, e, l)
  <2>1. \A i \in 1 .. Len(e) : T[d + i] = e[i]
    BY <1>2
  <2>2. \A i \in 1 .. Len(l) : T[d + Len(e) + i] = l[i]
    BY <1>2, <1>3
  <2> QED
    BY <1>1, <1>2, <2>1, <2>2, Zenon DEF Window
<1> QED
  BY <1>1, <1>2, <1>4 DEF d, e

LEMMA DropResults ==
    ASSUME NEW g, NEW R, NEW n, NEW end, NEW D, NEW c \in Nat, NEW lo, NEW hi,
           Results(g, R, n, end, D, c, lo, hi), NEW d \in Nat, c <= d
    PROVE  Results(g, R, n, end, D, d, lo, hi)
<1>1. \A i \in 1 .. Len(g) : hi[i] <= d
  BY DEF Results
<1> QED
  BY <1>1, Zenon DEF Results

\* The frame that the host finds is that of a reply, if no byte of it was changed.
LEMMA FrameHeard ==
    ASSUME NEW P, NEW T, NEW end, NEW F, NEW R, NEW n, NEW D, NEW d, NEW c, NEW a, NEW l,
           Framed(F, R), Len(R) \in Nat, n <= Len(R), Laid(P, end, F, n),
           Changed(P, T, D, d), Window(T, c, a, l), NEW lo, NEW hi, FirstFrame(a, lo, hi)
    PROVE  Result(ParseMessage(FrameBody(a)), R, n, end, D, c + lo, c + hi)
<1> DEFINE x == c + lo
           y == c + hi
<1>1. /\ T \in Seq(Byte) /\ a \in Seq(Byte) /\ c \in Nat /\ n \in Nat
      /\ Len(T) = c + Len(a) + Len(l) /\ Len(a) \in Nat /\ Len(l) \in Nat
  BY LenProperties DEF Window, Laid
<1>2. /\ lo \in 1 .. Len(a) /\ hi \in 1 .. Len(a) /\ lo + 2 <= hi
      /\ a[lo] = Flag /\ a[hi] = Flag /\ \A i \in lo + 1 .. hi - 1 : a[i] # Flag
      /\ FrameBody(a) = Unescape(SubSeq(a, lo + 1, hi - 1))
  BY DEF FirstFrame
<1> SUFFICES ASSUME \A q \in D : ~(x <= q /\ q <= y)
             PROVE  \E k \in 1 .. n : /\ x = end[k - 1] + 1 /\ y = end[k]
                                      /\ ParseMessage(FrameBody(a)) = Heard(R[k])
  BY DEF Result
<1>3. ASSUME NEW i \in lo .. hi
      PROVE  c + i \in 1 .. Len(T) /\ i \in 1 .. Len(a) /\ P[c + i] = a[i]
  <2> DEFINE j == c + i
  <2>1. j \in 1 .. Len(T) /\ j \in Nat /\ x <= j /\ j <= y /\ i \in 1 .. Len(a)
    BY <1>1, <1>2
  <2>2. T[j] = a[i]
    BY <2>1 DEF Window
  <2> HIDE DEF x, y, j
  <2>3. j \notin D
    BY <2>1
  <2>4. P[j] = T[j]
    BY <2>1, <2>3 DEF Changed
  <2> QED
    BY <2>1, <2>2, <2>4 DEF j
<1>4. PICK k \in 1 .. n : x = end[k - 1] + 1 /\ y = end[k]
  <2>1. lo \in lo .. hi /\ hi \in lo .. hi
    BY <1>1, <1>2
  <2>2. P[x] = Flag /\ P[y] = Flag
    BY <1>2, <1>3, <2>1
  <2>3. /\ x \in Nat /\ y \in Nat /\ 1 <= x /\ x + 2 <= y /\ y <= Len(T) /\ Len(P) = Len(T)
    BY <1>1, <1>2 DEF Changed
  <2>4. ASSUME NEW j \in x + 1 .. y - 1 PROVE P[j] # Flag
    <3> DEFINE i == j - c
    <3>1. i \in lo .. hi /\ i \in lo + 1 .. hi - 1 /\ c + i = j
      BY <1>1, <1>2
    <3> HIDE DEF i
    <3> QED
      BY <1>2, <1>3, <3>1
  <2> HIDE DEF x, y
  <2> QED
    BY <2>2, <2>3, <2>4, FrameAt
<1> DEFINE M == F[k]
           m == Len(M)
           b == end[k - 1]
<1>5. /\ M \in Seq(Byte) /\ m \in Nat /\ m >= 3 /\ b \in Nat /\ end[k] = b + m
      /\ \A i \in 1 .. m : P[b + i] = M[i]
      /\ ParseMessage(Unescape(SubSeq(M, 2, m - 1))) = Heard(R[k])
  <2>1. k \in 1 .. Len(R) /\ k - 1 \in 0 .. n
    BY <1>1
  <2>2. IsFrame(F[k], R[k])
    BY <2>1 DEF Framed
  <2> QED
    BY <1>1, <2>1, <2>2 DEF Laid, IsFrame
<1>6. c + lo = b + 1 /\ c + hi = b + m
  BY <1>4, <1>5
<1> HIDE DEF M, m, b, x, y
<1>7. SubSeq(a, lo + 1, hi - 1) = SubSeq(M, 2, m - 1)
  <2> DEFINE u == lo + 1
             v == hi - 1
             w == m - 1
             A == SubSeq(a, u, v)
             B == SubSeq(M, 2, w)
  <2>0. \A i \in 2 .. w : i \in 1 .. m
    BY <1>5
  <2>1. /\ u \in Int /\ v \in Int /\ w \in Int /\ v - u = w - 2
        /\ \A i \in u .. v : i \in 1 .. Len(a)
        /\ \A i \in 2 .. w : i \in 1 .. Len(M)
    <3>1. v - u = w - 2
      <4>1. /\ c \in Int /\ b \in Int /\ m \in Int /\ lo \in Int /\ hi \in Int
        BY <1>1, <1>2, <1>5
      <4> QED
        BY ONLY <1>6, <4>1
    <3>2. \A i \in u .. v : i \in 1 .. Len(a)
      BY <1>1, <1>2
    <3> QED
      BY <1>1, <1>2, <1>5, <2>0, <3>1, <3>2 DEF m
  <2>2. /\ \A i \in u .. v : a[i] \in Byte
        /\ \A i \in 2 .. w : M[i] \in Byte
    BY <1>1, <1>5, <2>1, ElementOfSeq
  <2>3. u \in Int /\ v \in Int /\ w \in Int /\ 2 \in Int /\ v - u + 1 = w - 2 + 1 /\ u <= v /\ 2 <= w
    BY <1>1, <1>2, <1>5, <2>1
  <2>4. ASSUME NEW i \in 1 .. w - 2 + 1 PROVE a[u + i - 1] = M[2 + i - 1]
    <3> DEFINE p == u + i - 1
               q == 2 + i - 1
    <3>1. p \in lo .. hi /\ q \in 1 .. m /\ c + p = b + q
      BY <1>1, <1>2, <1>5, <1>6, <2>1
    <3> HIDE DEF p, q
    <3>2. P[c + p] = a[p] /\ P[b + q] = M[q]
      BY <1>3, <1>5, <3>1
    <3> QED
      BY <3>1, <3>2 DEF p, q
  <2> HIDE DEF u, v, w
  <2>5. /\ A \in Seq(Byte) /\ Len(A) = v - u + 1
        /\ \A i \in 1 .. v - u + 1 : A[i] = a[u + i - 1]
    <3>1. /\ A \in Seq(Byte) /\ Len(A) = IF u <= v THEN v - u + 1 ELSE 0
          /\ \A i \in 1 .. v - u + 1 : A[i] = a[u + i - 1]
      BY ONLY <2>2, <2>3, SubSeqProperties
    <3> QED
      BY <2>3, <3>1
  <2>6. /\ B \in Seq(Byte) /\ Len(B) = w - 2 + 1
        /\ \A i \in 1 .. w - 2 + 1 : B[i] = M[2 + i - 1]
    <3>1. /\ B \in Seq(Byte) /\ Len(B) = IF 2 <= w THEN w - 2 + 1 ELSE 0
          /\ \A i \in 1 .. w - 2 + 1 : B[i] = M[2 + i - 1]
      BY ONLY <2>2, <2>3, SubSeqProperties
    <3> QED
      BY <2>3, <3>1
  <2> HIDE DEF A, B
  <2>7. Len(A) = Len(B) /\ \A i \in 1 .. Len(A) : A[i] = B[i]
    BY <2>3, <2>4, <2>5, <2>6
  <2>8. A = B
    BY <2>5, <2>6, <2>7, SeqEqual
  <2> QED
    BY <2>8 DEF A, B, u, v, w
<1>8. ParseMessage(FrameBody(a)) = Heard(R[k])
  BY <1>2, <1>5, <1>7
<1> QED
  BY <1>4, <1>8

LEMMA MoreResults ==
    ASSUME NEW g \in Seq(Answer), NEW R, NEW n, NEW end, NEW D, NEW c \in Nat, NEW lo, NEW hi,
           Results(g, R, n, end, D, c, lo, hi),
           NEW x \in Nat, NEW y \in Nat, NEW d \in Nat, c < x, x < y, y <= d,
           NEW r \in Answer, Result(r, R, n, end, D, x, y),
           NEW q, q = Len(g) + 1,
           NEW lo2, Longer(lo2, lo, 1, q, x), NEW hi2, Longer(hi2, hi, 1, q, y)
    PROVE  Results(Append(g, r), R, n, end, D, d, lo2, hi2)
<1> DEFINE h == Append(g, r)
<1>1. /\ Len(g) \in Nat /\ Len(h) = q /\ q \in Nat
      /\ \A i \in 1 .. Len(g) : h[i] = g[i]
      /\ h[q] = r
  BY LenProperties, AppendProperties
<1> HIDE DEF h
<1>2. /\ lo \in [1 .. Len(g) -> Nat] /\ hi \in [1 .. Len(g) -> Nat]
      /\ \A i \in 1 .. Len(g) : 0 < lo[i] /\ lo[i] < hi[i] /\ hi[i] <= c
      /\ \A i, j \in 1 .. Len(g) : i < j => hi[i] < lo[j]
      /\ \A i \in 1 .. Len(g) : Result(g[i], R, n, end, D, lo[i], hi[i])
  BY DEF Results
<1>3. \A i \in 1 .. q : i # q => i \in 1 .. Len(g)
  BY <1>1
<1>4. lo2 \in [1 .. q -> Nat] /\ hi2 \in [1 .. q -> Nat]
  BY <1>1, <1>2, <1>3 DEF Longer
<1>5. /\ lo2[q] = x /\ hi2[q] = y
      /\ \A i \in 1 .. Len(g) : lo2[i] = lo[i] /\ hi2[i] = hi[i]
  BY <1>1 DEF Longer
<1>6. \A i \in 1 .. Len(g) : lo[i] \in Nat /\ hi[i] \in Nat
  BY <1>2
<1>7. \A i \in 1 .. q : 0 < lo2[i] /\ lo2[i] < hi2[i] /\ hi2[i] <= d
  BY <1>2, <1>3, <1>5, <1>6
<1>8. \A i, j \in 1 .. q : i < j => hi2[i] < lo2[j]
  <2> SUFFICES ASSUME NEW i \in 1 .. q, NEW j \in 1 .. q, i < j PROVE hi2[i] < lo2[j]
    OBVIOUS
  <2>1. i \in 1 .. Len(g)
    BY <1>1
  <2>2. CASE j = q
    BY <1>2, <1>5, <1>6, <2>1, <2>2
  <2>3. CASE j # q
    BY <1>2, <1>3, <1>5, <2>1, <2>3
  <2> QED
    BY <2>2, <2>3
<1>9. \A i \in 1 .. q : Result(h[i], R, n, end, D, lo2[i], hi2[i])
  <2> SUFFICES ASSUME NEW i \in 1 .. q PROVE Result(h[i], R, n, end, D, lo2[i], hi2[i])
    OBVIOUS
  <2>1. CASE i = q
    BY <1>1, <1>5, <2>1
  <2>2. CASE i # q
    BY <1>1, <1>2, <1>3, <1>5, <2>2
  <2> QED
    BY <2>1, <2>2
<1>10. Results(h, R, n, end, D, d, lo2, hi2)
  BY <1>1, <1>4, <1>7, <1>8, <1>9, Zenon DEF Results
<1> QED
  BY <1>10 DEF h

----
(***************************************************************************)
(* The invariant.                                                          *)
(***************************************************************************)
LEMMA GenInit == Init => GenInv
<1> SUFFICES ASSUME Init PROVE GenInv
  OBVIOUS
<1> DEFINE R == exchange.replies
           F == [k \in 1 .. Len(R) |-> BuildMessage(R[k])]
           e == <<>>
           end == [k \in 0 .. 0 |-> 0]
           lo == [i \in 1 .. 0 |-> 0]
<1>1. Framed(F, R)
  BY ExchangeFacts DEF Init, Framed
<1>2. e \in Seq(Byte) /\ Len(e) = 0
  OBVIOUS
<1>3. Laid(e, end, F, 0)
  <2> HIDE DEF F
  <2> QED
    BY <1>2 DEF Laid
<1>4. Changed(e, e, {}, 0)
  BY <1>2, FS_EmptySet DEF Changed
<1>5. Window(e, 0, e, e)
  BY <1>2 DEF Window
<1>6. Results(e, R, 0, end, {}, 0, lo, lo)
  BY <1>2 DEF Results
<1> HIDE DEF F, end, lo
<1> QED
  BY <1>1, <1>3, <1>4, <1>5, <1>6, Zenon DEF Init, GenInv

LEMMA GenNext == TypeOK /\ GenInv /\ [Next]_vars => GenInv'
<1> SUFFICES ASSUME TypeOK, GenInv, [Next]_vars PROVE GenInv'
  OBVIOUS
<1> DEFINE R == exchange.replies
<1>0. /\ acc \in Seq(Byte) /\ line \in Seq(Byte) /\ sent \in Nat /\ damages \in Nat
      /\ Len(R) \in Nat /\ sent <= Len(R) /\ exchange \in Exchanges /\ got \in Seq(Answer)
  BY ExchangeFacts DEF TypeOK, Answer
<1>a. PICK F, P, T, end, D, c, lo, hi :
             /\ Framed(F, R) /\ Laid(P, end, F, sent) /\ Changed(P, T, D, damages)
             /\ Window(T, c, acc, line) /\ Results(got, R, sent, end, D, c, lo, hi)
  BY DEF GenInv
<1>b. /\ P \in Seq(Byte) /\ T \in Seq(Byte) /\ c \in Nat
      /\ pc = "idle" => acc = <<>>
  BY <1>a DEF GenInv, Laid, Window
<1>1. CASE DeviceSends
  <2> DEFINE q == sent + 1
             M == BuildMessage(R[q])
             e == [k \in 0 .. q |-> IF k = q THEN end[sent] + Len(M) ELSE end[k]]
  <2>1. q \in Nat /\ q = sent + 1 /\ q <= Len(R) /\ sent <= q /\ q \in 1 .. Len(R)
    BY <1>0, <1>1 DEF DeviceSends
  <2>2. /\ line' = line \o M /\ sent' = q
        /\ UNCHANGED <<exchange, pc, acc, got, damages>>
    BY <1>1 DEF DeviceSends
  <2>3. M \in Seq(Byte) /\ F[q] = M
    BY <1>a, <2>1 DEF Framed, IsFrame
  <2>4. \A k \in 0 .. sent : e[k] = end[k]
    BY <1>0
  <2>5. Longer(e, end, 0, q, end[sent] + Len(M))
    BY DEF Longer
  <2> HIDE DEF q, M, e
  <2>6. /\ Joins(P \o M, P, M) /\ Joins(T \o M, T, M) /\ Joins(line \o M, line, M)
    BY <1>0, <1>b, <2>3, Concatenated
  <2>7. Laid(P \o M, e, F, q)
    BY ONLY <1>0, <1>a, <2>1, <2>3, <2>5, <2>6, SendLaid
  <2>8. Changed(P \o M, T \o M, D, damages)
    BY <1>a, <2>6, SendChanged
  <2>9. Window(T \o M, c, acc, line \o M)
    BY <1>a, <2>6, SendWindow
  <2>10. Results(got, R, q, e, D, c, lo, hi)
    BY <1>0, <1>a, <2>1, <2>4, SendResults
  <2> QED
    BY <1>a, <1>b, <2>2, <2>7, <2>8, <2>9, <2>10, Zenon DEF GenInv
<1>2. CASE Damage
  <2>1. PICK i \in DOMAIN line, b \in Byte : line' = [line EXCEPT ![i] = b]
    BY <1>2 DEF Damage
  <2>2. i \in 1 .. Len(line)
    BY <1>0, LenProperties
  <2> DEFINE q == c + Len(acc) + i
             U == [T EXCEPT ![q] = b]
             k == [line EXCEPT ![i] = b]
  <2>3. /\ line' = k /\ damages' = damages + 1
        /\ UNCHANGED <<exchange, sent, pc, acc, got>>
    BY <1>2, <2>1 DEF Damage
  <2>4. q = c + Len(acc) + i /\ U = [T EXCEPT ![q] = b] /\ k = [line EXCEPT ![i] = b]
    OBVIOUS
  <2> HIDE DEF q, U, k
  <2>5. q \in 1 .. Len(T) /\ Window(U, c, acc, k)
    BY <1>a, <2>2, <2>4, DamageWindow
  <2>6. Changed(P, U, D \cup {q}, damages + 1)
    BY <1>0, <1>a, <2>4, <2>5, DamageChanged
  <2>7. Results(got, R, sent, end, D \cup {q}, c, lo, hi)
    <3>1. D \subseteq D \cup {q}
      OBVIOUS
    <3> QED
      BY <1>a, <3>1, MoreHurt
  <2> QED
    BY <1>a, <1>b, <2>3, <2>5, <2>6, <2>7, Zenon DEF GenInv
<1>3. CASE BeginRecv
  <2>1. UNCHANGED <<exchange, sent, line, got, damages, acc>> /\ pc' # "idle"
    BY <1>3, <1>b DEF BeginRecv
  <2> QED
    BY <1>a, <2>1, Zenon DEF GenInv
<1>4. CASE ReadSome
  <2>1. PICK n \in 1 .. Len(line) :
             LET buf == acc \o SubSeq(line, 1, n)
             IN  /\ line' = SubSeq(line, n + 1, Len(line))
                 /\ IF Closing(buf) = {}
                    THEN acc' = buf /\ UNCHANGED <<pc, got>>
                    ELSE /\ got' = Append(got, ParseMessage(FrameBody(buf)))
                         /\ pc' = "idle" /\ acc' = <<>>
    BY <1>4 DEF ReadSome
  <2> DEFINE l == SubSeq(line, n + 1, Len(line))
             buf == acc \o SubSeq(line, 1, n)
  <2>2. Window(T, c, buf, l) /\ line' = l
    BY <1>a, <2>1, ReadWindow
  <2>3. /\ pc = "recv" /\ UNCHANGED <<exchange, sent, damages>>
        /\ Closing(buf) = {} => acc' = buf /\ UNCHANGED <<pc, got>>
        /\ Closing(buf) # {} => /\ got' = Append(got, ParseMessage(FrameBody(buf)))
                                /\ pc' = "idle" /\ acc' = <<>>
    BY <1>4, <2>1 DEF ReadSome
  <2> HIDE DEF l, buf
  <2>4. CASE Closing(buf) = {}
    <3>1. pc' # "idle"
      BY <2>3, <2>4
    <3> QED
      BY <1>a, <2>2, <2>3, <2>4, <3>1, Zenon DEF GenInv
  <2>5. CASE Closing(buf) # {}
    <3>1. buf \in Seq(Byte)
      BY <2>2 DEF Window
    <3>2. PICK x, y : FirstFrame(buf, x, y)
      BY <2>5, <3>1, ClosingGives
    <3> DEFINE r == ParseMessage(FrameBody(buf))
               d == c + Len(buf)
               z == c + x
               w == c + y
               q == Len(got) + 1
               lo2 == [i \in 1 .. q |-> IF i = q THEN z ELSE lo[i]]
               hi2 == [i \in 1 .. q |-> IF i = q THEN w ELSE hi[i]]
    <3>3. Result(r, R, sent, end, D, z, w)
      BY <1>0, <1>a, <2>2, <3>2, FrameHeard
    <3>4. Window(T, d, <<>>, l) /\ d \in Nat /\ Len(buf) \in Nat
      BY <2>2, DropWindow
    <3>5. /\ z \in Nat /\ w \in Nat /\ c < z /\ z < w /\ w <= d
      BY <1>b, <3>2, <3>4 DEF FirstFrame
    <3>6. r \in Answer
      <4>1. SubSeq(buf, x + 1, y - 1) \in Seq(Byte)
        <5>1. /\ x + 1 \in Int /\ y - 1 \in Int
              /\ \A i \in x + 1 .. y - 1 : i \in 1 .. Len(buf)
          BY <3>2, <3>4 DEF FirstFrame
        <5>2. \A i \in x + 1 .. y - 1 : buf[i] \in Byte
          BY <3>1, <5>1, ElementOfSeq
        <5> QED
          BY <5>1, <5>2, SubSeqProperties, Zenon
      <4> QED
        BY <3>2, <4>1, UnescapeBytes, ParsedType DEF FirstFrame
    <3>7. /\ q = Len(got) + 1
          /\ Longer(lo2, lo, 1, q, z) /\ Longer(hi2, hi, 1, q, w)
      BY DEF Longer
    <3>8. got' = Append(got, r) /\ acc' = <<>> /\ UNCHANGED <<exchange, sent, damages>>
      BY <2>3, <2>5
    <3> HIDE DEF r, d, z, w, q, lo2, hi2
    <3>9. Results(Append(got, r), R, sent, end, D, d, lo2, hi2)
      BY ONLY <1>0, <1>a, <1>b, <3>3, <3>4, <3>5, <3>6, <3>7, MoreResults
    <3> QED
      BY <1>a, <2>2, <3>4, <3>8, <3>9, Zenon DEF GenInv
  <2> QED
    BY <2>4, <2>5
<1>5. CASE Timeout
  <2> DEFINE d == c + Len(acc)
  <2>1. Window(T, d, <<>>, line) /\ d \in Nat /\ c <= d
    <3>1. Window(T, d, <<>>, line) /\ d \in Nat /\ c \in Nat /\ Len(acc) \in Nat
      BY <1>a, DropWindow, Zenon
    <3> QED
      BY <3>1
  <2>2. acc' = <<>> /\ UNCHANGED <<exchange, sent, line, got, damages>>
    BY <1>5 DEF Timeout
  <2> HIDE DEF d
  <2>3. Results(got, R, sent, end, D, d, lo, hi)
    BY <1>a, <1>b, <2>1, DropResults
  <2> QED
    BY <1>a, <2>1, <2>2, <2>3, Zenon DEF GenInv
<1>6. CASE PurgeInput
  <2>1. PICK n \in 1 .. Len(line) : line' = SubSeq(line, n + 1, Len(line))
    BY <1>6 DEF PurgeInput
  <2> DEFINE l == SubSeq(line, n + 1, Len(line))
             buf == acc \o SubSeq(line, 1, n)
             d == c + Len(buf)
  <2>2. Window(T, c, buf, l) /\ line' = l
    BY <1>a, <2>1, ReadWindow
  <2>3. acc' = <<>> /\ UNCHANGED <<exchange, sent, got, damages>>
    BY <1>6, <1>b DEF PurgeInput
  <2> HIDE DEF l, buf
  <2>4. Window(T, d, <<>>, l) /\ d \in Nat /\ c <= d
    BY <2>2, DropWindow
  <2> HIDE DEF d
  <2>5. Results(got, R, sent, end, D, d, lo, hi)
    BY <1>a, <1>b, <2>4, DropResults
  <2> QED
    BY <1>a, <2>2, <2>3, <2>4, <2>5, Zenon DEF GenInv
<1>7. CASE UNCHANGED vars
  <2>1. UNCHANGED <<exchange, sent, line, pc, acc, got, damages>>
    BY <1>7 DEF vars
  <2> QED
    BY <1>a, <1>b, <2>1, Zenon DEF GenInv
<1> QED
  BY <1>1, <1>2, <1>3, <1>4, <1>5, <1>6, <1>7 DEF Next

\* However the reads cut the line and whatever timeouts and purges dropped of it, what
\* recv returns are replies of the device, in their order and none twice, but for one
\* wrong result at most for each byte that was damaged.
THEOREM RepliesGenuine == Spec => []RepliesAreGenuine
  BY TypeInit, TypeNext, GenInit, GenNext, GenGives, PTL DEF Spec
====

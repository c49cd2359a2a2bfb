---- MODULE Reconstruct_proofs ----
(***************************************************************************)
(* Theorems about Reconstruct: for images of any length and content, and   *)
(* any size of a block.                                                    *)
(***************************************************************************)
EXTENDS Reconstruct, FiniteSetTheorems, SequenceTheorems, WellFoundedInduction, TLAPS

----
(***************************************************************************)
(* The inductive invariant.                                                *)
(***************************************************************************)
Anchors == [off : Nat, kind : Kinds \ {"nv"}, used : ImageSizes \cup {0}]
Regions == [kind : Kinds, index : Nat, base : Nat, reserved : Nat, used : Nat]

ImageInv ==
    /\ image.len \in Lengths
    /\ image.at \in [BlocksOf(image.len) -> Contents]
    /\ pc \in {"scan", "runs", "assign", "done"}

\* The cursor is at a block while phase 1 runs and where phase 2 starts.
CursorInv ==
    /\ off \in Nat /\ next \in Nat /\ best \in [start : Nat, len : Nat]
    /\ best.len = 0 => best.start = 0
    /\ pc = "scan" => /\ next = 0 /\ best.start = 0 /\ best.len = 0 /\ off <= RoundUp(image.len)
                      /\ \E k \in Nat : off = k * Block
    /\ pc # "scan" => off <= image.len
    /\ pc = "runs" => off < image.len /\ \E k \in Nat : off = k * Block /\ k <= next
    /\ next <= image.len \div Block

\* The anchors ascend within the dump, and none is within the exact length of an image
\* before it.
Below(s, o) ==
    \A i \in DOMAIN s :
        /\ s[i].off < o
        /\ s[i].kind = "uimage" => s[i].off + s[i].used <= o
Ascend(s) ==
    \A i, j \in DOMAIN s : i < j =>
        /\ s[i].off < s[j].off
        /\ s[i].kind = "uimage" => s[i].off + s[i].used <= s[j].off
SegInv ==
    /\ segs \in Seq(Anchors) /\ Ascend(segs) /\ Below(segs, image.len)
    /\ pc \in {"scan", "runs"} => Below(segs, off)
    /\ pc = "scan" => \A i \in DOMAIN segs :
          segs[i].kind = "uimage" =>
              AfterImage(segs[i].off) \in Nat /\ AfterImage(segs[i].off) <= off

\* Phase 1 has an anchor for every image it has passed, or stops at a filesystem block.
Found(b) == WholeBlock(b) /\ IsUImage(b * Block) => InPayload(b * Block)
FoundInv ==
    /\ pc = "scan" => \A b \in Nat : b * Block < off => Found(b)
    /\ pc # "scan" => \A b \in Nat :
          \/ Found(b)
          \/ \E c \in 0 .. b - 1 : IsFs(c * Block) /\ ~InPayload(c * Block)

\* Phase 2 has seen the runs that begin below its index, and keeps the best of them.
Best == <<best.start, best.start + best.len - 1>>
Seen(q) == pc = "runs" => q[1] < next
RunInv ==
    pc # "scan" =>
        /\ best.len > 0 => Best \in Runs /\ (pc = "runs" => best.start + best.len <= next)
        /\ \A q \in Runs : Seen(q) =>
              /\ pc = "runs" => q[2] < next
              /\ q[2] - q[1] + 1 <= best.len
              /\ q[2] - q[1] + 1 = best.len => best.start <= q[1]

CutInv ==
    pc \in {"assign", "done"} /\ best.len > 0 =>
        \E i \in DOMAIN segs : segs[i].off = FsStart /\ NextBase(i) = FsEnd

RegionInv ==
    /\ regions \in Seq(Regions)
    /\ pc \in {"scan", "runs"} => regions = <<>>
    /\ Len(regions) <= Len(segs)
    /\ pc = "done" => Len(regions) = Len(segs)
    /\ \A i \in DOMAIN regions :
          /\ regions[i].kind = RegionKind(i) /\ regions[i].index \in 0 .. i - 1
          /\ regions[i].base = segs[i].off /\ regions[i].reserved = NextBase(i) - segs[i].off
          /\ regions[i].used = UsedSize(i)

ReconstructInv ==
    ImageInv /\ CursorInv /\ SegInv /\ FoundInv /\ RunInv /\ CutInv /\ RegionInv

----
(***************************************************************************)
(* Facts about blocks.                                                     *)
(***************************************************************************)
LEMMA DivFacts ==
    /\ Block \in Nat /\ Block > 0
    /\ \A a \in Nat : a \div Block \in Nat /\ (a \div Block) * Block <= a
                                         /\ a < (a \div Block) * Block + Block
    /\ \A k \in Nat : (k * Block) \div Block = k /\ k * Block \in Nat
BY ReconstructAssumption

LEMMA BlockOrder ==
    /\ \A k, m \in Nat : k * Block < m * Block <=> k < m
    /\ \A k, m \in Nat : k * Block <= m * Block <=> k <= m
    /\ \A k, m \in Nat : k < m => k * Block + Block <= m * Block
    /\ \A k \in Nat : (k + 1) * Block = k * Block + Block
    /\ \A k, m \in Nat : (k + m) * Block = k * Block + m * Block
<1>1. Block \in Nat /\ Block > 0
  BY ReconstructAssumption
<1>2. \A k \in Nat : (k + 1) * Block = k * Block + Block
  BY <1>1
<1>3. \A k, m \in Nat : (k + m) * Block = k * Block + m * Block
  BY <1>1
<1>4. \A k, m \in Nat : k < m => k * Block + Block <= m * Block
  BY <1>1
<1>5. \A k, m \in Nat : k * Block < m * Block <=> k < m
  BY <1>1
<1>6. \A k, m \in Nat : k * Block <= m * Block <=> k <= m
  BY <1>1
<1> QED
  BY <1>2, <1>3, <1>4, <1>5, <1>6

LEMMA RoundUpFacts ==
    ASSUME NEW v \in Nat
    PROVE  \E k \in Nat : /\ RoundUp(v) = k * Block /\ RoundUp(v) \div Block = k
                          /\ v <= k * Block /\ k * Block < v + Block
<1> DEFINE k == (v + Block - 1) \div Block
<1>1. v + Block - 1 \in Nat /\ Block \in Nat /\ Block > 0
  BY DivFacts
<1>2. k \in Nat /\ k * Block <= v + Block - 1 /\ v + Block - 1 < k * Block + Block
      /\ k * Block \in Nat /\ (k * Block) \div Block = k
  BY <1>1, DivFacts
<1>3. RoundUp(v) = k * Block
  BY DEF RoundUp
<1> HIDE DEF k
<1>4. v <= k * Block /\ k * Block < v + Block
  BY <1>1, <1>2
<1> QED
  BY <1>2, <1>3, <1>4

\* The whole blocks are the first image.len \div Block ones, and the image has a content
\* for each.
LEMMA WholeFacts ==
    ASSUME ImageInv
    PROVE  /\ image.len \in Nat /\ image.len \div Block \in Nat
           /\ \A b \in Nat : WholeBlock(b) <=> b < image.len \div Block
           /\ \A b \in Nat : WholeBlock(b) <=> b * Block + Block <= image.len
           /\ \A b \in Nat : WholeBlock(b) => b \in BlocksOf(image.len)
           /\ \A b \in Nat : At(b * Block) = image.at[b]
           /\ BlocksOf(image.len) \subseteq Nat
           /\ image.len \div Block <= RoundUp(image.len) \div Block
<1> DEFINE n == image.len
           w == n \div Block
<1>1. n \in Nat
  BY ReconstructAssumption DEF ImageInv
<1>2. w \in Nat /\ w * Block <= n /\ n < w * Block + Block /\ Block \in Nat /\ Block > 0
  BY <1>1, DivFacts
<1>3. PICK k \in Nat : RoundUp(n) \div Block = k /\ n <= k * Block
  BY <1>1, RoundUpFacts
<1>4. w <= k
  <2> HIDE DEF n, w
  <2>1. w * Block <= k * Block
    <3>1. w * Block \in Nat /\ k * Block \in Nat
      BY <1>2, DivFacts
    <3> QED
      BY <1>1, <1>2, <1>3, <3>1
  <2> QED
    BY <1>2, <2>1, BlockOrder
<1>5. ASSUME NEW b \in Nat
      PROVE  /\ WholeBlock(b) <=> b < w
             /\ WholeBlock(b) <=> b * Block + Block <= n
             /\ WholeBlock(b) => b \in BlocksOf(n)
             /\ At(b * Block) = image.at[b]
  <2>1. /\ WholeBlock(b) <=> (b + 1) * Block <= n
        /\ (b + 1) * Block = b * Block + Block
        /\ b * Block \in Nat /\ (b + 1) * Block \in Nat /\ w * Block \in Nat
        /\ (w + 1) * Block = w * Block + Block
    BY <1>2, BlockOrder, DivFacts DEF WholeBlock
  <2>2. b < w => (b + 1) * Block <= w * Block
    BY <1>2, <2>1, BlockOrder
  <2>3. (b + 1) * Block < (w + 1) * Block => b + 1 < w + 1
    BY <1>2, BlockOrder
  <2>4. WholeBlock(b) <=> b < w
    <3> HIDE DEF n, w
    <3>1. b < w => (b + 1) * Block <= n
      BY <1>1, <1>2, <2>1, <2>2
    <3>2. (b + 1) * Block <= n => b < w
      BY <1>1, <1>2, <2>1, <2>3
    <3> QED
      BY <2>1, <3>1, <3>2
  <2>5. WholeBlock(b) => b \in BlocksOf(n)
    <3>1. BlocksOf(n) = 0 .. k - 1
      BY <1>3 DEF BlocksOf
    <3> HIDE DEF n, w
    <3> QED
      BY <1>2, <1>4, <2>4, <3>1
  <2>6. At(b * Block) = image.at[b]
    BY DivFacts DEF At
  <2> QED
    BY <2>1, <2>4, <2>5, <2>6
<1>6. BlocksOf(n) \subseteq Nat
  BY <1>3 DEF BlocksOf
<1> QED
  BY <1>1, <1>2, <1>3, <1>4, <1>5, <1>6

\* A set of natural numbers that is not empty has a least one.
LEMMA LeastNat ==
    ASSUME NEW T, T \subseteq Nat, T # {}
    PROVE  \E m \in T : \A n \in T : m <= n
<1>1. PICK m \in T : \A n \in T : <<n, m>> \notin OpToRel(<, Nat)
  BY WFMin, NatLessThanWellFounded, Zenon
<1>2. \A n \in T : ~(n < m)
  BY <1>1, Zenon DEF OpToRel
<1> QED
  BY <1>2

\* Where the scan of used_len stops when it begins at i: there is one such place, and a
\* unit that is not written does not change it.
StopsAt(start, e, i) ==
    /\ e \in start .. i
    /\ \A u \in e .. i - 1 : ~Written(u)
    /\ e > start => Written(e - 1)

LEMMA StopExists ==
    ASSUME NEW start \in Nat, NEW i \in Nat, start <= i
    PROVE  \E e \in Nat : StopsAt(start, e, i)
<1> DEFINE Good(e) == \A u \in e .. i - 1 : ~Written(u)
           T == {e \in start .. i : Good(e)}
<1>1. T \subseteq Nat /\ i \in T
  OBVIOUS
<1>2. PICK e \in T : \A d \in T : e <= d
  BY <1>1, LeastNat
<1>3. e > start => Written(e - 1)
  <2> SUFFICES ASSUME e > start, ~Written(e - 1) PROVE FALSE
    OBVIOUS
  <2>1. e - 1 \in start .. i
    BY <1>1, <1>2
  <2>2. ASSUME NEW u \in e - 1 .. i - 1 PROVE ~Written(u)
    <3>1. CASE u = e - 1
      BY <3>1
    <3>2. CASE u # e - 1
      <4>1. u \in e .. i - 1
        BY <1>1, <1>2, <3>2
      <4> QED
        BY <1>2, <4>1
    <3> QED
      BY <3>1, <3>2
  <2>3. e - 1 \in T
    BY <2>1, <2>2
  <2> QED
    BY <1>1, <1>2, <2>3
<1> QED
  BY <1>1, <1>2, <1>3 DEF StopsAt

LEMMA StopIsOne ==
    ASSUME NEW start \in Nat, NEW i \in Nat, NEW d, NEW e,
           StopsAt(start, d, i), StopsAt(start, e, i)
    PROVE  d = e
<1>1. \A a, b : StopsAt(start, a, i) /\ StopsAt(start, b, i) => ~(a < b)
  <2> SUFFICES ASSUME NEW a, NEW b, StopsAt(start, a, i), StopsAt(start, b, i), a < b
               PROVE  FALSE
    OBVIOUS
  <2>1. a \in Int /\ b \in Int /\ b > start /\ b - 1 \in a .. i - 1
    BY DEF StopsAt
  <2> QED
    BY <2>1 DEF StopsAt
<1>2. d \in Int /\ e \in Int
  BY DEF StopsAt
<1> QED
  BY <1>1, <1>2

\* used_len is right: behind it nothing is written.
LEMMA UsedLenFacts ==
    ASSUME NEW start \in Nat, NEW limit \in Nat, start <= limit
    PROVE  /\ UsedLen(start, limit) \in 0 .. limit - start
           /\ \A u \in start + UsedLen(start, limit) .. limit - 1 : ~Written(u)
<1> DEFINE S == start .. limit
           Body(f) == [i \in S |-> IF i > start /\ ~Written(i - 1) THEN f[i - 1] ELSE i]
           Stop(i) == CHOOSE e \in Nat : StopsAt(start, e, i)
           H == [i \in S |-> Stop(i)]
           back == CHOOSE f : f = Body(f)
<1>1. \A i \in S : Stop(i) \in Nat /\ StopsAt(start, Stop(i), i)
  <2> SUFFICES ASSUME NEW i \in S PROVE Stop(i) \in Nat /\ StopsAt(start, Stop(i), i)
    OBVIOUS
  <2>1. i \in Nat /\ start <= i
    OBVIOUS
  <2>2. \E e \in Nat : StopsAt(start, e, i)
    BY <2>1, StopExists
  <2> QED
    BY <2>2
<1>2. ASSUME NEW i \in S
      PROVE  Stop(i) = IF i > start /\ ~Written(i - 1) THEN Stop(i - 1) ELSE i
  <2>1. CASE i > start /\ ~Written(i - 1)
    <3>1. i - 1 \in S /\ i \in Nat
      BY <2>1
    <3> DEFINE e == Stop(i - 1)
    <3>2. e \in Nat /\ StopsAt(start, e, i - 1)
      BY <1>1, <3>1
    <3> HIDE DEF e
    <3>3. StopsAt(start, e, i)
      <4>1. e \in start .. i /\ (e > start => Written(e - 1))
        BY <3>1, <3>2 DEF StopsAt
      <4>2. ASSUME NEW u \in e .. i - 1 PROVE ~Written(u)
        <5>1. CASE u = i - 1
          BY <2>1, <5>1
        <5>2. CASE u # i - 1
          <6>1. u \in e .. (i - 1) - 1
            BY <3>1, <3>2, <5>2
          <6> QED
            BY <3>2, <6>1 DEF StopsAt
        <5> QED
          BY <5>1, <5>2
      <4> QED
        BY <4>1, <4>2 DEF StopsAt
    <3>4. Stop(i) = e
      <4> HIDE DEF Stop
      <4> QED
        BY <1>1, <3>1, <3>3, StopIsOne
    <3> QED
      BY <2>1, <3>4 DEF e
  <2>2. CASE ~(i > start /\ ~Written(i - 1))
    <3>1. StopsAt(start, i, i)
      BY <2>2 DEF StopsAt
    <3> HIDE DEF Stop
    <3>2. Stop(i) = i
      BY <1>1, <3>1, StopIsOne
    <3> QED
      BY <2>2, <3>2
  <2> QED
    BY <2>1, <2>2
<1> HIDE DEF Stop
<1>3. H = Body(H)
  <2>1. \A i \in S : i > start => H[i - 1] = Stop(i - 1)
    OBVIOUS
  <2> QED
    BY <1>2, <2>1
<1>4. back = Body(back)
  <2> HIDE DEF Body, H
  <2> QED
    BY <1>3
<1>5. UsedLen(start, limit) = back[limit] - start
  BY DEF UsedLen
<1> HIDE DEF back
<1>6. \A i \in S : back[i] = IF i > start /\ ~Written(i - 1) THEN back[i - 1] ELSE i
  BY <1>4
<1> DEFINE Right(i) == back[i] \in start .. i /\ \A u \in back[i] .. i - 1 : ~Written(u)
           T == {i \in S : ~Right(i)}
<1>7. T = {}
  <2> SUFFICES ASSUME T # {} PROVE FALSE
    OBVIOUS
  <2>1. T \subseteq Nat
    OBVIOUS
  <2>2. PICK i \in T : \A j \in T : i <= j
    <3> HIDE DEF T
    <3> QED
      BY <2>1, LeastNat
  <2>3. i \in S /\ i \in Nat /\ ~Right(i)
    OBVIOUS
  <2>4. CASE i > start /\ ~Written(i - 1)
    <3>1. i - 1 \in S /\ ~(i <= i - 1)
      BY <2>3, <2>4
    <3>2. Right(i - 1)
      BY <2>2, <3>1
    <3>3. back[i] = back[i - 1]
      BY <1>6, <2>3, <2>4
    <3>4. back[i] \in start .. i
      BY <2>3, <3>2, <3>3
    <3>5. ASSUME NEW u \in back[i] .. i - 1 PROVE ~Written(u)
      <4>1. CASE u = i - 1
        BY <2>4, <4>1
      <4>2. CASE u # i - 1
        <5>1. u \in back[i - 1] .. (i - 1) - 1
          BY <2>3, <3>2, <3>3, <3>4, <4>2
        <5> QED
          BY <3>2, <5>1
      <4> QED
        BY <4>1, <4>2
    <3> QED
      BY <2>3, <3>4, <3>5
  <2>5. CASE ~(i > start /\ ~Written(i - 1))
    <3>1. back[i] = i
      BY <1>6, <2>3, <2>5
    <3> QED
      BY <2>3, <3>1
  <2> QED
    BY <2>4, <2>5
<1>8. Right(limit)
  <2>1. limit \in S
    OBVIOUS
  <2> QED
    BY <1>7, <2>1
<1> QED
  BY <1>5, <1>8

\* The run found by phase 2 is one of a single content, and cannot be extended.
LEMMA RunEndFacts ==
    ASSUME ImageInv, NEW b \in Nat, WholeBlock(b)
    PROVE  /\ RunEnd(b) \in b + 1 .. image.len \div Block
           /\ \A k \in b .. RunEnd(b) - 1 : image.at[k] = image.at[b]
           /\ WholeBlock(RunEnd(b)) => image.at[RunEnd(b)] # image.at[b]
<1> DEFINE w == image.len \div Block
           T == {j \in b + 1 .. w : j = w \/ image.at[j] # image.at[b]}
           P(j) == /\ \A k \in b .. j - 1 : image.at[k] = image.at[b]
                   /\ WholeBlock(j) => image.at[j] # image.at[b]
<1>1. w \in Nat /\ b < w /\ (\A j \in Nat : WholeBlock(j) <=> j < w)
  BY WholeFacts
<1> HIDE DEF w
<1>2. T \subseteq Nat /\ w \in T
  BY <1>1
<1>3. PICK m \in T : \A j \in T : m <= j
  BY <1>2, LeastNat
<1>4. m \in b + 1 .. w /\ P(m)
  <2>1. m \in b + 1 .. w /\ m \in Nat
    BY <1>1, <1>3
  <2>2. ASSUME NEW k \in b .. m - 1 PROVE image.at[k] = image.at[b]
    <3>1. CASE k = b
      BY <3>1
    <3>2. CASE k # b
      <4>1. k \in b + 1 .. w /\ k < m
        BY <1>1, <2>1, <3>2
      <4>2. k \notin T
        BY <1>2, <1>3, <2>1, <4>1
      <4> QED
        BY <4>1, <4>2
    <3> QED
      BY <3>1, <3>2
  <2>3. WholeBlock(m) => image.at[m] # image.at[b]
    BY <1>1, <1>3, <2>1
  <2> QED
    BY <2>1, <2>2, <2>3
<1>5. RunEnd(b) = CHOOSE j \in b + 1 .. w : P(j)
  BY DEF RunEnd, w
<1>6. RunEnd(b) \in b + 1 .. w /\ P(RunEnd(b))
  <2> HIDE DEF P
  <2> QED
    BY <1>4, <1>5
<1> QED
  BY <1>6 DEF w

LEMMA InitInv == Init => ReconstructInv
<1> SUFFICES ASSUME Init PROVE ReconstructInv
  OBVIOUS
<1>1. /\ pc = "scan" /\ off = 0 /\ segs = <<>> /\ next = 0 /\ best = [start |-> 0, len |-> 0]
      /\ regions = <<>> /\ image.len \in Lengths
      /\ image.at \in [BlocksOf(image.len) -> Contents]
  BY DEF Init
<1>2. image.len \in Nat /\ image.len \div Block \in Nat
  BY <1>1, ReconstructAssumption, DivFacts
<1>3. ImageInv
  BY <1>1 DEF ImageInv
<1>4. CursorInv
  <2>1. 0 <= RoundUp(image.len)
    <3>1. PICK k \in Nat : RoundUp(image.len) = k * Block
      BY <1>2, RoundUpFacts
    <3> QED
      BY <3>1, DivFacts
  <2>2. 0 \in Nat /\ 0 = 0 * Block
    BY DivFacts
  <2>3. best \in [start : Nat, len : Nat] /\ best.start = 0 /\ best.len = 0
    BY <1>1
  <2> QED
    BY <1>1, <1>2, <2>1, <2>2, <2>3 DEF CursorInv
<1>5. SegInv
  BY <1>1 DEF SegInv, Ascend, Below
<1>6. FoundInv
  <2>1. \A b \in Nat : ~(b * Block < 0)
    BY DivFacts
  <2> QED
    BY <1>1, <2>1 DEF FoundInv
<1>7. RunInv /\ CutInv
  BY <1>1 DEF RunInv, CutInv
<1>8. RegionInv
  BY <1>1 DEF RegionInv
<1> QED
  BY <1>3, <1>4, <1>5, <1>6, <1>7, <1>8 DEF ReconstructInv

LEMMA AnchorTypes == \A a \in Anchors : a.off \in Nat /\ a.used \in Nat
<1>1. ImageSizes \cup {0} \subseteq Nat
  BY ReconstructAssumption
<1> QED
  BY <1>1 DEF Anchors

\* An anchor behind all others, and behind the images among them, joins them.
LEMMA AnchorJoins ==
    ASSUME NEW s \in Seq(Anchors), Ascend(s), NEW a \in Anchors, Below(s, a.off)
    PROVE  /\ Append(s, a) \in Seq(Anchors) /\ Ascend(Append(s, a))
           /\ \A o \in Nat : /\ a.off < o /\ (a.kind = "uimage" => a.off + a.used <= o)
                             => Below(Append(s, a), o)
<1> DEFINE t == Append(s, a)
           n == Len(s)
<1>1. /\ t \in Seq(Anchors) /\ Len(t) = n + 1 /\ n \in Nat
      /\ t[n + 1] = a /\ \A i \in DOMAIN s : t[i] = s[i]
      /\ DOMAIN t = DOMAIN s \cup {n + 1} /\ DOMAIN s = 1 .. n
      /\ \A i \in DOMAIN s : s[i] \in Anchors
  OBVIOUS
<1> HIDE DEF t, n
<1>2. ASSUME NEW i \in DOMAIN t, NEW j \in DOMAIN t, i < j
      PROVE  /\ t[i].off < t[j].off
             /\ t[i].kind = "uimage" => t[i].off + t[i].used <= t[j].off
  <2>1. i \in DOMAIN s
    BY <1>1, <1>2
  <2>2. CASE j \in DOMAIN s
    <3>1. /\ s[i].off < s[j].off
          /\ s[i].kind = "uimage" => s[i].off + s[i].used <= s[j].off
      BY <1>2, <2>1, <2>2 DEF Ascend
    <3>2. t[i] = s[i] /\ t[j] = s[j]
      BY <1>1, <2>1, <2>2
    <3> QED
      BY <3>1, <3>2
  <2>3. CASE j = n + 1
    BY <1>1, <2>1, <2>3 DEF Below
  <2> QED
    BY <1>1, <2>2, <2>3
<1>3. ASSUME NEW o \in Nat, a.off < o, a.kind = "uimage" => a.off + a.used <= o
      PROVE  Below(t, o)
  <2>1. ASSUME NEW i \in DOMAIN s
        PROVE  t[i].off < o /\ (t[i].kind = "uimage" => t[i].off + t[i].used <= o)
    <3>1. s[i].off \in Nat /\ a.off \in Nat /\ s[i].off < a.off /\ t[i] = s[i]
      BY <1>1 DEF Below, Anchors
    <3>2. s[i].used \in Nat
      BY <1>1, AnchorTypes
    <3>3. s[i].kind = "uimage" => s[i].off + s[i].used <= a.off
      BY DEF Below
    <3> QED
      BY <1>3, <3>1, <3>2, <3>3
  <2> QED
    BY <1>1, <1>3, <2>1 DEF Below
<1> QED
  BY <1>1, <1>2, <1>3 DEF Ascend, t

\* What is in a payload stays there, and only an image adds to it.
LEMMA PayloadGrows ==
    ASSUME segs \in Seq(Anchors), NEW a \in Anchors, segs' = Append(segs, a), image' = image
    PROVE  \A o : InPayload(o)' <=>
               \/ InPayload(o)
               \/ a.kind = "uimage" /\ o \in a.off .. AfterImage(a.off) - 1
<1>1. /\ DOMAIN segs' = DOMAIN segs \cup {Len(segs) + 1}
      /\ segs'[Len(segs) + 1] = a /\ \A i \in DOMAIN segs : segs'[i] = segs[i]
  OBVIOUS
<1>2. \A v : AfterImage(v)' = AfterImage(v)
  BY DEF AfterImage, At
<1> QED
  BY <1>1, <1>2 DEF InPayload

\* Where phase 1 is, and what it may find there.
LEMMA ScanFacts ==
    ASSUME ImageInv, CursorInv, pc = "scan", off + Block <= image.len
    PROVE  /\ At(off) \in Contents
           /\ \E k \in Nat : /\ off = k * Block /\ off + Block = (k + 1) * Block /\ WholeBlock(k)
                             /\ At(off) = image.at[k]
           /\ IsUImage(off) => At(off).used \in ImageSizes /\ At(off).used \in Nat \ {0}
<1>1. PICK k \in Nat : off = k * Block
  BY DEF CursorInv
<1>2. off + Block = (k + 1) * Block
  BY <1>1, BlockOrder
<1>3. WholeBlock(k) /\ At(off) = image.at[k]
  BY <1>1, WholeFacts
<1>4. At(off) \in Contents
  BY <1>3, WholeFacts DEF ImageInv
<1>5. IsUImage(off) => At(off).used \in ImageSizes /\ At(off).used \in Nat \ {0}
  BY <1>4, ReconstructAssumption
  DEF IsUImage, Contents, UImages, LuaPacks, FsBlocks, OtherBlocks
<1> QED
  BY <1>1, <1>2, <1>3, <1>4, <1>5

LEMMA UImageStep == ASSUME ReconstructInv, ScanUImage PROVE ReconstructInv'
<1> DEFINE used == At(off).used
           a == Anchor(off, "uimage", used)
<1>1. /\ pc = "scan" /\ off + Block <= image.len /\ IsUImage(off)
      /\ segs' = Append(segs, a) /\ off' = RoundUp(off + used)
      /\ UNCHANGED <<image, pc, next, best, regions>>
      /\ ImageInv /\ CursorInv /\ SegInv /\ FoundInv /\ RunInv /\ CutInv /\ RegionInv
  BY DEF ScanUImage, Scanning, AfterImage, ReconstructInv
<1>2. /\ used \in ImageSizes /\ used \in Nat \ {0} /\ off \in Nat
      /\ off + used <= image.len /\ image.len \in Nat
  BY <1>1, ScanFacts, WholeFacts DEF CursorInv, IsUImage
<1> HIDE DEF used
<1>3. PICK k \in Nat : off' = k * Block /\ off + used <= off' /\ off' < off + used + Block
  BY <1>1, <1>2, RoundUpFacts
<1>4. off' \in Nat /\ off < off'
  BY <1>2, <1>3, DivFacts
<1>5. off' <= RoundUp(image.len)
  <2>1. PICK m \in Nat : RoundUp(image.len) = m * Block /\ image.len <= m * Block
    BY <1>2, RoundUpFacts
  <2>2. k * Block < (m + 1) * Block
    <3>1. (m + 1) * Block = m * Block + Block /\ m * Block \in Nat /\ Block \in Nat
      BY BlockOrder, DivFacts
    <3> QED
      BY <1>2, <1>3, <1>4, <2>1, <3>1
  <2>3. k <= m
    BY <2>2, BlockOrder
  <2> QED
    BY <1>3, <2>1, <2>3, BlockOrder
<1>6. a \in Anchors /\ a.off = off /\ a.kind = "uimage" /\ a.used = used
  BY <1>2 DEF Anchor, Anchors, Kinds
<1> HIDE DEF a
<1>7. ImageInv' /\ CursorInv'
  BY <1>1, <1>3, <1>4, <1>5 DEF ImageInv, CursorInv
<1>8. AfterImage(off) = off' /\ (\A v : AfterImage(v)' = AfterImage(v))
  BY <1>1 DEF AfterImage, At, used
<1>9. SegInv'
  <2>1. segs \in Seq(Anchors) /\ Ascend(segs) /\ Below(segs, off)
    BY <1>1 DEF SegInv
  <2>2. segs' \in Seq(Anchors) /\ Ascend(segs') /\ Below(segs', image.len) /\ Below(segs', off')
    BY <1>1, <1>2, <1>3, <1>4, <1>6, <2>1, AnchorJoins
  <2>3. ASSUME NEW i \in DOMAIN segs', segs'[i].kind = "uimage"
        PROVE  AfterImage(segs'[i].off) \in Nat /\ AfterImage(segs'[i].off) <= off'
    <3>1. CASE i \in DOMAIN segs
      <4>1. /\ segs'[i] = segs[i] /\ AfterImage(segs[i].off) \in Nat
            /\ AfterImage(segs[i].off) <= off
        BY <1>1, <2>1, <2>3, <3>1 DEF SegInv
      <4> QED
        BY <1>2, <1>4, <4>1
    <3>2. CASE i = Len(segs) + 1
      BY <1>1, <1>4, <1>6, <1>8, <2>1, <3>2
    <3> QED
      BY <1>1, <2>1, <3>1, <3>2
  <2> QED
    BY <1>1, <1>8, <2>2, <2>3 DEF SegInv
<1>10. FoundInv'
  <2>1. segs \in Seq(Anchors)
    BY <1>1 DEF SegInv
  <2>2. ASSUME NEW b \in Nat, b * Block < off' PROVE Found(b)'
    <3>1. CASE b * Block < off
      <4>1. Found(b)
        BY <1>1, <3>1 DEF FoundInv
      <4>2. InPayload(b * Block) => InPayload(b * Block)'
        BY <1>1, <1>6, <2>1, PayloadGrows
      <4> QED
        BY <1>1, <4>1, <4>2 DEF Found, WholeBlock, IsUImage, At
    <3>2. CASE ~(b * Block < off)
      <4>1. b * Block \in off .. off' - 1
        <5>1. b * Block \in Nat
          BY DivFacts
        <5> QED
          BY <1>2, <1>4, <2>2, <3>2, <5>1
      <4>2. InPayload(b * Block)'
        BY <1>1, <1>6, <1>8, <2>1, <4>1, PayloadGrows
      <4> QED
        BY <4>2 DEF Found
    <3> QED
      BY <3>1, <3>2
  <2> QED
    BY <1>1, <2>2 DEF FoundInv
<1>11. RunInv' /\ CutInv'
  BY <1>1 DEF RunInv, CutInv
<1>12. RegionInv'
  BY <1>1, <1>6 DEF RegionInv, SegInv
<1> QED
  BY <1>7, <1>9, <1>10, <1>11, <1>12 DEF ReconstructInv

\* The cursor moves to the next block.
LEMMA CursorMoves ==
    ASSUME ImageInv, CursorInv, pc = "scan", off + Block <= image.len, off' = off + Block,
           UNCHANGED <<image, pc, next, best>>
    PROVE  CursorInv' /\ off \in Nat /\ off < off' /\ image.len \in Nat /\ off < image.len
<1>1. PICK k \in Nat : off' = (k + 1) * Block
  BY ScanFacts
<1>2. PICK m \in Nat : RoundUp(image.len) = m * Block /\ image.len <= m * Block
  BY WholeFacts, RoundUpFacts
<1>3. off \in Nat /\ Block \in Nat /\ Block > 0 /\ image.len \in Nat /\ m * Block \in Nat
  BY DivFacts, WholeFacts DEF CursorInv
<1>4. off' \in Nat /\ off' <= RoundUp(image.len) /\ off < off' /\ off < image.len
  BY <1>2, <1>3
<1>5. \E j \in Nat : off' = j * Block
  BY <1>1
<1> QED
  BY <1>3, <1>4, <1>5 DEF CursorInv

LEMMA LuaDbStep == ASSUME ReconstructInv, ScanLuaDb PROVE ReconstructInv'
<1> DEFINE a == Anchor(off, "luadb", 0)
<1>1. /\ pc = "scan" /\ off + Block <= image.len /\ IsLuaDb(off)
      /\ segs' = Append(segs, a) /\ off' = off + Block
      /\ UNCHANGED <<image, pc, next, best, regions>>
      /\ ImageInv /\ CursorInv /\ SegInv /\ FoundInv /\ RunInv /\ CutInv /\ RegionInv
  BY DEF ScanLuaDb, Scanning, ReconstructInv
<1>2. CursorInv' /\ off \in Nat /\ off < off' /\ image.len \in Nat /\ off < image.len
      /\ off' \in Nat
  BY <1>1, CursorMoves, DivFacts
<1>3. a \in Anchors /\ a.off = off /\ a.kind = "luadb"
  BY <1>2 DEF Anchor, Anchors, Kinds
<1> HIDE DEF a
<1>4. segs \in Seq(Anchors) /\ Ascend(segs) /\ Below(segs, off)
  BY <1>1 DEF SegInv
<1>5. \A v : AfterImage(v)' = AfterImage(v)
  BY <1>1 DEF AfterImage, At
<1>6. SegInv'
  <2>1. segs' \in Seq(Anchors) /\ Ascend(segs') /\ Below(segs', image.len) /\ Below(segs', off')
    BY <1>1, <1>2, <1>3, <1>4, AnchorJoins
  <2>2. ASSUME NEW i \in DOMAIN segs', segs'[i].kind = "uimage"
        PROVE  AfterImage(segs'[i].off) \in Nat /\ AfterImage(segs'[i].off) <= off'
    <3>1. i \in DOMAIN segs /\ segs'[i] = segs[i]
      BY <1>1, <1>3, <1>4, <2>2
    <3>2. AfterImage(segs[i].off) \in Nat /\ AfterImage(segs[i].off) <= off
      BY <1>1, <2>2, <3>1 DEF SegInv
    <3> QED
      BY <1>2, <3>1, <3>2
  <2> QED
    BY <1>1, <1>5, <2>1, <2>2 DEF SegInv
<1>7. FoundInv'
  <2>1. PICK k \in Nat : off = k * Block /\ off' = (k + 1) * Block
    BY <1>1, ScanFacts
  <2>2. ASSUME NEW b \in Nat, b * Block < off' PROVE Found(b)'
    <3>1. CASE b * Block < off
      <4>1. Found(b)
        BY <1>1, <3>1 DEF FoundInv
      <4>2. InPayload(b * Block) => InPayload(b * Block)'
        BY <1>1, <1>3, <1>4, PayloadGrows
      <4> QED
        BY <1>1, <4>1, <4>2 DEF Found, WholeBlock, IsUImage, At
    <3>2. CASE ~(b * Block < off)
      <4>1. b = k
        <5>1. b < k + 1 /\ ~(b < k)
          BY <2>1, <2>2, <3>2, BlockOrder
        <5> QED
          BY <5>1
      <4> QED
        BY <1>1, <2>1, <4>1 DEF Found, IsUImage, IsLuaDb, At
    <3> QED
      BY <3>1, <3>2
  <2> QED
    BY <1>1, <2>2 DEF FoundInv
<1>8. RunInv' /\ CutInv'
  BY <1>1 DEF RunInv, CutInv
<1>9. RegionInv'
  BY <1>1, <1>3 DEF RegionInv, SegInv
<1>10. ImageInv'
  BY <1>1 DEF ImageInv
<1> QED
  BY <1>2, <1>6, <1>7, <1>8, <1>9, <1>10 DEF ReconstructInv

LEMMA OtherStep == ASSUME ReconstructInv, ScanOther PROVE ReconstructInv'
<1>1. /\ pc = "scan" /\ off + Block <= image.len /\ ~IsUImage(off)
      /\ off' = off + Block
      /\ UNCHANGED <<image, pc, segs, next, best, regions>>
      /\ ImageInv /\ CursorInv /\ SegInv /\ FoundInv /\ RunInv /\ CutInv /\ RegionInv
  BY DEF ScanOther, Skipped, Scanning, ReconstructInv
<1>2. CursorInv' /\ off \in Nat /\ off < off' /\ image.len \in Nat /\ off' \in Nat
  BY <1>1, CursorMoves, DivFacts
<1>3. segs \in Seq(Anchors) /\ Ascend(segs) /\ Below(segs, off) /\ Below(segs, image.len)
  BY <1>1 DEF SegInv
<1>4. \A v : AfterImage(v)' = AfterImage(v)
  BY <1>1 DEF AfterImage, At
<1>5. \A i \in DOMAIN segs : segs[i].off \in Nat /\ segs[i].used \in Nat
  BY <1>3, AnchorTypes
<1>6. SegInv'
  <2>1. Below(segs, off')
    BY <1>2, <1>3, <1>5 DEF Below
  <2>2. ASSUME NEW i \in DOMAIN segs, segs[i].kind = "uimage"
        PROVE  AfterImage(segs[i].off) \in Nat /\ AfterImage(segs[i].off) <= off'
    BY <1>1, <1>2, <2>2 DEF SegInv
  <2> QED
    BY <1>1, <1>3, <1>4, <2>1, <2>2 DEF SegInv
<1>7. FoundInv'
  <2>1. PICK k \in Nat : off = k * Block /\ off' = (k + 1) * Block
    BY <1>1, ScanFacts
  <2>2. ASSUME NEW b \in Nat, b * Block < off' PROVE Found(b)'
    <3>1. CASE b * Block < off
      <4>1. Found(b)
        BY <1>1, <3>1 DEF FoundInv
      <4> QED
        BY <1>1, <1>4, <4>1 DEF Found, WholeBlock, IsUImage, At, InPayload
    <3>2. CASE ~(b * Block < off)
      <4>1. b = k
        <5>1. b < k + 1 /\ ~(b < k)
          BY <2>1, <2>2, <3>2, BlockOrder
        <5> QED
          BY <5>1
      <4> QED
        BY <1>1, <2>1, <4>1 DEF Found, IsUImage, At
    <3> QED
      BY <3>1, <3>2
  <2> QED
    BY <1>1, <2>2 DEF FoundInv
<1>8. RunInv' /\ CutInv' /\ RegionInv'
  BY <1>1 DEF RunInv, CutInv, RegionInv
<1>9. ImageInv'
  BY <1>1 DEF ImageInv
<1> QED
  BY <1>2, <1>6, <1>7, <1>8, <1>9 DEF ReconstructInv

\* Phase 1 ends: every image below the cursor has its anchor, and at the cursor there is a
\* filesystem block, or no whole block.
LEMMA ScanEndStep == ASSUME ReconstructInv, ScanEnd PROVE ReconstructInv'
<1>1. /\ pc = "scan" /\ (off + Block <= image.len => IsFs(off))
      /\ off' = IF off < image.len THEN off ELSE image.len
      /\ pc' = IF off < image.len THEN "runs" ELSE "assign"
      /\ next' = off' \div Block
      /\ UNCHANGED <<image, segs, best, regions>>
      /\ ImageInv /\ CursorInv /\ SegInv /\ FoundInv /\ RunInv /\ CutInv /\ RegionInv
      /\ best.len = 0 /\ best.start = 0
  BY DEF ScanEnd, ScanStops, ReconstructInv, CursorInv
<1>2. PICK k \in Nat : off = k * Block /\ off \div Block = k
  BY <1>1, DivFacts DEF CursorInv
<1>3. off \in Nat /\ image.len \in Nat /\ Block \in Nat /\ Block > 0
  BY <1>1, WholeFacts, DivFacts DEF CursorInv
<1>4. segs \in Seq(Anchors) /\ Ascend(segs) /\ Below(segs, off) /\ Below(segs, image.len)
  BY <1>1 DEF SegInv
<1>5. /\ \A v : AfterImage(v)' = AfterImage(v)
      /\ \A v : IsFs(v)' <=> IsFs(v)
      /\ \A v : InPayload(v)' <=> InPayload(v)
      /\ \A b : Found(b)' <=> Found(b)
      /\ \A b : WholeBlock(b)' <=> WholeBlock(b)
  BY <1>1 DEF AfterImage, At, IsFs, InPayload, Found, IsUImage, WholeBlock
<1>6. ImageInv'
  BY <1>1 DEF ImageInv
<1>7. SegInv'
  BY <1>1, <1>4 DEF SegInv
<1>8. CursorInv'
  <2>1. CASE off < image.len
    <3>1. off' = off /\ pc' = "runs" /\ next' = k
      BY <1>1, <1>2, <2>1
    <3>2. k <= image.len \div Block
      <4> DEFINE w == image.len \div Block
      <4>1. w \in Nat /\ image.len < w * Block + Block /\ w * Block \in Nat
        BY <1>3, DivFacts
      <4>2. (w + 1) * Block = w * Block + Block
        BY <4>1, BlockOrder
      <4> HIDE DEF w
      <4>3. k * Block < (w + 1) * Block
        BY <1>2, <1>3, <2>1, <4>1, <4>2
      <4>4. k < w + 1
        BY <4>1, <4>3, BlockOrder
      <4> QED
        BY <4>1, <4>4 DEF w
    <3> QED
      BY <1>1, <1>2, <1>3, <2>1, <3>1, <3>2 DEF CursorInv
  <2>2. CASE ~(off < image.len)
    <3>1. off' = image.len /\ pc' = "assign" /\ next' = image.len \div Block
      BY <1>1, <2>2
    <3>2. next' \in Nat
      BY <1>3, <3>1, DivFacts
    <3> QED
      BY <1>1, <1>3, <3>1, <3>2 DEF CursorInv
  <2> QED
    BY <2>1, <2>2
<1>9. FoundInv'
  <2>1. ASSUME NEW b \in Nat
        PROVE  Found(b) \/ \E c \in 0 .. b - 1 : IsFs(c * Block) /\ ~InPayload(c * Block)
    <3>1. CASE b * Block < off
      BY <1>1, <3>1 DEF FoundInv
    <3>2. CASE ~WholeBlock(b)
      BY <3>2 DEF Found
    <3>3. CASE ~(b * Block < off) /\ WholeBlock(b)
      <4>1. off + Block <= image.len
        <5>1. b * Block + Block <= image.len /\ b * Block \in Nat
          BY <1>1, <3>3, WholeFacts, DivFacts
        <5> QED
          BY <1>3, <3>3, <5>1
      <4>2. IsFs(k * Block)
        BY <1>1, <1>2, <4>1
      <4>3. CASE b = k
        BY <4>2, <4>3 DEF Found, IsUImage, IsFs
      <4>4. CASE b # k
        <5>1. k \in 0 .. b - 1
          <6>1. ~(b < k)
            BY <1>2, <3>3, BlockOrder
          <6> QED
            BY <4>4, <6>1
        <5>2. ~InPayload(k * Block)
          <6> SUFFICES ASSUME NEW i \in DOMAIN segs, segs[i].kind = "uimage",
                              off \in segs[i].off .. AfterImage(segs[i].off) - 1
                       PROVE  FALSE
            BY <1>2 DEF InPayload
          <6>1. AfterImage(segs[i].off) \in Nat /\ AfterImage(segs[i].off) <= off
            BY <1>1 DEF SegInv
          <6>2. segs[i].off \in Nat
            BY <1>4, AnchorTypes
          <6> QED
            BY <1>3, <6>1, <6>2
        <5> QED
          BY <4>2, <5>1, <5>2
      <4> QED
        BY <4>3, <4>4
    <3> QED
      BY <3>1, <3>2, <3>3
  <2> QED
    BY <1>1, <1>5, <2>1 DEF FoundInv
<1>10. RunInv'
  <2>1. ASSUME NEW q \in Runs', Seen(q)' PROVE FALSE
    <3>1. /\ q[1] \in Nat /\ q[2] \in Nat /\ q[1] <= q[2] /\ off' <= q[1] * Block
          /\ WholeBlock(q[1])
      BY <1>1, <1>5, <2>1, WholeFacts DEF Runs
    <3>2. q[1] * Block + Block <= image.len /\ q[1] * Block \in Nat
      BY <1>1, <3>1, WholeFacts, DivFacts
    <3>3. off < image.len /\ off' = off /\ next' = k /\ pc' = "runs"
      BY <1>1, <1>2, <1>3, <3>1, <3>2
    <3>4. q[1] < k /\ k * Block <= q[1] * Block
      BY <1>2, <2>1, <3>1, <3>3 DEF Seen
    <3>5. k <= q[1]
      BY <3>1, <3>4, BlockOrder
    <3> QED
      BY <3>1, <3>4, <3>5
  <2> QED
    BY <1>1, <2>1 DEF RunInv
<1>11. CutInv' /\ RegionInv'
  BY <1>1 DEF CutInv, RegionInv
<1> QED
  BY <1>6, <1>7, <1>8, <1>9, <1>10, <1>11 DEF ReconstructInv

\* A step of phase 2 leaves all but its index and the best run alone.
LEMMA PhaseTwo ==
    ASSUME ReconstructInv, UNCHANGED <<image, pc, off, segs, regions>>, pc = "runs"
    PROVE  /\ ImageInv' /\ SegInv' /\ FoundInv' /\ CutInv' /\ RegionInv'
           /\ Runs' = Runs
<1>1. /\ \A v : AfterImage(v)' = AfterImage(v)
      /\ \A v : IsFs(v)' <=> IsFs(v)
      /\ \A v : InPayload(v)' <=> InPayload(v)
      /\ \A b : Found(b)' <=> Found(b)
      /\ \A b : WholeBlock(b)' <=> WholeBlock(b)
  BY DEF AfterImage, At, IsFs, InPayload, Found, IsUImage, WholeBlock
<1>2. ImageInv' /\ SegInv' /\ FoundInv' /\ CutInv' /\ RegionInv'
  BY <1>1 DEF ReconstructInv, ImageInv, SegInv, FoundInv, CutInv, RegionInv
<1>3. Runs' = Runs
  BY <1>1 DEF Runs
<1> QED
  BY <1>2, <1>3

\* What a run is made of.
LEMMA RunFacts ==
    ASSUME ImageInv, NEW q \in Runs
    PROVE  /\ q[1] \in Nat /\ q[2] \in Nat /\ q[1] <= q[2] /\ off <= q[1] * Block
           /\ \A b \in q[1] .. q[2] : /\ WholeBlock(b) /\ image.at[b].tag = "fs"
                                      /\ image.at[b] = image.at[q[1]]
<1>1. /\ q[1] \in Nat /\ q[2] \in Nat /\ q[1] <= q[2] /\ off <= q[1] * Block
      /\ \A b \in q[1] .. q[2] : /\ WholeBlock(b) /\ IsFs(b * Block)
                                 /\ image.at[b] = image.at[q[1]]
  BY WholeFacts DEF Runs
<1>2. \A b \in q[1] .. q[2] : b \in Nat
  BY <1>1
<1> QED
  BY <1>1, <1>2, WholeFacts DEF IsFs

LEMMA NoGenerationStep == ASSUME ReconstructInv, NoGeneration PROVE ReconstructInv'
<1>1. /\ pc = "runs" /\ WholeBlock(next) /\ image.at[next].tag # "fs" /\ next' = next + 1
      /\ UNCHANGED <<image, pc, off, segs, best, regions>>
      /\ ImageInv /\ CursorInv /\ RunInv
  BY DEF NoGeneration, ReconstructInv
<1>2. next \in Nat /\ next < image.len \div Block /\ image.len \div Block \in Nat
      /\ best.start \in Nat /\ best.len \in Nat
  BY <1>1, WholeFacts DEF CursorInv
<1>3. CursorInv'
  <2>1. \E k \in Nat : off = k * Block /\ k <= next + 1
    BY <1>1, <1>2 DEF CursorInv
  <2> QED
    BY <1>1, <1>2, <2>1 DEF CursorInv
<1>4. RunInv'
  <2>1. ASSUME NEW q \in Runs, q[1] < next + 1
        PROVE  q[1] < next /\ q[2] < next + 1
    <3>1. /\ q[1] \in Nat /\ q[2] \in Nat /\ q[1] <= q[2]
          /\ \A b \in q[1] .. q[2] : image.at[b].tag = "fs"
      BY <1>1, RunFacts
    <3>2. q[1] # next /\ q[1] < next
      BY <1>1, <1>2, <2>1, <3>1
    <3>3. q[2] < next
      BY <1>1, <3>2 DEF RunInv, Seen
    <3> QED
      BY <1>2, <3>1, <3>2, <3>3
  <2>2. Runs' = Runs /\ Best' = Best
    BY <1>1, PhaseTwo DEF Best
  <2>3. best.len > 0 => Best \in Runs /\ best.start + best.len <= next + 1
    BY <1>1, <1>2 DEF RunInv
  <2> QED
    BY <1>1, <2>1, <2>2, <2>3 DEF RunInv, Seen
<1> QED
  BY <1>1, <1>3, <1>4, PhaseTwo DEF ReconstructInv

LEMMA NextRunStep == ASSUME ReconstructInv, NextRun PROVE ReconstructInv'
<1> DEFINE j == RunEnd(next)
           w == image.len \div Block
<1>1. /\ pc = "runs" /\ WholeBlock(next) /\ image.at[next].tag = "fs" /\ next' = j
      /\ best' = IF j - next > best.len THEN [start |-> next, len |-> j - next] ELSE best
      /\ UNCHANGED <<image, pc, off, segs, regions>>
      /\ ImageInv /\ CursorInv /\ RunInv
  BY DEF NextRun, Longer, ReconstructInv
<1>2. /\ next \in Nat /\ next < w /\ w \in Nat /\ best \in [start : Nat, len : Nat]
      /\ \A b \in Nat : WholeBlock(b) <=> b < w
  BY <1>1, WholeFacts DEF CursorInv
<1>3. /\ j \in next + 1 .. w
      /\ \A k \in next .. j - 1 : image.at[k] = image.at[next]
      /\ WholeBlock(j) => image.at[j] # image.at[next]
  BY <1>1, <1>2, RunEndFacts
<1> HIDE DEF j, w
<1>4. j \in Nat /\ next < j /\ j <= w /\ j - next \in Nat /\ j - next > 0
      /\ best.start \in Nat /\ best.len \in Nat
  BY <1>2, <1>3
<1>5. CursorInv'
  <2>1. \E k \in Nat : off = k * Block /\ k <= j
    BY <1>1, <1>2, <1>4 DEF CursorInv
  <2>2. best' \in [start : Nat, len : Nat]
    BY <1>1, <1>2, <1>4
  <2>3. next' <= image'.len \div Block /\ next' \in Nat
    BY <1>1, <1>4 DEF w
  <2> QED
    BY <1>1, <2>1, <2>2, <2>3 DEF CursorInv
<1>6. <<next, j - 1>> \in Runs
  <2>1. next \in BlocksOf(image.len) /\ j - 1 \in BlocksOf(image.len)
    <3>1. j - 1 \in Nat /\ j - 1 < w
      BY <1>2, <1>4
    <3> QED
      BY <1>1, <1>2, <3>1, WholeFacts
  <2>2. off <= next * Block
    BY <1>1, <1>2, BlockOrder DEF CursorInv
  <2>3. ASSUME NEW b \in next .. j - 1
        PROVE  WholeBlock(b) /\ IsFs(b * Block) /\ image.at[b] = image.at[next]
    <3>1. b \in Nat /\ b < w
      BY <1>2, <1>4
    <3> QED
      BY <1>1, <1>2, <1>3, <3>1, WholeFacts DEF IsFs
  <2>4. next <= j - 1
    BY <1>2, <1>4
  <2> QED
    BY <2>1, <2>2, <2>3, <2>4 DEF Runs
<1>7. ASSUME NEW q \in Runs, q[1] < j
      PROVE  /\ q[1] \in Nat /\ q[2] \in Nat /\ q[1] <= q[2] /\ q[2] < j
             /\ q[1] < next => /\ q[2] - q[1] + 1 <= best.len
                               /\ q[2] - q[1] + 1 = best.len => best.start <= q[1]
  <2>1. /\ q[1] \in Nat /\ q[2] \in Nat /\ q[1] <= q[2]
        /\ \A b \in q[1] .. q[2] : WholeBlock(b) /\ image.at[b] = image.at[q[1]]
    BY <1>1, RunFacts
  <2>2. CASE q[1] < next
    <3>1. /\ q[2] < next /\ q[2] - q[1] + 1 <= best.len
          /\ q[2] - q[1] + 1 = best.len => best.start <= q[1]
      BY <1>1, <2>2 DEF RunInv, Seen
    <3> QED
      BY <1>2, <1>4, <2>1, <3>1
  <2>3. CASE ~(q[1] < next)
    <3>1. q[1] \in next .. j - 1
      BY <1>2, <1>4, <1>7, <2>1, <2>3
    <3>2. ASSUME j <= q[2] PROVE FALSE
      <4>1. j \in q[1] .. q[2]
        BY <1>4, <1>7, <2>1, <3>2
      <4>2. WholeBlock(j) /\ image.at[j] = image.at[q[1]]
        BY <2>1, <4>1
      <4> QED
        BY <1>3, <3>1, <4>2
    <3> QED
      BY <1>4, <2>1, <2>3, <3>2
  <2> QED
    BY <2>2, <2>3
<1>8. Runs' = Runs
  BY <1>1, PhaseTwo
<1>9. RunInv'
  <2>1. CASE j - next > best.len
    <3>1. best'.start = next /\ best'.len = j - next
      BY <1>1, <2>1
    <3>2. Best' = <<next, j - 1>>
      <4>1. next + (j - next) - 1 = j - 1
        BY <1>2, <1>4
      <4> QED
        BY <3>1, <4>1 DEF Best
    <3>3. next + (j - next) <= j
      BY <1>2, <1>4
    <3>4. ASSUME NEW q \in Runs, q[1] < j
          PROVE  /\ q[2] < j /\ q[2] - q[1] + 1 <= j - next
                 /\ q[2] - q[1] + 1 = j - next => next <= q[1]
      <4>1. CASE q[1] < next
        BY <1>2, <1>4, <1>7, <2>1, <3>4, <4>1
      <4>2. CASE ~(q[1] < next)
        BY <1>2, <1>4, <1>7, <3>4, <4>2
      <4> QED
        BY <4>1, <4>2
    <3> QED
      BY <1>1, <1>6, <1>8, <3>1, <3>2, <3>3, <3>4 DEF RunInv, Seen
  <2>2. CASE ~(j - next > best.len)
    <3>1. best' = best /\ Best' = Best
      BY <1>1, <2>2 DEF Best
    <3>2. Best \in Runs /\ best.start + best.len <= j /\ best.start < next
      <4>1. best.len > 0
        BY <1>2, <1>4, <2>2
      <4>2. Best \in Runs /\ best.start + best.len <= next
        BY <1>1, <4>1 DEF RunInv
      <4> QED
        BY <1>2, <1>4, <4>1, <4>2
    <3>3. ASSUME NEW q \in Runs, q[1] < j
          PROVE  /\ q[2] < j /\ q[2] - q[1] + 1 <= best.len
                 /\ q[2] - q[1] + 1 = best.len => best.start <= q[1]
      <4>1. CASE q[1] < next
        BY <1>7, <3>3, <4>1
      <4>2. CASE ~(q[1] < next)
        BY <1>2, <1>4, <1>7, <2>2, <3>2, <3>3, <4>2
      <4> QED
        BY <4>1, <4>2
    <3> QED
      BY <1>1, <1>8, <3>1, <3>2, <3>3 DEF RunInv, Seen
  <2> QED
    BY <2>1, <2>2
<1> QED
  BY <1>1, <1>5, <1>9, PhaseTwo DEF ReconstructInv

\* One filesystem region joins a list.
LEMMA FsJoins ==
    ASSUME NEW s \in Seq(Anchors), Ascend(s), NEW o \in Nat, Below(s, o)
    PROVE  LET t == s \o <<Anchor(o, "filesystem", 0)>> IN
           /\ t \in Seq(Anchors) /\ Ascend(t) /\ \A p \in Nat : o < p => Below(t, p)
           /\ Len(t) = Len(s) + 1 /\ t[Len(s) + 1].off = o
           /\ t[Len(s) + 1].kind = "filesystem"
           /\ \A i \in DOMAIN s : i \in DOMAIN t /\ t[i] = s[i]
<1> DEFINE a == Anchor(o, "filesystem", 0)
<1>1. a \in Anchors /\ a.off = o /\ a.kind = "filesystem"
  BY DEF Anchor, Anchors, Kinds
<1> HIDE DEF a
<1>2. s \o <<a>> = Append(s, a)
  BY <1>1, AppendIsConcat
<1>3. /\ Append(s, a) \in Seq(Anchors) /\ Ascend(Append(s, a))
      /\ \A p \in Nat : o < p => Below(Append(s, a), p)
  BY <1>1, AnchorJoins
<1>4. /\ Len(Append(s, a)) = Len(s) + 1 /\ Append(s, a)[Len(s) + 1] = a
      /\ \A i \in DOMAIN s : i \in DOMAIN Append(s, a) /\ Append(s, a)[i] = s[i]
  OBVIOUS
<1>5. /\ s \o <<a>> \in Seq(Anchors) /\ Ascend(s \o <<a>>)
      /\ \A p \in Nat : o < p => Below(s \o <<a>>, p)
      /\ Len(s \o <<a>>) = Len(s) + 1 /\ (s \o <<a>>)[Len(s) + 1].off = o
      /\ (s \o <<a>>)[Len(s) + 1].kind = "filesystem"
      /\ \A i \in DOMAIN s : i \in DOMAIN (s \o <<a>>) /\ (s \o <<a>>)[i] = s[i]
  BY <1>1, <1>2, <1>3, <1>4
<1> QED
  BY <1>5 DEF a

LEMMA AnchorLists ==
    ASSUME NEW r \in Seq(Anchors), NEW s \in Seq(Anchors), NEW t \in Seq(Anchors)
    PROVE  r \o (s \o t) = (r \o s) \o t
<1> DEFINE l == r \o (s \o t)
           m == (r \o s) \o t
<1>1. s \o t \in Seq(Anchors) /\ r \o s \in Seq(Anchors)
  OBVIOUS
<1>2. l \in Seq(Anchors) /\ m \in Seq(Anchors)
  BY <1>1
<1>3. Len(l) = Len(r) + (Len(s) + Len(t)) /\ Len(m) = (Len(r) + Len(s)) + Len(t)
  BY <1>1
<1>4. \A i \in 1 .. Len(l) : l[i] = m[i]
  BY <1>1, <1>2, <1>3
<1>5. Len(l) = Len(m)
  BY <1>3
<1> HIDE DEF l, m
<1>6. l = m
  BY <1>2, <1>4, <1>5, SeqEqual, Zenon
<1> QED
  BY <1>6 DEF l, m

\* The back half joins the anchors of the front: the staging region, if there is one, the
\* best run, and what is above it, if there is anything.
LEMMA CutFacts ==
    ASSUME ReconstructInv, Cut
    PROVE  /\ segs' \in Seq(Anchors) /\ Ascend(segs') /\ Below(segs', image.len)
           /\ \A i \in DOMAIN segs : i \in DOMAIN segs' /\ segs'[i] = segs[i]
           /\ \A i \in DOMAIN segs' \ DOMAIN segs : segs'[i].kind = "filesystem"
           /\ best.len > 0 => \E i \in DOMAIN segs' :
                 /\ segs'[i].off = FsStart
                 /\ (IF i < Len(segs') THEN segs'[i + 1].off ELSE image.len) = FsEnd
<1>1. /\ pc = "runs" /\ segs' = segs \o BackHalf /\ ImageInv /\ CursorInv /\ RunInv
      /\ segs \in Seq(Anchors) /\ Ascend(segs) /\ Below(segs, off)
      /\ off \in Nat /\ off < image.len /\ image.len \in Nat
      /\ best.start \in Nat /\ best.len \in Nat
  BY WholeFacts DEF Cut, ReconstructInv, SegInv, CursorInv
<1>2. CASE best.len = 0
  <2>1. segs' = segs \o <<Anchor(off, "filesystem", 0)>>
    BY <1>1, <1>2 DEF BackHalf
  <2>2. /\ segs' \in Seq(Anchors) /\ Ascend(segs') /\ Below(segs', image.len)
        /\ Len(segs') = Len(segs) + 1 /\ segs'[Len(segs) + 1].kind = "filesystem"
        /\ \A i \in DOMAIN segs : i \in DOMAIN segs' /\ segs'[i] = segs[i]
    BY <1>1, <2>1, FsJoins
  <2>3. \A i \in DOMAIN segs' \ DOMAIN segs : i = Len(segs) + 1
    BY <1>1, <2>2
  <2> QED
    BY <1>2, <2>2, <2>3
<1>3. CASE best.len # 0
  <2> DEFINE t == segs \o Staging
             u == t \o <<Anchor(FsStart, "filesystem", 0)>>
             v == u \o Top
  <2>1. Best \in Runs
    BY <1>1, <1>3 DEF RunInv
  <2>2. /\ FsStart \in Nat /\ FsEnd \in Nat /\ off <= FsStart /\ FsStart < FsEnd
        /\ FsEnd <= image.len
    <3> DEFINE last == best.start + best.len - 1
    <3>1. last \in Nat /\ best.start <= last /\ last + 1 = best.start + best.len
      BY <1>1, <1>3
    <3>2. off <= best.start * Block /\ WholeBlock(last)
      BY <1>1, <2>1, <3>1, RunFacts DEF Best
    <3> HIDE DEF last
    <3>3. last * Block + Block <= image.len /\ (last + 1) * Block = last * Block + Block
      BY <1>1, <3>1, <3>2, WholeFacts, BlockOrder
    <3>4. /\ best.start * Block \in Nat /\ best.len * Block \in Nat
          /\ (best.start + best.len) * Block = best.start * Block + best.len * Block
          /\ (last + 1) * Block = (best.start + best.len) * Block
      BY <1>1, <3>1, BlockOrder, DivFacts
    <3>5. best.start * Block < (best.start + best.len) * Block
      <4>1. best.start + best.len \in Nat /\ best.start < best.start + best.len
        BY <1>1, <1>3
      <4> QED
        BY <1>1, <4>1, BlockOrder
    <3> QED
      BY <3>2, <3>3, <3>4, <3>5 DEF FsStart, FsEnd
  <2>3. segs' = v
    <3> DEFINE a == <<Anchor(FsStart, "filesystem", 0)>>
    <3>1. segs' = segs \o ((Staging \o a) \o Top)
      BY <1>1, <1>3 DEF BackHalf
    <3>2. \A o \in Nat : <<Anchor(o, "filesystem", 0)>> \in Seq(Anchors)
      BY DEF Anchor, Anchors, Kinds
    <3>3. Staging \in Seq(Anchors) /\ Top \in Seq(Anchors) /\ a \in Seq(Anchors)
      BY <1>1, <2>2, <3>2 DEF Staging, Top
    <3>4. v = ((segs \o Staging) \o a) \o Top
      OBVIOUS
    <3> HIDE DEF a, v, t, u
    <3>5. Staging \o a \in Seq(Anchors)
      BY <3>3
    <3>6. segs \o ((Staging \o a) \o Top) = (segs \o (Staging \o a)) \o Top
      BY <1>1, <3>3, <3>5, AnchorLists
    <3>7. segs \o (Staging \o a) = (segs \o Staging) \o a
      BY <1>1, <3>3, AnchorLists
    <3> QED
      BY <3>1, <3>4, <3>6, <3>7
  <2>4. /\ t \in Seq(Anchors) /\ Ascend(t) /\ Below(t, FsStart)
        /\ \A i \in DOMAIN segs : i \in DOMAIN t /\ t[i] = segs[i]
        /\ \A i \in DOMAIN t \ DOMAIN segs : t[i].kind = "filesystem"
    <3>1. CASE off < FsStart
      <4>1. t = segs \o <<Anchor(off, "filesystem", 0)>>
        BY <3>1 DEF Staging
      <4> HIDE DEF t
      <4>2. /\ t \in Seq(Anchors) /\ Ascend(t) /\ Below(t, FsStart)
            /\ Len(t) = Len(segs) + 1 /\ t[Len(segs) + 1].kind = "filesystem"
            /\ \A i \in DOMAIN segs : i \in DOMAIN t /\ t[i] = segs[i]
        BY <1>1, <2>2, <3>1, <4>1, FsJoins
      <4>3. \A i \in DOMAIN t \ DOMAIN segs : i = Len(segs) + 1
        BY <1>1, <4>2
      <4> QED
        BY <4>2, <4>3
    <3>2. CASE ~(off < FsStart)
      <4>1. t = segs /\ off = FsStart
        BY <1>1, <2>2, <3>2, ConcatEmptySeq DEF Staging
      <4> HIDE DEF t
      <4> QED
        BY <1>1, <4>1
    <3> QED
      BY <3>1, <3>2
  <2> HIDE DEF t
  <2>5. /\ u \in Seq(Anchors) /\ Ascend(u) /\ Below(u, FsEnd) /\ Below(u, image.len)
        /\ Len(u) = Len(t) + 1 /\ u[Len(t) + 1].off = FsStart
        /\ u[Len(t) + 1].kind = "filesystem"
        /\ \A i \in DOMAIN t : i \in DOMAIN u /\ u[i] = t[i]
    <3>1. FsStart < image.len
      BY <1>1, <2>2
    <3> QED
      BY <1>1, <2>2, <2>4, <3>1, FsJoins
  <2> HIDE DEF u
  <2>6. CASE FsEnd < image.len
    <3>1. v = u \o <<Anchor(FsEnd, "filesystem", 0)>>
      BY <2>6 DEF Top
    <3> HIDE DEF v
    <3>2. /\ v \in Seq(Anchors) /\ Ascend(v) /\ Below(v, image.len)
          /\ Len(v) = Len(u) + 1 /\ v[Len(u) + 1].off = FsEnd
          /\ v[Len(u) + 1].kind = "filesystem"
          /\ \A i \in DOMAIN u : i \in DOMAIN v /\ v[i] = u[i]
      BY <1>1, <2>2, <2>5, <2>6, <3>1, FsJoins
    <3>3. \A i \in DOMAIN segs : i \in DOMAIN v /\ v[i] = segs[i]
      BY <2>4, <2>5, <3>2
    <3>4. \A i \in DOMAIN v : i \in DOMAIN t \/ i = Len(t) + 1 \/ i = Len(u) + 1
      BY <2>4, <2>5, <3>2
    <3>5. Len(t) + 1 \in DOMAIN u
      BY <2>4, <2>5
    <3>6. \A i \in DOMAIN v \ DOMAIN segs : v[i].kind = "filesystem"
      BY <2>4, <2>5, <3>2, <3>4, <3>5
    <3>7. /\ Len(t) + 1 \in DOMAIN v /\ v[Len(t) + 1].off = FsStart
          /\ Len(t) + 1 < Len(v) /\ v[Len(t) + 1 + 1].off = FsEnd
      BY <2>4, <2>5, <3>2, <3>5
    <3> QED
      BY <2>3, <3>2, <3>3, <3>6, <3>7
  <2>7. CASE ~(FsEnd < image.len)
    <3>1. v = u /\ FsEnd = image.len
      BY <1>1, <2>2, <2>5, <2>7, ConcatEmptySeq DEF Top
    <3> HIDE DEF v
    <3>3. \A i \in DOMAIN segs : i \in DOMAIN u /\ u[i] = segs[i]
      BY <2>4, <2>5
    <3>4. \A i \in DOMAIN u : i \in DOMAIN t \/ i = Len(t) + 1
      BY <2>4, <2>5
    <3>5. Len(t) + 1 \in DOMAIN u /\ ~(Len(t) + 1 < Len(u))
      BY <2>4, <2>5
    <3>6. \A i \in DOMAIN u \ DOMAIN segs : u[i].kind = "filesystem"
      BY <2>4, <2>5, <3>4
    <3> QED
      BY <2>3, <2>5, <3>1, <3>3, <3>5, <3>6
  <2> QED
    BY <2>6, <2>7
<1> QED
  BY <1>2, <1>3

LEMMA CutStep == ASSUME ReconstructInv, Cut PROVE ReconstructInv'
<1>1. /\ pc = "runs" /\ ~WholeBlock(next) /\ pc' = "assign"
      /\ UNCHANGED <<image, off, next, best, regions>>
      /\ ImageInv /\ CursorInv /\ SegInv /\ FoundInv /\ RunInv /\ regions = <<>>
      /\ segs \in Seq(Anchors)
  BY DEF Cut, ReconstructInv, SegInv, RegionInv
<1>2. /\ segs' \in Seq(Anchors) /\ Ascend(segs') /\ Below(segs', image.len)
      /\ \A i \in DOMAIN segs : i \in DOMAIN segs' /\ segs'[i] = segs[i]
      /\ \A i \in DOMAIN segs' \ DOMAIN segs : segs'[i].kind = "filesystem"
      /\ best.len > 0 => \E i \in DOMAIN segs' :
            /\ segs'[i].off = FsStart
            /\ (IF i < Len(segs') THEN segs'[i + 1].off ELSE image.len) = FsEnd
  BY CutFacts
<1>3. /\ \A v : AfterImage(v)' = AfterImage(v)
      /\ \A v : IsFs(v)' <=> IsFs(v)
      /\ \A v : IsUImage(v)' <=> IsUImage(v)
      /\ \A v : WholeBlock(v)' <=> WholeBlock(v)
      /\ FsStart' = FsStart /\ FsEnd' = FsEnd
  BY <1>1 DEF AfterImage, At, IsFs, IsUImage, WholeBlock, FsStart, FsEnd
<1>4. Runs' = Runs
  BY <1>1, <1>3 DEF Runs
<1>5. \A v : InPayload(v)' <=> InPayload(v)
  BY <1>2, <1>3 DEF InPayload
<1>6. ImageInv' /\ CursorInv'
  BY <1>1 DEF ImageInv, CursorInv
<1>7. SegInv'
  BY <1>1, <1>2 DEF SegInv
<1>8. FoundInv'
  BY <1>1, <1>3, <1>5 DEF FoundInv, Found
<1>9. RunInv'
  <2>1. ASSUME NEW q \in Runs PROVE q[1] < next
    <3>1. q[1] \in Nat /\ WholeBlock(q[1])
      BY <1>1, RunFacts
    <3>2. q[1] < image.len \div Block /\ ~(next < image.len \div Block)
      BY <1>1, <3>1, WholeFacts DEF CursorInv
    <3>3. next \in Nat /\ image.len \div Block \in Nat
      BY <1>1, WholeFacts DEF CursorInv
    <3> QED
      BY <3>1, <3>2, <3>3
  <2>2. \A q \in Runs : /\ q[2] - q[1] + 1 <= best.len
                        /\ q[2] - q[1] + 1 = best.len => best.start <= q[1]
    BY <1>1, <2>1 DEF RunInv, Seen
  <2>3. best.len > 0 => Best \in Runs
    BY <1>1 DEF RunInv
  <2>4. best' = best /\ Best' = Best /\ pc' = "assign"
    BY <1>1 DEF Best
  <2> QED
    BY <1>4, <2>2, <2>3, <2>4 DEF RunInv
<1>10. CutInv'
  BY <1>1, <1>2, <1>3 DEF CutInv, NextBase
<1>11. RegionInv'
  BY <1>1, <1>2 DEF RegionInv
<1> QED
  BY <1>6, <1>7, <1>8, <1>9, <1>10, <1>11 DEF ReconstructInv

\* The window of an anchor, and what is used of it.
LEMMA Windows ==
    ASSUME ImageInv, SegInv, NEW i \in DOMAIN segs
    PROVE  /\ segs[i].off \in Nat /\ NextBase(i) \in Nat
           /\ segs[i].off < NextBase(i) /\ NextBase(i) <= image.len
           /\ UsedSize(i) \in 0 .. NextBase(i) - segs[i].off
           /\ segs[i].kind # "uimage" =>
                 \A u \in segs[i].off + UsedSize(i) .. NextBase(i) - 1 : ~Written(u)
<1>1. /\ segs \in Seq(Anchors) /\ Ascend(segs) /\ Below(segs, image.len) /\ image.len \in Nat
      /\ \A j \in DOMAIN segs : segs[j].off \in Nat /\ segs[j].used \in Nat
  BY WholeFacts, AnchorTypes DEF SegInv
<1> DEFINE o == segs[i].off
           n == NextBase(i)
<1>2. /\ o \in Nat /\ n \in Nat /\ o < n /\ n <= image.len
      /\ segs[i].kind = "uimage" => o + segs[i].used <= n
  <2>1. CASE i < Len(segs)
    <3>1. i + 1 \in DOMAIN segs /\ i < i + 1 /\ n = segs[i + 1].off
      BY <1>1, <2>1 DEF NextBase
    <3>2. /\ o < segs[i + 1].off
          /\ segs[i].kind = "uimage" => o + segs[i].used <= segs[i + 1].off
      BY <1>1, <3>1 DEF Ascend
    <3>3. segs[i + 1].off < image.len
      BY <1>1, <3>1 DEF Below
    <3> QED
      BY <1>1, <3>1, <3>2, <3>3
  <2>2. CASE ~(i < Len(segs))
    <3>1. n = image.len
      BY <2>2 DEF NextBase
    <3> QED
      BY <1>1, <3>1 DEF Below
  <2> QED
    BY <2>1, <2>2
<1>3. CASE segs[i].kind = "uimage"
  <2>1. UsedSize(i) = segs[i].used
    BY <1>3 DEF UsedSize
  <2> HIDE DEF n, o
  <2>2. UsedSize(i) \in 0 .. n - o
    BY <1>1, <1>2, <1>3, <2>1
  <2> QED
    BY <1>2, <1>3, <2>2 DEF n, o
<1>4. CASE segs[i].kind # "uimage"
  <2>1. UsedSize(i) = UsedLen(o, n)
    BY <1>4 DEF UsedSize
  <2> HIDE DEF n, o
  <2>2. UsedLen(o, n) \in 0 .. n - o /\ \A u \in o + UsedLen(o, n) .. n - 1 : ~Written(u)
    BY <1>2, UsedLenFacts
  <2> QED
    BY <1>2, <2>1, <2>2 DEF n, o
<1> QED
  BY <1>3, <1>4

LEMMA AssignStep == ASSUME ReconstructInv, Assign PROVE ReconstructInv'
<1> DEFINE i == Len(regions) + 1
           r == [kind |-> RegionKind(i), index |-> Index(RegionKind(i)),
                 base |-> segs[i].off, reserved |-> NextBase(i) - segs[i].off,
                 used |-> UsedSize(i)]
<1>1. /\ pc = "assign" /\ Len(regions) < Len(segs) /\ regions' = Append(regions, r)
      /\ UNCHANGED <<image, pc, off, segs, next, best>>
      /\ ImageInv /\ CursorInv /\ SegInv /\ FoundInv /\ RunInv /\ CutInv /\ RegionInv
      /\ segs \in Seq(Anchors) /\ regions \in Seq(Regions)
  BY DEF Assign, ReconstructInv, SegInv, RegionInv
<1>2. i \in DOMAIN segs /\ i \in Nat /\ Len(regions) \in Nat
  BY <1>1
<1>3. RegionKind(i) \in Kinds
  <2>1. segs[i] \in Anchors
    <3> HIDE DEF i, r
    <3> QED
      BY <1>1, <1>2
  <2>2. segs[i].kind \in Kinds /\ "nv" \in Kinds
    <3> HIDE DEF i
    <3> QED
      BY <2>1 DEF Anchors, Kinds
  <2> QED
    BY <2>2 DEF RegionKind
<1>4. Index(RegionKind(i)) \in 0 .. i - 1
  <2> DEFINE T == {j \in DOMAIN regions : regions[j].kind = RegionKind(i)}
  <2>1. T \subseteq 1 .. Len(regions)
    BY <1>1
  <2>2. IsFiniteSet(1 .. Len(regions)) /\ Cardinality(1 .. Len(regions)) = Len(regions)
    <3> DEFINE n == Len(regions)
    <3>1. n \in Nat
      BY <1>2
    <3> HIDE DEF n
    <3>2. IsFiniteSet(1 .. n) /\ Cardinality(1 .. n) = n
      BY <3>1, FS_Interval
    <3> QED
      BY <3>2 DEF n
  <2> HIDE DEF T
  <2>3. Cardinality(T) \in Nat /\ Cardinality(T) <= Len(regions)
    BY <2>1, <2>2, FS_Subset, FS_CardinalityType
  <2> QED
    BY <1>2, <2>3 DEF Index, T
<1>5. /\ segs[i].off \in Nat /\ NextBase(i) \in Nat /\ segs[i].off < NextBase(i)
      /\ UsedSize(i) \in 0 .. NextBase(i) - segs[i].off
  BY <1>1, <1>2, Windows
<1>6. /\ NextBase(i) - segs[i].off \in Nat /\ UsedSize(i) \in Nat
      /\ Index(RegionKind(i)) \in Nat
  <2> HIDE DEF i
  <2> QED
    BY <1>2, <1>4, <1>5
<1>7. r \in Regions
  BY <1>3, <1>5, <1>6 DEF Regions
<1>8. /\ \A j : RegionKind(j)' = RegionKind(j) /\ NextBase(j)' = NextBase(j)
      /\ \A j : UsedSize(j)' = UsedSize(j)
      /\ \A v : InPayload(v)' <=> InPayload(v)
      /\ \A b : Found(b)' <=> Found(b)
      /\ FsStart' = FsStart /\ FsEnd' = FsEnd /\ Runs' = Runs
      /\ \A v : IsFs(v)' <=> IsFs(v)
  <2>1. image' = image /\ segs' = segs /\ off' = off /\ best' = best
    BY <1>1
  <2> HIDE DEF i, r
  <2>2. \A j : RegionKind(j)' = RegionKind(j) /\ NextBase(j)' = NextBase(j)
    BY <2>1 DEF RegionKind, NextBase
  <2>3. \A j : UsedSize(j)' = UsedSize(j)
    <3>1. \A a, b : UsedLen(a, b)' = UsedLen(a, b)
      BY <2>1 DEF UsedLen, Written, At
    <3> QED
      BY <2>1, <2>2, <3>1 DEF UsedSize
  <2>4. \A v : InPayload(v)' <=> InPayload(v)
    BY <2>1 DEF InPayload, AfterImage, At
  <2>5. \A b : Found(b)' <=> Found(b)
    BY <2>1, <2>4 DEF Found, WholeBlock, IsUImage, At
  <2>6. FsStart' = FsStart /\ FsEnd' = FsEnd
    BY <2>1 DEF FsStart, FsEnd
  <2>7. \A v : IsFs(v)' <=> IsFs(v)
    BY <2>1 DEF IsFs, At
  <2>8. Runs' = Runs
    BY <2>1 DEF Runs, WholeBlock, IsFs, At
  <2> QED
    BY <2>2, <2>3, <2>4, <2>5, <2>6, <2>7, <2>8
<1>9. RegionInv'
  <2>1. /\ regions' \in Seq(Regions) /\ Len(regions') = i /\ i <= Len(segs)
        /\ regions'[i] = r /\ DOMAIN regions' = DOMAIN regions \cup {i}
        /\ \A j \in DOMAIN regions : regions'[j] = regions[j]
    <3> HIDE DEF r
    <3> QED
      BY <1>1, <1>2, <1>7
  <2>2. ASSUME NEW j \in DOMAIN regions'
        PROVE  /\ regions'[j].kind = RegionKind(j) /\ regions'[j].index \in 0 .. j - 1
               /\ regions'[j].base = segs[j].off
               /\ regions'[j].reserved = NextBase(j) - segs[j].off
               /\ regions'[j].used = UsedSize(j)
    <3>1. CASE j \in DOMAIN regions
      BY <1>1, <2>1, <3>1 DEF RegionInv
    <3>2. CASE j = i
      BY <1>4, <2>1, <3>2
    <3> QED
      BY <2>1, <3>1, <3>2
  <2>3. pc' = "assign" /\ segs' = segs
    BY <1>1
  <2> HIDE DEF i, r
  <2> QED
    BY <1>8, <2>1, <2>2, <2>3 DEF RegionInv
<1>10. ImageInv' /\ CursorInv' /\ SegInv'
  BY <1>1 DEF ImageInv, CursorInv, SegInv
<1>11. FoundInv' /\ CutInv'
  BY <1>1, <1>8 DEF FoundInv, CutInv
<1>12. RunInv'
  BY <1>1, <1>8 DEF RunInv, Best, Seen
<1> QED
  BY <1>9, <1>10, <1>11, <1>12 DEF ReconstructInv

LEMMA ReturnStep == ASSUME ReconstructInv, Return PROVE ReconstructInv'
<1>1. /\ pc = "assign" /\ Len(regions) = Len(segs) /\ pc' = "done"
      /\ UNCHANGED <<image, off, segs, next, best, regions>>
      /\ ImageInv /\ CursorInv /\ SegInv /\ FoundInv /\ RunInv /\ CutInv /\ RegionInv
  BY DEF Return, ReconstructInv
<1>2. /\ \A j : RegionKind(j)' = RegionKind(j) /\ NextBase(j)' = NextBase(j)
      /\ \A j : UsedSize(j)' = UsedSize(j)
      /\ \A v : InPayload(v)' <=> InPayload(v)
      /\ \A b : Found(b)' <=> Found(b)
      /\ FsStart' = FsStart /\ FsEnd' = FsEnd /\ Runs' = Runs
      /\ \A v : IsFs(v)' <=> IsFs(v)
  BY <1>1 DEF RegionKind, NextBase, UsedSize, UsedLen, Written, At, InPayload, AfterImage, Found,
              WholeBlock, IsUImage, FsStart, FsEnd, Runs, IsFs
<1>3. ImageInv' /\ CursorInv' /\ SegInv'
  BY <1>1 DEF ImageInv, CursorInv, SegInv
<1>4. FoundInv' /\ CutInv'
  BY <1>1, <1>2 DEF FoundInv, CutInv
<1>5. RunInv'
  BY <1>1, <1>2 DEF RunInv, Best, Seen
<1>6. RegionInv'
  BY <1>1, <1>2 DEF RegionInv
<1> QED
  BY <1>3, <1>4, <1>5, <1>6 DEF ReconstructInv

LEMMA StutterStep == ASSUME ReconstructInv, UNCHANGED vars PROVE ReconstructInv'
<1>1. /\ UNCHANGED <<image, pc, off, segs, next, best, regions>>
      /\ ImageInv /\ CursorInv /\ SegInv /\ FoundInv /\ RunInv /\ CutInv /\ RegionInv
  BY DEF vars, ReconstructInv
<1>2. /\ \A j : RegionKind(j)' = RegionKind(j) /\ NextBase(j)' = NextBase(j)
      /\ \A j : UsedSize(j)' = UsedSize(j)
      /\ \A v : AfterImage(v)' = AfterImage(v)
      /\ \A v : InPayload(v)' <=> InPayload(v)
      /\ \A b : Found(b)' <=> Found(b)
      /\ FsStart' = FsStart /\ FsEnd' = FsEnd /\ Runs' = Runs
      /\ \A v : IsFs(v)' <=> IsFs(v)
  BY <1>1 DEF RegionKind, NextBase, UsedSize, UsedLen, Written, At, InPayload, AfterImage, Found,
              WholeBlock, IsUImage, FsStart, FsEnd, Runs, IsFs
<1>3. ImageInv' /\ CursorInv' /\ SegInv'
  BY <1>1, <1>2 DEF ImageInv, CursorInv, SegInv
<1>4. FoundInv' /\ CutInv'
  BY <1>1, <1>2 DEF FoundInv, CutInv
<1>5. RunInv'
  BY <1>1, <1>2 DEF RunInv, Best, Seen
<1>6. RegionInv'
  BY <1>1, <1>2 DEF RegionInv
<1> QED
  BY <1>3, <1>4, <1>5, <1>6 DEF ReconstructInv

LEMMA ReconstructInvariant == Spec => []ReconstructInv
<1>1. ReconstructInv /\ [Next]_vars => ReconstructInv'
  <2> SUFFICES ASSUME ReconstructInv, [Next]_vars PROVE ReconstructInv'
    OBVIOUS
  <2>1. CASE ScanUImage
    BY <2>1, UImageStep
  <2>2. CASE ScanLuaDb
    BY <2>2, LuaDbStep
  <2>3. CASE ScanOther
    BY <2>3, OtherStep
  <2>4. CASE ScanEnd
    BY <2>4, ScanEndStep
  <2>5. CASE NextRun
    BY <2>5, NextRunStep
  <2>6. CASE NoGeneration
    BY <2>6, NoGenerationStep
  <2>7. CASE Cut
    BY <2>7, CutStep
  <2>8. CASE Assign
    BY <2>8, AssignStep
  <2>9. CASE Return
    BY <2>9, ReturnStep
  <2>10. CASE UNCHANGED vars
    BY <2>10, StutterStep
  <2> QED
    BY <2>1, <2>2, <2>3, <2>4, <2>5, <2>6, <2>7, <2>8, <2>9, <2>10 DEF Next, Step, Returned
<1> QED
  BY <1>1, InitInv, PTL DEF Spec

----
(***************************************************************************)
(* What the invariant says of the anchors and the regions.                 *)
(***************************************************************************)

LEMMA BestTypes ==
    ASSUME ReconstructInv
    PROVE  best \in [start : BlocksOf(image.len) \cup {0}, len : 0 .. image.len]
<1> DEFINE w == image.len \div Block
<1>1. /\ best \in [start : Nat, len : Nat]
      /\ best.len = 0 => best.start = 0
      /\ ImageInv /\ CursorInv /\ RunInv /\ image.len \in Nat
      /\ best.start \in Nat /\ best.len \in Nat
  BY WholeFacts DEF ReconstructInv, CursorInv
<1>2. w \in Nat /\ w <= image.len
  <2>1. w \in Nat /\ w * Block <= image.len
    BY <1>1, DivFacts
  <2> HIDE DEF w
  <2>2. w <= w * Block /\ w * Block \in Nat
    BY <2>1, ReconstructAssumption
  <2> QED
    BY <1>1, <2>1, <2>2
<1>3. CASE best.len = 0
  <2>1. best.len \in 0 .. image.len
    BY <1>1, <1>3
  <2> QED
    BY <1>1, <1>3, <2>1
<1>4. CASE best.len # 0
  <2> DEFINE last == best.start + best.len - 1
  <2>1. best.len > 0 /\ pc # "scan"
    BY <1>1, <1>4 DEF CursorInv
  <2>2. Best \in Runs
    BY <1>1, <2>1 DEF RunInv
  <2>3. last \in Nat /\ best.start <= last
    BY <1>1, <2>1
  <2>4. WholeBlock(last) /\ WholeBlock(best.start)
    BY <1>1, <2>2, <2>3, RunFacts DEF Best
  <2>5. best.start \in BlocksOf(image.len) /\ last < w
    BY <1>1, <2>3, <2>4, WholeFacts
  <2>6. best.len \in 0 .. image.len
    BY <1>1, <1>2, <2>5
  <2> QED
    BY <1>1, <2>5, <2>6
<1> QED
  BY <1>3, <1>4

LEMMA AnchorRanges ==
    ASSUME ReconstructInv, NEW i \in DOMAIN segs
    PROVE  segs[i] \in [off : 0 .. image.len - 1, kind : Kinds \ {"nv"},
                        used : ImageSizes \cup {0}]
<1>1. segs[i] \in Anchors /\ segs[i].off < image.len /\ image.len \in Nat
  BY WholeFacts DEF ReconstructInv, SegInv, Below
<1>2. segs[i].off \in 0 .. image.len - 1
  BY <1>1, AnchorTypes
<1> QED
  BY <1>1, <1>2 DEF Anchors

\* A region is the window of its anchor.
LEMMA RegionFacts ==
    ASSUME ReconstructInv, NEW i \in DOMAIN regions
    PROVE  /\ i \in DOMAIN segs /\ regions[i] \in Regions
           /\ regions[i].kind = RegionKind(i) /\ regions[i].index \in 0 .. i - 1
           /\ regions[i].base = segs[i].off /\ RegionEnd(regions[i]) = NextBase(i)
           /\ regions[i].reserved > 0
           /\ regions[i].used = UsedSize(i) /\ UsedSize(i) \in 0 .. image.len
<1>1. /\ ImageInv /\ SegInv /\ RegionInv /\ regions \in Seq(Regions) /\ segs \in Seq(Anchors)
      /\ Len(regions) <= Len(segs) /\ image.len \in Nat
  BY WholeFacts DEF ReconstructInv, SegInv, RegionInv
<1>2. i \in DOMAIN segs /\ regions[i] \in Regions
  BY <1>1
<1>3. /\ regions[i].kind = RegionKind(i) /\ regions[i].index \in 0 .. i - 1
      /\ regions[i].base = segs[i].off /\ regions[i].reserved = NextBase(i) - segs[i].off
      /\ regions[i].used = UsedSize(i)
  BY <1>1 DEF RegionInv
<1>4. /\ segs[i].off \in Nat /\ NextBase(i) \in Nat /\ segs[i].off < NextBase(i)
      /\ NextBase(i) <= image.len /\ UsedSize(i) \in 0 .. NextBase(i) - segs[i].off
  BY <1>1, <1>2, Windows
<1> DEFINE n == NextBase(i)
           o == segs[i].off
           u == UsedSize(i)
<1> HIDE DEF n, o, u
<1>5. o \in Nat /\ n \in Nat /\ o < n /\ n <= image.len /\ u \in 0 .. n - o
  BY <1>4 DEF n, o, u
<1>6. o + (n - o) = n /\ n - o > 0 /\ u \in 0 .. image.len
  BY <1>1, <1>5
<1> QED
  BY <1>2, <1>3, <1>6 DEF n, o, u, RegionEnd

\* Every variable holds a value of its type, for images of every length and content and
\* blocks of every size (reconstruct.rs:193-330).
THEOREM TypeCorrect == Spec => []TypeOK
<1>1. ReconstructInv => TypeOK
  <2> SUFFICES ASSUME ReconstructInv PROVE TypeOK
    OBVIOUS
  <2>1. /\ image.len \in Lengths /\ image.at \in [BlocksOf(image.len) -> Contents]
        /\ pc \in {"scan", "runs", "assign", "done"} /\ ImageInv /\ CursorInv
        /\ image.len \in Nat
    BY WholeFacts DEF ReconstructInv, ImageInv
  <2>2. PICK k \in Nat : /\ RoundUp(image.len) = k * Block /\ RoundUp(image.len) \div Block = k
                         /\ image.len <= k * Block
    BY <2>1, RoundUpFacts
  <2>3. off \in 0 .. RoundUp(image.len)
    <3>1. off \in Nat /\ off <= RoundUp(image.len) /\ RoundUp(image.len) \in Nat
      <4>1. k * Block \in Nat
        BY DivFacts
      <4>2. off \in Nat /\ (off <= RoundUp(image.len) \/ off <= image.len)
        BY <2>1 DEF CursorInv
      <4> QED
        BY <2>1, <2>2, <4>1, <4>2
    <3> QED
      BY <3>1
  <2>4. next \in 0 .. RoundUp(image.len) \div Block
    <3>1. /\ next \in Nat /\ next <= image.len \div Block /\ image.len \div Block \in Nat
          /\ image.len \div Block <= RoundUp(image.len) \div Block
      BY <2>1, WholeFacts DEF CursorInv
    <3> QED
      BY <2>2, <3>1
  <2>5. \A i \in DOMAIN regions : /\ regions[i].kind \in Kinds
                                  /\ regions[i].index \in 0 .. i - 1
                                  /\ regions[i].used \in 0 .. image.len
    BY RegionFacts DEF Regions
  <2> QED
    BY <2>1, <2>3, <2>4, <2>5, BestTypes, AnchorRanges DEF TypeOK
<1> QED
  BY <1>1, ReconstructInvariant, PTL

\* What phase 1 has passed without an anchor: whole blocks that begin nothing it knows.
Dropped(o) == \A b \in Nat : b * Block < o => WholeBlock(b) /\ Skipped(b * Block)

\* All that lies before the first anchor, or before the cursor while there is none, is
\* dropped; and a dump without anchors has been walked to its end.
LeadInv ==
    /\ segs = <<>> => Dropped(off)
    /\ segs # <<>> => Dropped(segs[1].off)
    /\ pc \in {"assign", "done"} /\ segs = <<>> => off = image.len

LEMMA DroppedLess ==
    ASSUME NEW o \in Nat, NEW p \in Nat, p <= o, Dropped(o) PROVE Dropped(p)
BY DivFacts DEF Dropped

\* The first anchor of phase 2 is at the cursor, or at a run that begins there.
LEMMA CutFirst ==
    ASSUME ReconstructInv, Cut, segs = <<>>
    PROVE  segs' # <<>> /\ segs'[1].off \in Nat /\ segs'[1].off <= off
<1>1. off \in Nat /\ FsStart \in Nat /\ segs' = segs \o BackHalf
  <2>1. off \in Nat /\ best.start \in Nat
    BY DEF ReconstructInv, CursorInv
  <2>2. FsStart \in Nat
    BY <2>1, DivFacts DEF FsStart
  <2> QED
    BY <2>1, <2>2 DEF Cut
<1>2. \A o, p : LET s == <<>> \o <<Anchor(o, "filesystem", 0)>>
                    t == s \o <<Anchor(p, "filesystem", 0)>>
                IN  s # <<>> /\ s[1].off = o /\ t # <<>> /\ t[1].off = o
  BY DEF Anchor
<1>3. CASE best.len = 0
  BY <1>1, <1>2, <1>3 DEF BackHalf
<1>4. CASE best.len # 0
  <2> DEFINE a == Anchor(FsStart, "filesystem", 0)
             front == Staging \o <<a>>
             head == IF off < FsStart THEN Anchor(off, "filesystem", 0) ELSE a
  <2>1. segs' = <<>> \o (front \o Top) /\ Top \in Seq(Anchors)
    <3>1. segs' = <<>> \o (front \o Top)
      BY <1>1, <1>4 DEF BackHalf
    <3>2. FsEnd \in Nat
      BY <1>1, DivFacts DEF FsEnd, ReconstructInv, CursorInv
    <3>3. Anchor(FsEnd, "filesystem", 0) \in Anchors
      BY <3>2 DEF Anchor, Anchors, Kinds
    <3> QED
      BY <3>1, <3>3 DEF Top
  <2>2. front \in Seq(Anchors) /\ Len(front) > 0 /\ front[1] = head
    <3>1. a \in Anchors /\ Anchor(off, "filesystem", 0) \in Anchors
      BY <1>1 DEF Anchor, Anchors, Kinds
    <3> HIDE DEF a
    <3>2. CASE off < FsStart
      BY <3>1, <3>2 DEF Staging
    <3>3. CASE ~(off < FsStart)
      BY <3>1, <3>3 DEF Staging
    <3> QED
      BY <3>2, <3>3
  <2>3. head.off \in Nat /\ head.off <= off
    BY <1>1 DEF Anchor
  <2> HIDE DEF front, head
  <2>4. /\ front \o Top \in Seq(Anchors) /\ Len(front \o Top) > 0
        /\ (front \o Top)[1] = head
    <3>1. 1 \in 1 .. Len(front) + Len(Top)
      BY <2>1, <2>2
    <3> QED
      BY <2>1, <2>2, <3>1, ConcatProperties
  <2>5. segs' = front \o Top
    BY <2>1, <2>4, ConcatEmptySeq
  <2> QED
    BY <2>3, <2>4, <2>5
<1> QED
  BY <1>3, <1>4

LEMMA LeadStep == ASSUME ReconstructInv, LeadInv, Next PROVE LeadInv'
<1>1. /\ image' = image /\ segs \in Seq(Anchors) /\ off \in Nat /\ image.len \in Nat
      /\ ImageInv /\ CursorInv /\ SegInv
      /\ \A i \in DOMAIN segs : segs[i].off \in Nat
  <2>1. ReconstructInv /\ image' = image
    BY DEF Next, Step, Returned, ScanUImage, ScanLuaDb, ScanOther, ScanEnd, NextRun,
           NoGeneration, Cut, Assign, Return, vars
  <2>2. segs \in Seq(Anchors) /\ off \in Nat /\ image.len \in Nat /\ ImageInv /\ CursorInv
    BY <2>1, WholeFacts DEF ReconstructInv, SegInv, CursorInv
  <2> QED
    BY <2>1, <2>2, AnchorTypes DEF ReconstructInv
<1>2. \A o : Dropped(o)' <=> Dropped(o)
  BY <1>1 DEF Dropped, WholeBlock, Skipped, IsUImage, IsLuaDb, IsFs, At
<1>3. CASE ScanUImage \/ ScanLuaDb
  <2>1. /\ pc = "scan" /\ pc' = "scan"
        /\ \E a : segs' = Append(segs, a) /\ a.off = off
    BY <1>3 DEF ScanUImage, ScanLuaDb, Scanning, Anchor
  <2>2. segs' # <<>> /\ segs'[1].off = IF segs = <<>> THEN off ELSE segs[1].off
    BY <1>1, <2>1
  <2> QED
    BY <1>2, <2>1, <2>2 DEF LeadInv
<1>4. CASE ScanOther
  <2>1. /\ pc = "scan" /\ pc' = "scan" /\ segs' = segs /\ off' = off + Block
        /\ off + Block <= image.len /\ Skipped(off)
    BY <1>4 DEF ScanOther, Scanning
  <2>2. PICK k \in Nat : off = k * Block /\ off' = (k + 1) * Block /\ WholeBlock(k)
    BY <1>1, <2>1, ScanFacts
  <2>3. ASSUME Dropped(off) PROVE Dropped(off')
    <3> SUFFICES ASSUME NEW b \in Nat, b * Block < off'
                 PROVE  WholeBlock(b) /\ Skipped(b * Block)
      BY DEF Dropped
    <3>1. b < k + 1
      BY <2>2, BlockOrder
    <3>2. CASE b = k
      BY <2>1, <2>2, <3>2
    <3>3. CASE b < k
      BY <2>2, <2>3, <3>3, BlockOrder DEF Dropped
    <3> QED
      BY <3>1, <3>2, <3>3
  <2> QED
    BY <1>2, <2>1, <2>3 DEF LeadInv
<1>5. CASE ScanEnd
  <2>1. /\ segs' = segs /\ off' \in Nat /\ off' <= off
        /\ pc' \in {"runs", "assign"} /\ (pc' = "assign" => off' = image'.len)
    BY <1>1, <1>5 DEF ScanEnd
  <2> QED
    BY <1>1, <1>2, <2>1, DroppedLess DEF LeadInv
<1>6. CASE Cut
  <2>1. pc' = "assign" /\ off' = off
    BY <1>6 DEF Cut
  <2>2. CASE segs = <<>>
    <3>1. segs' # <<>> /\ segs'[1].off \in Nat /\ segs'[1].off <= off
      BY <1>6, <2>2, CutFirst
    <3> QED
      BY <1>1, <1>2, <2>2, <3>1, DroppedLess DEF LeadInv
  <2>3. CASE segs # <<>>
    <3>1. 1 \in DOMAIN segs
      BY <1>1, <2>3
    <3>2. segs' # <<>> /\ segs'[1] = segs[1]
      BY <1>6, <3>1, CutFacts
    <3> QED
      BY <1>2, <2>3, <3>2 DEF LeadInv
  <2> QED
    BY <2>2, <2>3
<1>7. CASE NextRun \/ NoGeneration
  BY <1>2, <1>7 DEF LeadInv, NextRun, NoGeneration
<1>8. CASE Assign \/ Return \/ Returned
  BY <1>1, <1>2, <1>8 DEF LeadInv, Assign, Return, Returned, vars
<1> QED
  BY <1>3, <1>4, <1>5, <1>6, <1>7, <1>8 DEF Next, Step

LEMMA LeadInvariant == Spec => [](ReconstructInv /\ LeadInv)
<1>1. Init => LeadInv
  BY DivFacts DEF Init, LeadInv, Dropped
<1>2. ReconstructInv /\ LeadInv /\ [Next]_vars => LeadInv'
  <2> SUFFICES ASSUME ReconstructInv, LeadInv, UNCHANGED vars PROVE LeadInv'
    BY LeadStep
  <2> QED
    BY DEF vars, LeadInv, Dropped, WholeBlock, Skipped, IsUImage, IsLuaDb, IsFs, At
<1> QED
  BY <1>1, <1>2, ReconstructInvariant, PTL DEF Spec

\* The regions returned tile the dump from the first base to its end, and what lies before
\* the first base, or all of a dump without regions, begins nothing that is known
\* (reconstruct.rs:193-255).
THEOREM RegionsTile == Spec => []Tiling
<1>1. ReconstructInv /\ LeadInv => Tiling
  <2> SUFFICES ASSUME ReconstructInv, LeadInv, Done PROVE Tiling
    BY DEF Tiling
  <2>1. /\ Len(regions) = Len(segs) /\ regions \in Seq(Regions) /\ segs \in Seq(Anchors)
        /\ Len(regions) \in Nat
    BY DEF ReconstructInv, RegionInv, SegInv, Done
  <2>2. \A i \in DOMAIN regions : regions[i].reserved > 0
    BY RegionFacts
  <2>3. ASSUME NEW i \in DOMAIN regions \ {Len(regions)}
        PROVE  RegionEnd(regions[i]) = regions[i + 1].base
    <3>1. i + 1 \in DOMAIN regions /\ i < Len(segs)
      BY <2>1
    <3>2. NextBase(i) = segs[i + 1].off
      BY <3>1 DEF NextBase
    <3> QED
      BY <3>1, <3>2, RegionFacts
  <2>4. ASSUME regions # <<>> PROVE RegionEnd(regions[Len(regions)]) = image.len
    <3>1. Len(regions) \in DOMAIN regions
      BY <2>1, <2>4
    <3>2. RegionEnd(regions[Len(regions)]) = NextBase(Len(regions))
      BY <3>1, RegionFacts
    <3> QED
      BY <2>1, <3>2 DEF NextBase
  <2>5. ASSUME NEW b \in BlocksOf(image.len), b * Block < FirstBase
        PROVE  WholeBlock(b) /\ Skipped(b * Block)
    <3>1. Dropped(FirstBase)
      <4>1. CASE regions = <<>>
        BY <2>1, <4>1 DEF LeadInv, FirstBase, Done
      <4>2. CASE regions # <<>>
        <5>1. 1 \in DOMAIN regions /\ segs # <<>>
          BY <2>1, <4>2
        <5>2. regions[1].base = segs[1].off
          BY <5>1, RegionFacts
        <5> QED
          BY <4>2, <5>1, <5>2 DEF LeadInv, FirstBase
      <4> QED
        BY <4>1, <4>2
    <3>2. b \in Nat
      BY DEF BlocksOf
    <3> QED
      BY <2>5, <3>1, <3>2 DEF Dropped
  <2> QED
    BY <2>2, <2>3, <2>4, <2>5 DEF Tiling
<1> QED
  BY <1>1, LeadInvariant, PTL

\* No region begins within the exact length of an image before it
\* (reconstruct.rs:199-202).
THEOREM ImagesStayWhole == Spec => []CodeIsWhole
<1>1. ReconstructInv => CodeIsWhole
  BY DEF ReconstructInv, SegInv, Ascend, CodeIsWhole
<1> QED
  BY <1>1, ReconstructInvariant, PTL

\* Behind the used size of a region other than a uImage nothing is written
\* (reconstruct.rs:93-100, 223-227).
THEOREM WrittenIsKept == Spec => []NothingWrittenIsLost
<1>1. ReconstructInv => NothingWrittenIsLost
  <2> SUFFICES ASSUME ReconstructInv, NEW i \in DOMAIN regions, regions[i].kind # "uimage",
                      NEW u \in regions[i].base .. RegionEnd(regions[i]) - 1,
                      u >= regions[i].base + regions[i].used
               PROVE  ~Written(u)
    BY DEF NothingWrittenIsLost
  <2>1. /\ i \in DOMAIN segs /\ regions[i].kind = RegionKind(i)
        /\ regions[i].base = segs[i].off /\ RegionEnd(regions[i]) = NextBase(i)
        /\ regions[i].used = UsedSize(i) /\ ImageInv /\ SegInv
    BY RegionFacts DEF ReconstructInv
  <2>2. segs[i].kind # "uimage"
    BY <2>1 DEF RegionKind
  <2>3. /\ segs[i].off \in Nat /\ NextBase(i) \in Nat
        /\ UsedSize(i) \in 0 .. NextBase(i) - segs[i].off
        /\ \A v \in segs[i].off + UsedSize(i) .. NextBase(i) - 1 : ~Written(v)
    BY <2>1, <2>2, Windows
  <2>4. u \in segs[i].off + UsedSize(i) .. NextBase(i) - 1
    BY <2>1, <2>3
  <2> QED
    BY <2>3, <2>4
<1> QED
  BY <1>1, ReconstructInvariant, PTL

\* Every uImage of the front that fits the dump becomes a region
\* (reconstruct.rs:198-211).
THEOREM ImagesAreFound == Spec => []CodeIsFound
<1>1. ReconstructInv => CodeIsFound
  <2> SUFFICES ASSUME ReconstructInv, Done, NEW b \in BlocksOf(image.len),
                      WholeBlock(b), IsUImage(b * Block)
               PROVE  \/ InPayload(b * Block)
                      \/ \E c \in 0 .. b - 1 : IsFs(c * Block) /\ ~InPayload(c * Block)
    BY DEF CodeIsFound
  <2>1. b \in Nat /\ FoundInv /\ pc # "scan"
    BY WholeFacts DEF ReconstructInv, Done
  <2> QED
    BY <2>1 DEF FoundInv, Found
<1> QED
  BY <1>1, ReconstructInvariant, PTL

\* The live filesystem is the longest run of one generation behind the front, the lowest of
\* several, and one region covers exactly that run (reconstruct.rs:271-330).
THEOREM LiveFsIsRight == Spec => []LiveFsIsLongest
<1>1. ReconstructInv => LiveFsIsLongest
  <2> SUFFICES ASSUME ReconstructInv, Done, NEW q0 \in Runs
               PROVE  \E r \in Runs :
                         /\ \A q \in Runs : q[2] - q[1] <= r[2] - r[1]
                         /\ \A q \in Runs : q[2] - q[1] = r[2] - r[1] => r[1] <= q[1]
                         /\ \E i \in DOMAIN regions :
                               /\ regions[i].base = r[1] * Block
                               /\ RegionEnd(regions[i]) = (r[2] + 1) * Block
    BY DEF LiveFsIsLongest
  <2>1. /\ ImageInv /\ RunInv /\ CutInv /\ pc = "done" /\ Len(regions) = Len(segs)
        /\ regions \in Seq(Regions) /\ segs \in Seq(Anchors)
        /\ best.start \in Nat /\ best.len \in Nat
    BY DEF ReconstructInv, CursorInv, RegionInv, SegInv, Done
  <2>2. ASSUME NEW q \in Runs
        PROVE  /\ q[1] \in Nat /\ q[2] \in Nat /\ q[1] <= q[2]
               /\ q[2] - q[1] + 1 <= best.len
               /\ q[2] - q[1] + 1 = best.len => best.start <= q[1]
    BY <2>1, RunFacts DEF RunInv, Seen
  <2>3. best.len > 0
    BY <2>1, <2>2
  <2>4. /\ Best \in Runs /\ Best[1] = best.start
        /\ Best[2] = best.start + best.len - 1 /\ Best[2] + 1 = best.start + best.len
    BY <2>1, <2>3 DEF RunInv, Best
  <2>5. PICK i \in DOMAIN segs : segs[i].off = FsStart /\ NextBase(i) = FsEnd
    BY <2>1, <2>3 DEF CutInv
  <2>6. i \in DOMAIN regions /\ regions[i].base = FsStart /\ RegionEnd(regions[i]) = FsEnd
    BY <2>1, <2>5, RegionFacts
  <2>7. FsStart = Best[1] * Block /\ FsEnd = (Best[2] + 1) * Block
    BY <2>1, <2>4, BlockOrder DEF FsStart, FsEnd
  <2>8. \A q \in Runs : /\ q[2] - q[1] <= Best[2] - Best[1]
                        /\ q[2] - q[1] = Best[2] - Best[1] => Best[1] <= q[1]
    BY <2>1, <2>2, <2>4
  <2> QED
    BY <2>4, <2>6, <2>7, <2>8
<1> QED
  BY <1>1, ReconstructInvariant, PTL
====

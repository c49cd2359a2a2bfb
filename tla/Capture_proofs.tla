---- MODULE Capture_proofs ----
(***************************************************************************)
(* Theorems about Capture: for every PAC, every flash, every call and      *)
(* every fault.                                                            *)
(***************************************************************************)
EXTENDS Capture, FiniteSetTheorems, FunctionTheorems, SequenceTheorems, WellFoundedInduction, TLAPS

----
(***************************************************************************)
(* The inductive invariant.                                                *)
(***************************************************************************)
Plain(f) == Len(f) \in Nat /\ f = [i \in 1 .. Len(f) |-> f[i]]

Early == {"parse", "plan", "connect", "read"}
WriteStates == {"write", "writing", "ok"}
Late == {"splice", "panic"} \cup WriteStates

\* From the parse on the entries are those of the reference, and parse has accepted it.
StageInv ==
    /\ cmd \in Commands
    /\ pc \in Early \cup Late \cup {"failed"}
    /\ module \in {"rom", "fdl2", "app"}
    /\ entries \in Seq(Entries)
    /\ pc \in {"parse", "plan", "connect"} => dumps = <<>>
    /\ pc \in Early => done = 0
    /\ pc \notin {"parse", "failed"} => Parses(cmd.file) /\ entries = Rows(cmd.file)
    /\ pc \notin {"parse", "plan", "failed"} => Targets # <<>>
    /\ pc \in Late => module = "app" /\ Len(dumps) = Len(Targets)
    /\ pc = "splice" => cmd.kind = "clone"
    /\ pc # "panic"

\* What was read of a region is the beginning of it.
DumpInv ==
    /\ Plain(dumps) /\ Len(dumps) <= Len(Targets)
    /\ done \in Nat /\ done <= Len(dumps)
    /\ \A k \in 1 .. Len(dumps) :
          LET held == Held(Targets[k])
          IN  \E n \in 0 .. Len(held) : dumps[k] = SubSeq(held, 1, n)

\* The first n partitions are in the copy, a later one over an earlier one, and
\* nothing else in it has changed.
SplicedTo(f, n) ==
    \A i \in 1 .. Len(f) :
        /\ (\A k \in 1 .. n : ~Shares(Targets[k], i)) => f[i] = cmd.file[i]
        /\ \A k \in 1 .. n :
              Shares(Targets[k], i) /\ (\A l \in k + 1 .. n : ~Shares(Targets[l], i)) =>
                  f[i] = Flash[Targets[k].address + i - Targets[k].offset - 1]
SpliceInv ==
    pc = "splice" => Plain(out) /\ Len(out) = Len(cmd.file) /\ SplicedTo(out, done)

\* The files before done are on the disk, but for those of a name that was taken again,
\* and the one being written is empty.
Begun == IF pc = "writing" THEN This ELSE done
WriteInv ==
    pc \in WriteStates =>
        /\ cmd.kind = "clone" => Plain(out) /\ GoldenIsCaptured(out)
        /\ done <= Len(Files)
        /\ \A k \in 1 .. done :
              (\A l \in k + 1 .. Begun : Files[l].name # Files[k].name) =>
                  Files[k].name \in DOMAIN disk /\ disk[Files[k].name] = Files[k].data
        /\ pc = "writing" => /\ done < Len(Files)
                             /\ Files[This].name \in DOMAIN disk
                             /\ disk[Files[This].name] = <<>>
        /\ pc = "ok" => done = Len(Files)

CaptureInv == StageInv /\ DumpInv /\ SpliceInv /\ WriteInv
----
(***************************************************************************)
(* Sets of numbers and sequences.                                          *)
(***************************************************************************)
LEMMA GreatestBelow ==
    ASSUME NEW N \in Nat, NEW T, T \subseteq 1 .. N, T # {}
    PROVE  \E m \in T : \A n \in T : n <= m
<1> DEFINE U == {i \in 0 .. N : N - i \in T}
<1>1. U \subseteq Nat /\ U # {}
  <2>0. U \subseteq Nat
    OBVIOUS
  <2>1. PICK n \in T : TRUE
    OBVIOUS
  <2>2. n \in 1 .. N /\ N - (N - n) = n
    OBVIOUS
  <2>3. N - n \in U
    BY <2>2
  <2> HIDE DEF U
  <2> QED
    BY <2>0, <2>3
<1> HIDE DEF U
<1>2. PICK m \in U : \A n \in U : <<n, m>> \notin OpToRel(<, Nat)
  BY <1>1, WFMin, NatLessThanWellFounded, Zenon
<1>3. \A n \in U : ~(n < m)
  BY <1>1, <1>2, Zenon DEF OpToRel
<1>4. m \in 0 .. N /\ N - m \in T
  BY DEF U
<1>5. ASSUME NEW n \in T PROVE n <= N - m
  <2>1. n \in 1 .. N /\ N - (N - n) = n /\ N - n \in 0 .. N
    OBVIOUS
  <2>2. N - n \in U
    BY <2>1 DEF U
  <2>3. ~(N - n < m)
    BY <1>3, <2>2
  <2> QED
    BY <1>4, <2>1, <2>3
<1> QED
  BY <1>4, <1>5

\* Plan counts as this module does.
LEMMA SameCount == \A S : OfPac!Cardinality(S) = Cardinality(S)
BY DEF OfPac!Cardinality, Cardinality

\* The k-th member of a finite set of numbers is a member of it.
LEMMA NthIsMember ==
    ASSUME NEW S, S \subseteq Nat, IsFiniteSet(S), NEW k \in 1 .. Cardinality(S)
    PROVE  OfPac!Nth(S, k) \in S
<1> DEFINE UpTo(n) == {j \in S : j <= n}
           rank == [n \in S |-> Cardinality(UpTo(n))]
           T == {rank[n] : n \in S}
           N == Cardinality(S)
<1>1. N \in Nat
  BY FS_CardinalityType
<1>2. \A n \in S : /\ IsFiniteSet(UpTo(n)) /\ Cardinality(UpTo(n)) \in Nat
                   /\ Cardinality(UpTo(n)) <= N /\ Cardinality(UpTo(n)) > 0
  <2> SUFFICES ASSUME NEW n \in S
               PROVE  /\ IsFiniteSet(UpTo(n)) /\ Cardinality(UpTo(n)) \in Nat
                      /\ Cardinality(UpTo(n)) <= N /\ Cardinality(UpTo(n)) > 0
    OBVIOUS
  <2>1. UpTo(n) \in SUBSET S /\ UpTo(n) # {}
    OBVIOUS
  <2> HIDE DEF UpTo
  <2>2. /\ IsFiniteSet(UpTo(n)) /\ Cardinality(UpTo(n)) \in Nat
        /\ Cardinality(UpTo(n)) <= N
    BY <2>1, FS_Subset, FS_CardinalityType
  <2>3. Cardinality(UpTo(n)) # 0
    BY <2>1, <2>2, FS_EmptySet
  <2> QED
    BY <2>2, <2>3
<1>3. \A m, n \in S : rank[m] = rank[n] => m = n
  <2>1. ASSUME NEW m \in S, NEW n \in S, rank[m] = rank[n], m < n PROVE FALSE
    <3>0. m \in Nat /\ n \in Nat /\ m < n
      BY <2>1
    <3>1. UpTo(m) \in SUBSET UpTo(n) /\ n \in UpTo(n) /\ n \notin UpTo(m)
      <4>1. UpTo(m) \in SUBSET UpTo(n)
        <5> SUFFICES ASSUME NEW j \in S, j <= m PROVE j <= n
          OBVIOUS
        <5> HIDE DEF rank, T, N
        <5> QED
          BY <3>0
      <4>2. n <= n /\ ~(n <= m)
        BY <3>0
      <4> QED
        BY <4>1, <4>2
    <3>2. Cardinality(UpTo(m)) = Cardinality(UpTo(n))
      BY <2>1
    <3> HIDE DEF UpTo
    <3>3. UpTo(n) = UpTo(m)
      BY <1>2, <3>1, <3>2, FS_Subset
    <3> QED
      BY <3>1, <3>3
  <2> SUFFICES ASSUME NEW m \in S, NEW n \in S, rank[m] = rank[n]
               PROVE  m = n
    OBVIOUS
  <2> HIDE DEF rank
  <2>2. ~(m < n) /\ ~(n < m)
    BY <2>1
  <2> QED
    BY <2>2
<1>4. T \in SUBSET (1 .. N)
  <2> SUFFICES ASSUME NEW n \in S PROVE rank[n] \in 1 .. N
    OBVIOUS
  <2>1. rank[n] = Cardinality(UpTo(n))
    OBVIOUS
  <2> HIDE DEF UpTo, rank, N
  <2> QED
    BY <1>1, <1>2, <2>1
<1>5. T = 1 .. N
  <2>1. rank \in [S -> T] /\ \A t \in T : \E s \in S : rank[s] = t
    OBVIOUS
  <2> HIDE DEF rank
  <2>2. rank \in Surjection(S, T) /\ rank \in Injection(S, T)
    BY <1>3, <2>1, Fun_IsInj, Fun_IsSurj
  <2> HIDE DEF T
  <2>3. Cardinality(T) = N
    BY <2>2, FS_Surjection
  <2> HIDE DEF N
  <2>4. IsFiniteSet(1 .. N) /\ Cardinality(1 .. N) = N
    BY <1>1, FS_Interval
  <2> QED
    BY <1>4, <2>3, <2>4, FS_Subset
<1>6. PICK n \in S : Cardinality(UpTo(n)) = k
  <2>1. k \in T
    BY <1>5
  <2> QED
    BY <2>1
<1>7. \E i \in S : OfPac!Cardinality({j \in S : j <= i}) = k
  BY <1>6, SameCount
<1> QED
  BY <1>7 DEF OfPac!Nth

LEMMA PlainSeq ==
    ASSUME NEW f, Plain(f)
    PROVE  /\ f \in Seq({f[i] : i \in 1 .. Len(f)}) /\ DOMAIN f = 1 .. Len(f)
           /\ Len(f) = 0 => f = <<>>
<1> DEFINE S == {f[i] : i \in 1 .. Len(f)}
<1>1. PICK n \in Nat : n = Len(f)
  BY DEF Plain
<1>2. f = [i \in 1 .. n |-> f[i]] /\ \A i \in 1 .. n : f[i] \in S
  BY <1>1 DEF Plain
<1> HIDE DEF S
<1>3. [i \in 1 .. n |-> f[i]] \in Seq(S)
  BY <1>2
<1>4. f \in Seq(S)
  BY <1>2, <1>3
<1>5. DOMAIN [i \in 1 .. n |-> f[i]] = 1 .. n
  OBVIOUS
<1>6. DOMAIN f = 1 .. Len(f)
  BY <1>1, <1>2, <1>5
<1>7. Len(f) = 0 => f = <<>>
  BY <1>4, EmptySeq
<1> QED
  BY <1>4, <1>6, <1>7 DEF S

LEMMA SeqPlain ==
    ASSUME NEW S, NEW f \in Seq(S)
    PROVE  Plain(f)
BY DEF Plain

\* What a write of n units leaves in a file that was empty.
LEMMA OverEmpty ==
    ASSUME NEW f, Plain(f), NEW n \in 0 .. Len(f)
    PROVE  LET p == SubSeq(f, 1, n)
           IN  /\ Plain(p) /\ Len(p) = n /\ \A i \in 1 .. n : p[i] = f[i]
               /\ p \o SubSeq(<<>>, n + 1, Len(<<>>)) = p
               /\ n = Len(f) => p = f
<1> DEFINE S == {f[i] : i \in 1 .. Len(f)}
           p == SubSeq(f, 1, n)
<1>1. f \in Seq(S) /\ Len(f) \in Nat /\ n \in Nat /\ n <= Len(f)
  BY PlainSeq DEF Plain
<1> HIDE DEF S
<1>2. \A i \in 1 .. n : f[i] \in S
  BY <1>1
<1>3. p \in Seq(S) /\ Len(p) = n /\ \A i \in 1 .. n : p[i] = f[i]
  BY <1>1, <1>2, SubSeqProperties
<1> HIDE DEF p
<1>4. SubSeq(<<>>, n + 1, Len(<<>>)) = <<>>
  BY <1>1, SubSeqEmpty
<1>5. p \o <<>> = p
  BY <1>3, ConcatEmptySeq
<1>6. n = Len(f) => p = f
  BY <1>1, <1>3, SeqEqual
<1>7. Plain(p)
  BY <1>3, SeqPlain
<1> QED
  BY <1>3, <1>4, <1>5, <1>6, <1>7 DEF p

LEMMA PlainAppend ==
    ASSUME NEW f, Plain(f), NEW e
    PROVE  LET g == Append(f, e)
           IN  /\ Plain(g) /\ Len(g) = Len(f) + 1
               /\ \A i \in 1 .. Len(f) : g[i] = f[i]
               /\ g[Len(f) + 1] = e
<1> DEFINE S == {f[i] : i \in 1 .. Len(f)}
           R == S \cup {e}
<1>1. f \in Seq(S)
  BY PlainSeq
<1>2. S \subseteq R /\ e \in R
  OBVIOUS
<1> HIDE DEF S, R
<1>3. f \in Seq(R) /\ e \in R
  BY <1>1, <1>2
<1>4. /\ Append(f, e) \in Seq(R) /\ Len(Append(f, e)) = Len(f) + 1
      /\ \A i \in 1 .. Len(f) : Append(f, e)[i] = f[i]
      /\ Append(f, e)[Len(f) + 1] = e
  BY <1>3, AppendProperties
<1> QED
  BY <1>4, SeqPlain
----
(***************************************************************************)
(* The reference PAC and the regions to read.                              *)
(***************************************************************************)
LEMMA FileFacts ==
    ASSUME cmd \in Commands
    PROVE  /\ Plain(cmd.file) /\ Len(cmd.file) >= 1
           /\ DOMAIN cmd.file[1] = {"size", "count", "table", "crc1", "crc2"}
           /\ cmd.file[1].count \in Nat /\ cmd.file[1].table \in Nat
           /\ cmd.file[1].size \in Nat /\ cmd.file[1].table > 0
<1>1. WellFormed(cmd.file)
  BY CommandAssumption
<1>2. Plain(cmd.file) /\ cmd.file # <<>>
  BY <1>1 DEF WellFormed, Plain
<1>3. Len(cmd.file) >= 1
  BY <1>2, PlainSeq DEF Plain
<1> QED
  BY <1>1, <1>2, <1>3 DEF WellFormed

LEMMA RowFacts ==
    ASSUME cmd \in Commands, Parses(cmd.file)
    PROVE  /\ Rows(cmd.file) \in Seq(Entries) /\ DOMAIN Rows(cmd.file) = 1 .. cmd.file[1].count
           /\ \A i \in DOMAIN Rows(cmd.file) :
                 LET e == Rows(cmd.file)[i]
                 IN  e.size # 0 => /\ e.offset >= cmd.file[1].table + cmd.file[1].count
                                   /\ e.offset + e.size <= Len(cmd.file)
<1>1. PICK c \in Nat, t \in Nat : c = cmd.file[1].count /\ t = cmd.file[1].table
  BY FileFacts
<1>2. t + c <= Len(cmd.file)
  BY <1>1 DEF Parses
<1>3. \A i \in t + 1 .. t + c : /\ cmd.file[i] \in Entries
                                /\ cmd.file[i].size = 0 \/ cmd.file[i].offset >= t + c
  BY <1>1, <1>2, CommandAssumption DEF WellFormed
<1>4. Rows(cmd.file) = [i \in 1 .. c |-> cmd.file[t + i]]
  BY <1>1 DEF Rows
<1>5. \A i \in 1 .. c : t + i \in t + 1 .. t + c
  OBVIOUS
<1>6. \A i \in 1 .. c : cmd.file[t + i] \in Entries
  BY <1>3, <1>5
<1>7. [i \in 1 .. c |-> cmd.file[t + i]] \in Seq(Entries)
  BY <1>6
<1>8. ASSUME NEW i \in 1 .. c, Rows(cmd.file)[i].size # 0
      PROVE  /\ Rows(cmd.file)[i].offset >= t + c
             /\ Rows(cmd.file)[i].offset + Rows(cmd.file)[i].size <= Len(cmd.file)
  <2>1. Rows(cmd.file)[i] = cmd.file[t + i]
    BY <1>4
  <2>2. InFile(cmd.file, Rows(cmd.file)[i])
    BY <1>1 DEF Parses
  <2> QED
    BY <1>3, <1>5, <1>8, <2>1, <2>2 DEF InFile
<1> QED
  BY <1>1, <1>4, <1>7, <1>8

LEMMA PartitionFacts ==
    ASSUME entries \in Seq(Entries)
    PROVE  /\ Cardinality(Partitions) \in Nat
           /\ \A k \in 1 .. Cardinality(Partitions) :
                 /\ OfPac!Nth(Partitions, k) \in DOMAIN entries
                 /\ entries[OfPac!Nth(Partitions, k)].size # 0
<1>1. DOMAIN entries = 1 .. Len(entries) /\ Len(entries) \in Nat
  OBVIOUS
<1>2. Partitions \in SUBSET (1 .. Len(entries))
  BY <1>1 DEF Partitions, OfPac!WithRole
<1>3. \A i \in Partitions : entries[i].size # 0
  BY DEF Partitions, OfPac!WithRole, OfPac!Classify
<1>4. IsFiniteSet(1 .. Len(entries))
  BY <1>1, FS_Interval
<1>5. IsFiniteSet(Partitions)
  BY <1>2, <1>4, FS_Subset
<1>6. Cardinality(Partitions) \in Nat /\ Partitions \subseteq Nat
  BY <1>2, <1>5, FS_CardinalityType
<1>7. \A k \in 1 .. Cardinality(Partitions) : OfPac!Nth(Partitions, k) \in Partitions
  BY <1>5, <1>6, NthIsMember
<1> QED
  BY <1>1, <1>2, <1>3, <1>6, <1>7

\* A region of a clone is a partition of the PAC; no region goes by the name of the PAC.
LEMMA TargetFacts ==
    ASSUME cmd \in Commands, entries \in Seq(Entries)
    PROVE  /\ Len(Targets) \in Nat /\ DOMAIN Targets = 1 .. Len(Targets)
           /\ \A k \in 1 .. Len(Targets) :
                 /\ Targets[k].address \in Nat /\ Targets[k].size \in Nat
                 /\ Targets[k].offset \in Nat /\ Targets[k].name # Golden
                 /\ cmd.kind = "clone" =>
                       \E i \in DOMAIN entries :
                           /\ entries[i].size # 0 /\ entries[i].size = Targets[k].size
                           /\ entries[i].offset = Targets[k].offset
<1>1. CASE cmd.regions # <<>>
  <2>1. cmd.regions \in Seq(Regions) /\ cmd.kind # "clone"
    BY <1>1, CommandAssumption
  <2> DEFINE T == [k \in DOMAIN cmd.regions |->
                      Region(<<"region", cmd.regions[k].address>>, cmd.regions[k].address,
                             cmd.regions[k].size, 0)]
  <2>2. Targets = T
    BY <1>1 DEF Targets
  <2>3. PICK n \in Nat : n = Len(cmd.regions) /\ DOMAIN cmd.regions = 1 .. n
    BY <2>1
  <2>4. Len(T) = n /\ DOMAIN T = 1 .. n
    BY <2>3
  <2>5. ASSUME NEW k \in 1 .. n
        PROVE  /\ T[k].address \in Nat /\ T[k].size \in Nat /\ T[k].offset \in Nat
               /\ T[k].name = <<"region", cmd.regions[k].address>>
    <3>1. cmd.regions[k] \in Regions
      BY <2>1, <2>3
    <3> QED
      BY <2>3, <3>1 DEF Region, Regions
  <2> HIDE DEF T
  <2>6. \A a : <<"region", a>> # Golden
    BY DEF Golden
  <2> QED
    BY <2>1, <2>2, <2>4, <2>5, <2>6
<1>2. CASE cmd.regions = <<>>
  <2> DEFINE Nr(k) == OfPac!Nth(Partitions, k)
             T == [k \in 1 .. Cardinality(Partitions) |->
                      Region(<<entries[Nr(k)].id>>, entries[Nr(k)].address,
                             entries[Nr(k)].size, entries[Nr(k)].offset)]
  <2>2. Targets = T
    BY <1>2 DEF Targets
  <2>3. PICK n \in Nat : n = Cardinality(Partitions)
    BY PartitionFacts
  <2>4. Len(T) = n /\ DOMAIN T = 1 .. n
    BY <2>3
  <2>5. ASSUME NEW k \in 1 .. n
        PROVE  /\ T[k].address \in Nat /\ T[k].size \in Nat /\ T[k].offset \in Nat
               /\ T[k].name = <<entries[Nr(k)].id>>
               /\ Nr(k) \in DOMAIN entries /\ entries[Nr(k)].size # 0
               /\ entries[Nr(k)].size = T[k].size /\ entries[Nr(k)].offset = T[k].offset
    <3>1. Nr(k) \in DOMAIN entries /\ entries[Nr(k)].size # 0
      BY <2>3, PartitionFacts
    <3>2. entries[Nr(k)] \in Entries
      BY <3>1
    <3> HIDE DEF Nr
    <3>3. T[k] = Region(<<entries[Nr(k)].id>>, entries[Nr(k)].address,
                        entries[Nr(k)].size, entries[Nr(k)].offset)
      BY <2>3
    <3> HIDE DEF T
    <3> QED
      BY <3>1, <3>2, <3>3 DEF Region, Entries
  <2> HIDE DEF T, Nr
  <2>6. \A a : <<a>> # Golden
    BY DEF Golden
  <2> QED
    BY <2>2, <2>4, <2>5, <2>6
<1> QED
  BY <1>1, <1>2

LEMMA HeldFacts ==
    ASSUME NEW r, r.size \in Nat
    PROVE  /\ Plain(Held(r)) /\ Len(Held(r)) <= r.size
           /\ \A i \in 1 .. Len(Held(r)) : Held(r)[i] = Flash[r.address + i - 1]
<1> DEFINE there == {i \in 1 .. r.size : \A j \in 1 .. i : r.address + j - 1 \in DOMAIN Flash}
           h == [i \in 1 .. Cardinality(there) |-> Flash[r.address + i - 1]]
<1>1. Held(r) = h
  BY DEF Held
<1>2. IsFiniteSet(1 .. r.size) /\ Cardinality(1 .. r.size) = r.size
  BY FS_Interval
<1>3. there \in SUBSET (1 .. r.size)
  OBVIOUS
<1> HIDE DEF there
<1>4. Cardinality(there) \in Nat /\ Cardinality(there) <= r.size
  BY <1>2, <1>3, FS_Subset, FS_CardinalityType
<1>5. PICK n \in Nat : n = Cardinality(there)
  BY <1>4
<1>6. Len(h) = n /\ \A i \in 1 .. n : h[i] = Flash[r.address + i - 1]
  BY <1>5
<1>7. h = [i \in 1 .. n |-> h[i]]
  BY <1>5, <1>6
<1> HIDE DEF h
<1> QED
  BY <1>1, <1>4, <1>5, <1>6, <1>7 DEF Plain

\* The regions are those of the call and of the entries.
LEMMA TargetsStay ==
    ASSUME UNCHANGED <<cmd, entries>>
    PROVE  Targets' = Targets
BY DEF Targets, Partitions, OfPac!WithRole, OfPac!Classify, OfPac!Logical
----
(***************************************************************************)
(* Splicing.                                                               *)
(***************************************************************************)
\* A partition lies in the reference, behind its table.
LEMMA PartitionsAreInside ==
    ASSUME cmd \in Commands, Parses(cmd.file), entries = Rows(cmd.file),
           cmd.kind = "clone", NEW k \in 1 .. Len(Targets)
    PROVE  /\ Targets[k].offset + Targets[k].size <= Len(cmd.file)
           /\ \A i \in 1 .. cmd.file[1].table + cmd.file[1].count : ~Shares(Targets[k], i)
<1>1. entries \in Seq(Entries) /\ DOMAIN entries = DOMAIN Rows(cmd.file)
  BY RowFacts
<1>2. PICK j \in DOMAIN entries : /\ entries[j].size # 0 /\ entries[j].size = Targets[k].size
                                  /\ entries[j].offset = Targets[k].offset
  BY <1>1, TargetFacts
<1>3. /\ Targets[k].offset >= cmd.file[1].table + cmd.file[1].count
      /\ Targets[k].offset + Targets[k].size <= Len(cmd.file)
  BY <1>1, <1>2, RowFacts
<1>4. /\ Targets[k].offset \in Nat /\ cmd.file[1].table \in Nat /\ cmd.file[1].count \in Nat
  BY <1>1, TargetFacts, FileFacts
<1>5. PICK a \in Nat, b \in Nat : a = Targets[k].offset
                                /\ b = cmd.file[1].table + cmd.file[1].count
  BY <1>4
<1>6. \A i \in 1 .. b : i \notin a + 1 .. a + Targets[k].size
  BY <1>3, <1>5
<1> QED
  BY <1>3, <1>5, <1>6 DEF Shares

LEMMA SplicedFacts ==
    ASSUME Plain(out), NEW r, NEW d
    PROVE  /\ Plain(Spliced(r, d)) /\ Len(Spliced(r, d)) = Len(out)
           /\ \A i \in 1 .. Len(out) :
                 Spliced(r, d)[i] = IF i \in r.offset + 1 .. r.offset + Len(d)
                                    THEN d[i - r.offset] ELSE out[i]
<1>1. PICK n \in Nat : n = Len(out) /\ DOMAIN out = 1 .. n
  BY PlainSeq DEF Plain
<1> DEFINE s == [i \in 1 .. n |-> IF i \in r.offset + 1 .. r.offset + Len(d)
                                  THEN d[i - r.offset] ELSE out[i]]
<1>2. Spliced(r, d) = s
  BY <1>1 DEF Spliced
<1>3. Len(s) = n
  OBVIOUS
<1>4. s = [i \in 1 .. n |-> s[i]]
  OBVIOUS
<1>5. \A i \in 1 .. n : s[i] = IF i \in r.offset + 1 .. r.offset + Len(d)
                               THEN d[i - r.offset] ELSE out[i]
  OBVIOUS
<1> HIDE DEF s
<1> QED
  BY <1>1, <1>2, <1>3, <1>4, <1>5 DEF Plain

LEMMA SpliceNext ==
    ASSUME cmd \in Commands, entries \in Seq(Entries), Plain(out), DumpInv,
           SplicedTo(out, done), This \in 1 .. Len(dumps),
           Len(dumps[This]) = Targets[This].size
    PROVE  SplicedTo(Spliced(Targets[This], dumps[This]), This)
<1> DEFINE r == Targets[This]
           d == dumps[This]
           s == Spliced(r, d)
           held == Held(r)
<1>1. /\ r.size \in Nat /\ r.offset \in Nat /\ r.address \in Nat /\ done \in Nat
      /\ Len(Targets) \in Nat
  BY TargetFacts DEF DumpInv, Plain
<1>2. PICK n \in 0 .. Len(held) : d = SubSeq(held, 1, n)
  BY DEF DumpInv
<1>3. /\ Plain(held) /\ \A i \in 1 .. Len(held) : held[i] = Flash[r.address + i - 1]
  BY <1>1, HeldFacts
<1>4. Len(d) = n /\ \A i \in 1 .. n : d[i] = held[i]
  BY <1>2, <1>3, OverEmpty
<1>5. n = r.size
  BY <1>4
<1>6. Len(s) = Len(out) /\ Len(out) \in Nat
      /\ \A i \in 1 .. Len(out) : s[i] = IF Shares(r, i) THEN d[i - r.offset] ELSE out[i]
  BY <1>4, <1>5, SplicedFacts DEF Shares, Plain
<1> HIDE DEF r, d, s, held
<1>7. SUFFICES ASSUME NEW i \in 1 .. Len(out)
      PROVE  /\ (\A k \in 1 .. This : ~Shares(Targets[k], i)) => s[i] = cmd.file[i]
             /\ \A k \in 1 .. This :
                   Shares(Targets[k], i) /\ (\A l \in k + 1 .. This : ~Shares(Targets[l], i)) =>
                      s[i] = Flash[Targets[k].address + i - Targets[k].offset - 1]
  BY <1>6 DEF SplicedTo, r, d, s
<1>8. This = done + 1
  BY DEF This
<1>9. CASE Shares(r, i)
  <2>0. i \in Nat
    BY <1>6
  <2>1. i \in Nat /\ i - r.offset \in 1 .. n
    BY <1>1, <1>5, <1>9, <2>0 DEF Shares
  <2>2. n \in Nat /\ n <= Len(held) /\ Len(held) \in Nat
    <3>1. Len(held) \in Nat
      BY <1>3 DEF Plain
    <3> DEFINE m == Len(held)
    <3> HIDE DEF m
    <3>2. n \in 0 .. m /\ m \in Nat
      BY <1>2, <3>1 DEF m
    <3>3. n \in Nat /\ n <= m
      BY <3>2
    <3> QED
      BY <3>1, <3>3 DEF m
  <2>3. s[i] = d[i - r.offset] /\ d[i - r.offset] = held[i - r.offset]
    BY <1>4, <1>6, <1>9, <2>1
  <2>4. held[i - r.offset] = Flash[r.address + (i - r.offset) - 1]
    BY <1>3, <2>1, <2>2
  <2>5. r.address + (i - r.offset) - 1 = r.address + i - r.offset - 1
    BY <1>1, <2>1
  <2>6. s[i] = Flash[r.address + i - r.offset - 1]
    BY <2>3, <2>4, <2>5
  <2>7. Shares(Targets[This], i)
    BY <1>9 DEF r
  <2>8. \A k \in 1 .. This : (\A l \in k + 1 .. This : ~Shares(Targets[l], i)) => k = This
    BY <1>1, <1>8, <2>7
  <2>9. This \in 1 .. This
    BY <1>1, <1>8
  <2> QED
    BY <2>6, <2>7, <2>8, <2>9 DEF r
<1>10. CASE ~Shares(r, i)
  <2>1. s[i] = out[i]
    BY <1>6, <1>10
  <2>2. /\ (\A k \in 1 .. done : ~Shares(Targets[k], i)) => out[i] = cmd.file[i]
        /\ \A k \in 1 .. done :
              Shares(Targets[k], i) /\ (\A l \in k + 1 .. done : ~Shares(Targets[l], i)) =>
                 out[i] = Flash[Targets[k].address + i - Targets[k].offset - 1]
    BY DEF SplicedTo
  <2>3. \A k \in 1 .. done : k \in 1 .. This /\ \A l \in k + 1 .. done : l \in k + 1 .. This
    BY <1>1, <1>8
  <2>4. \A k \in 1 .. This : Shares(Targets[k], i) => k \in 1 .. done
    BY <1>1, <1>8, <1>10 DEF r
  <2> QED
    BY <2>1, <2>2, <2>3, <2>4
<1> QED
  BY <1>9, <1>10

\* What Refresh makes of the copy when everything is spliced is the PAC of the module.
LEMMA RefreshIsCaptured ==
    ASSUME StageInv, DumpInv, pc = "splice", Plain(out), Len(out) = Len(cmd.file),
           SplicedTo(out, Len(Targets)),
           NEW h, h = [out[1] EXCEPT !.crc1 = HeaderBody(out[1]), !.crc2 = Tail(out)],
           NEW new, new = [out EXCEPT ![1] = h], Complete(new)
    PROVE  Plain(new) /\ GoldenIsCaptured(new)
<1>1. /\ cmd \in Commands /\ entries \in Seq(Entries) /\ cmd.kind = "clone"
      /\ Parses(cmd.file) /\ entries = Rows(cmd.file)
  BY DEF StageInv, Late, WriteStates
<1>2. PICK n \in Nat : n = Len(out) /\ DOMAIN out = 1 .. n /\ n >= 1 /\ n = Len(cmd.file)
  BY <1>1, PlainSeq, FileFacts DEF Plain
<1>3. PICK t \in Nat, c \in Nat : t = cmd.file[1].table /\ c = cmd.file[1].count /\ t > 0
  BY <1>1, FileFacts
<1>4. t + c <= n
  BY <1>1, <1>2, <1>3 DEF Parses
<1>5. PICK m \in Nat : m = Len(Targets) /\ DOMAIN Targets = 1 .. m
  BY <1>1, TargetFacts
<1>6. \A k \in 1 .. m : \A i \in 1 .. t + c : ~Shares(Targets[k], i)
  BY <1>1, <1>3, <1>5, PartitionsAreInside
<1>7. \A i \in 1 .. t + c : out[i] = cmd.file[i]
  <2>1. SUFFICES ASSUME NEW i \in 1 .. t + c PROVE out[i] = cmd.file[i]
    OBVIOUS
  <2>2. i \in 1 .. Len(out)
    BY <1>2, <1>4
  <2> QED
    BY <1>5, <1>6, <2>2 DEF SplicedTo
<1>8. h.count = c /\ h.table = t
  <2>1. 1 \in 1 .. t + c
    BY <1>3
  <2>2. out[1] = cmd.file[1]
    BY <1>7, <2>1
  <2>3. DOMAIN out[1] = {"size", "count", "table", "crc1", "crc2"}
    BY <1>1, <2>2, FileFacts
  <2> QED
    BY <1>3, <2>2, <2>3
<1>9. /\ DOMAIN new = 1 .. n /\ new[1] = h /\ \A i \in 2 .. n : new[i] = out[i]
  <2>1. new = [i \in 1 .. n |-> IF i = 1 THEN h ELSE out[i]]
    BY <1>2
  <2>2. 1 \in 1 .. n /\ \A i \in 2 .. n : i \in 1 .. n /\ i # 1
    BY <1>2
  <2> QED
    BY <2>1, <2>2
<1>10. new = [i \in 1 .. n |-> new[i]] /\ Len(new) = n
  <2>1. new = [i \in 1 .. n |-> IF i = 1 THEN h ELSE out[i]]
    BY <1>2
  <2>2. Len([i \in 1 .. n |-> IF i = 1 THEN h ELSE out[i]]) = n
    OBVIOUS
  <2>3. [i \in 1 .. n |-> IF i = 1 THEN h ELSE out[i]] =
           [i \in 1 .. n |-> [j \in 1 .. n |-> IF j = 1 THEN h ELSE out[j]][i]]
    OBVIOUS
  <2> QED
    BY <2>1, <2>2, <2>3
<1>11. Plain(new)
  BY <1>10 DEF Plain
<1>12. Rows(new) = entries
  <2>1. \A i \in 1 .. c : new[t + i] = cmd.file[t + i]
    <3>1. \A i \in 1 .. c : t + i \in 2 .. n /\ t + i \in 1 .. t + c
      BY <1>2, <1>3, <1>4
    <3> QED
      BY <1>7, <1>9, <3>1
  <2>2. Rows(new) = [i \in 1 .. c |-> new[t + i]]
    BY <1>8, <1>9 DEF Rows
  <2>3. Rows(cmd.file) = [i \in 1 .. c |-> cmd.file[t + i]]
    BY <1>3 DEF Rows
  <2>4. [i \in 1 .. c |-> new[t + i]] = [i \in 1 .. c |-> cmd.file[t + i]]
    BY <2>1
  <2> QED
    BY <1>1, <2>2, <2>3, <2>4
<1>13. ASSUME NEW i \in 2 .. Len(new)
       PROVE  LET claims == {k \in DOMAIN Targets : Shares(Targets[k], i)}
              IN  IF claims = {} THEN new[i] = cmd.file[i]
                  ELSE LET r == Targets[CHOOSE k \in claims : \A l \in claims : l <= k]
                       IN  new[i] = Flash[r.address + i - r.offset - 1]
  <2> DEFINE claims == {k \in 1 .. m : Shares(Targets[k], i)}
             last == CHOOSE k \in claims : \A l \in claims : l <= k
  <2>1. new[i] = out[i] /\ i \in 1 .. Len(out)
    BY <1>2, <1>9, <1>10
  <2>2. CASE claims = {}
    <3>1. \A k \in 1 .. Len(Targets) : ~Shares(Targets[k], i)
      BY <1>5, <2>2
    <3>2. out[i] = cmd.file[i]
      BY <2>1, <3>1 DEF SplicedTo
    <3> QED
      BY <1>5, <2>1, <2>2, <3>2
  <2>3. CASE claims # {}
    <3>1. claims \subseteq 1 .. m
      OBVIOUS
    <3> HIDE DEF claims
    <3>2. last \in claims /\ \A l \in claims : l <= last
      <4>1. \E k \in claims : \A l \in claims : l <= k
        BY <2>3, <3>1, GreatestBelow
      <4> QED
        BY <4>1
    <3> HIDE DEF last
    <3>3. last \in 1 .. m /\ Shares(Targets[last], i)
      BY <3>2 DEF claims
    <3>4. \A l \in last + 1 .. m : ~Shares(Targets[l], i)
      <4>1. SUFFICES ASSUME NEW l \in last + 1 .. m, Shares(Targets[l], i) PROVE FALSE
        OBVIOUS
      <4>2. l \in 1 .. m
        BY <3>3
      <4>3. l \in claims
        BY <4>1, <4>2 DEF claims
      <4>4. l <= last
        BY <3>2, <4>3
      <4> QED
        BY <3>3, <4>4
    <3>5. out[i] = Flash[Targets[last].address + i - Targets[last].offset - 1]
      BY <1>5, <2>1, <3>3, <3>4 DEF SplicedTo
    <3> QED
      BY <1>5, <2>1, <2>3, <3>5 DEF claims, last
  <2> QED
    BY <2>2, <2>3
<1>14. Len(new) = Len(cmd.file)
  BY <1>2, <1>10
<1> QED
  BY <1>11, <1>12, <1>13, <1>14 DEF GoldenIsCaptured
----
(***************************************************************************)
(* The steps up to the write.                                              *)
(***************************************************************************)
LEMMA TargetsTyped ==
    cmd \in Commands /\ entries \in Seq(Entries) => Len(Targets) \in Nat
BY TargetFacts

LEMMA DumpsStay ==
    ASSUME DumpInv, UNCHANGED <<cmd, entries, dumps>>, done' \in Nat, done' <= Len(dumps)
    PROVE  DumpInv'
<1>1. Targets' = Targets
  BY TargetsStay
<1>2. (Plain(dumps) /\ Len(dumps) <= Len(Targets) /\ done \in Nat /\ done <= Len(dumps))'
  BY <1>1 DEF DumpInv, Plain
<1> QED
  BY <1>1, <1>2 DEF DumpInv, Held

\* The last conjunct of GoldenIsCaptured, for regions T and a reference f.
IsClaimed(T, f, g, i) ==
    LET claims == {k \in DOMAIN T : Shares(T[k], i)}
    IN  IF claims = {} THEN g[i] = f[i]
        ELSE LET r == T[CHOOSE k \in claims : \A l \in claims : l <= k]
             IN  g[i] = Flash[r.address + i - r.offset - 1]

LEMMA GoldenStays ==
    ASSUME UNCHANGED <<cmd, entries>>, NEW g, out' = g, GoldenIsCaptured(g)
    PROVE  GoldenIsCaptured(out)'
<1>1. Targets' = Targets
  BY TargetsStay
<1>2. Complete(out)'
  BY DEF GoldenIsCaptured, Complete, Rows, Parses, CrcOk, InFile, HeaderCrcOk, PayloadCrcOk,
     HeaderBody
<1>3. (Rows(out) = entries /\ Len(out) = Len(cmd.file))'
  BY DEF GoldenIsCaptured, Rows
<1>4. \A i \in 2 .. Len(g) : IsClaimed(Targets, cmd.file, g, i)
  BY DEF GoldenIsCaptured, IsClaimed
<1>5. \A i \in 2 .. Len(out') : IsClaimed(Targets', cmd'.file, out', i)
  BY <1>1, <1>4
<1> QED
  BY <1>2, <1>3, <1>5 DEF GoldenIsCaptured, IsClaimed

LEMMA FailStep == ASSUME CaptureInv, Fail PROVE CaptureInv'
<1>1. UNCHANGED <<cmd, entries, dumps, done, out, disk, module>> /\ pc' = "failed"
  BY DEF Fail, Goto
<1>2. Targets' = Targets
  BY <1>1, TargetsStay
<1>3. StageInv'
  <2>1. StageInv
    BY DEF CaptureInv
  <2> QED
    BY <1>1, <2>1 DEF StageInv, Early, Late, WriteStates
<1>4. DumpInv'
  BY <1>1, <1>2 DEF CaptureInv, DumpInv, Plain, Held
<1> QED
  BY <1>1, <1>3, <1>4 DEF CaptureInv, SpliceInv, WriteInv, WriteStates

LEMMA ParseStep == ASSUME CaptureInv, Parse PROVE CaptureInv'
<1>1. /\ pc = "parse" /\ pc' = "plan" /\ Parses(cmd.file) /\ entries' = Rows(cmd.file)
      /\ UNCHANGED <<cmd, dumps, done, out, disk, module>>
  BY DEF Parse, Goto
<1>2. StageInv
  BY DEF CaptureInv
<1>3. entries' \in Seq(Entries)
  BY <1>1, <1>2, RowFacts DEF StageInv
<1>4. dumps = <<>> /\ done = 0
  BY <1>1, <1>2 DEF StageInv, Early
<1>5. StageInv'
  <2>1. Parses(cmd.file)' /\ Rows(cmd.file)' = Rows(cmd.file)
    BY <1>1 DEF Parses, Rows, InFile
  <2> QED
    BY <1>1, <1>2, <1>3, <1>4, <2>1 DEF StageInv, Early, Late, WriteStates
<1>6. DumpInv'
  <2>1. (cmd \in Commands /\ entries \in Seq(Entries))'
    BY <1>1, <1>2, <1>3 DEF StageInv
  <2>2. (Len(Targets) \in Nat)'
    BY <2>1, TargetsTyped, PTL
  <2>3. Plain(dumps)'
    BY <1>1 DEF CaptureInv, DumpInv, Plain
  <2>4. Len(dumps') = 0
    BY <1>1, <1>4
  <2> QED
    BY <1>1, <1>4, <2>2, <2>3, <2>4 DEF DumpInv
<1> QED
  BY <1>1, <1>5, <1>6 DEF CaptureInv, SpliceInv, WriteInv, WriteStates

LEMMA BuildPlanStep == ASSUME CaptureInv, BuildPlan \/ BringUp PROVE CaptureInv'
<1>1. /\ UNCHANGED <<cmd, entries, dumps, done, out, disk>>
      /\ \/ pc = "plan" /\ pc' = "connect" /\ Targets # <<>> /\ module' = module
         \/ pc = "connect" /\ pc' = "read" /\ module' = "fdl2"
  BY DEF BuildPlan, BringUp, Planned, Goto
<1>2. StageInv
  BY DEF CaptureInv
<1>3. Targets' = Targets
  BY <1>1, TargetsStay
<1>4. StageInv'
  <2>1. Parses(cmd.file)' = Parses(cmd.file) /\ Rows(cmd.file)' = Rows(cmd.file)
    BY <1>1 DEF Parses, Rows, InFile
  <2> QED
    BY <1>1, <1>2, <1>3, <2>1 DEF StageInv, Early, Late, WriteStates
<1>5. DumpInv'
  BY <1>1, <1>3 DEF CaptureInv, DumpInv, Plain, Held
<1> QED
  BY <1>1, <1>4, <1>5 DEF CaptureInv, SpliceInv, WriteInv, WriteStates

LEMMA ReadStep == ASSUME CaptureInv, ReadRegion PROVE CaptureInv'
<1> DEFINE here == Held(Targets[Len(dumps) + 1])
<1>1. /\ UNCHANGED <<cmd, pc, entries, done, out, disk, module>>
      /\ pc = "read" /\ Len(dumps) < Len(Targets)
      /\ \E n \in 0 .. Len(here) : dumps' = Append(dumps, SubSeq(here, 1, n))
  BY DEF ReadRegion
<1>2. StageInv /\ DumpInv
  BY DEF CaptureInv
<1>3. Targets' = Targets
  BY <1>1, TargetsStay
<1>4. StageInv'
  <2>1. Parses(cmd.file)' = Parses(cmd.file) /\ Rows(cmd.file)' = Rows(cmd.file)
    BY <1>1 DEF Parses, Rows, InFile
  <2> QED
    BY <1>1, <1>2, <1>3, <2>1 DEF StageInv, Early, Late, WriteStates
<1>5. DumpInv'
  <2>1. PICK n \in 0 .. Len(here) : dumps' = Append(dumps, SubSeq(here, 1, n))
    BY <1>1
  <2>2. Plain(dumps) /\ Len(dumps) \in Nat /\ Len(Targets) \in Nat
    BY <1>2, TargetFacts DEF DumpInv, Plain, StageInv
  <2> DEFINE new == SubSeq(here, 1, n)
             g == Append(dumps, new)
  <2>3. /\ Plain(g) /\ Len(g) = Len(dumps) + 1 /\ g[Len(dumps) + 1] = new
        /\ \A i \in 1 .. Len(dumps) : g[i] = dumps[i]
    BY <2>2, PlainAppend
  <2> HIDE DEF g
  <2>4. dumps' = g
    BY <2>1 DEF g
  <2>5. ASSUME NEW k \in 1 .. Len(g)
        PROVE  \E m \in 0 .. Len(Held(Targets[k])) : g[k] = SubSeq(Held(Targets[k]), 1, m)
    <3>1. CASE k = Len(dumps) + 1
      BY <2>3, <3>1
    <3>2. CASE k # Len(dumps) + 1
      <4>1. k \in 1 .. Len(dumps) /\ g[k] = dumps[k]
        BY <2>2, <2>3, <3>2
      <4> QED
        BY <1>2, <4>1 DEF DumpInv
    <3> QED
      BY <3>1, <3>2
  <2>6. Plain(dumps)'
    BY <2>3, <2>4 DEF Plain
  <2>7. \A r : Held(r)' = Held(r)
    BY DEF Held
  <2>8. (Len(dumps) <= Len(Targets) /\ done \in Nat /\ done <= Len(dumps))'
    BY <1>1, <1>2, <1>3, <2>2, <2>3, <2>4 DEF DumpInv
  <2> HIDE DEF here
  <2>9. \A k \in 1 .. Len(g) :
           \E m \in 0 .. Len(Held(Targets[k])) : g[k] = SubSeq(Held(Targets[k]), 1, m)
    BY <2>5
  <2> QED
    BY <1>3, <2>4, <2>6, <2>8, <2>9 DEF DumpInv, Held
<1> QED
  BY <1>1, <1>4, <1>5 DEF CaptureInv, SpliceInv, WriteInv, WriteStates

\* Reset copies the reference; in a dump the first file is about to be written.
LEMMA ResetStep == ASSUME CaptureInv, Reset PROVE CaptureInv'
<1>1. /\ UNCHANGED <<cmd, entries, dumps, done, disk>>
      /\ pc = "read" /\ Len(dumps) = Len(Targets) /\ module' = "app" /\ out' = cmd.file
      /\ pc' = IF cmd.kind = "clone" THEN "splice" ELSE "write"
  BY DEF Reset, Goto
<1>2. StageInv /\ DumpInv
  BY DEF CaptureInv
<1>3. Targets' = Targets
  BY <1>1, TargetsStay
<1>4. StageInv'
  <2>1. Parses(cmd.file)' = Parses(cmd.file) /\ Rows(cmd.file)' = Rows(cmd.file)
    BY <1>1 DEF Parses, Rows, InFile
  <2> QED
    BY <1>1, <1>2, <1>3, <2>1 DEF StageInv, Early, Late, WriteStates
<1>5. DumpInv'
  BY <1>1, <1>2, <1>3 DEF DumpInv, Plain, Held
<1>6. done = 0 /\ done' = 0 /\ cmd \in Commands
  BY <1>1, <1>2 DEF StageInv, Early
<1>7. SpliceInv'
  <2>1. Plain(cmd.file)
    BY <1>6, FileFacts
  <2>2. SplicedTo(cmd.file, 0)'
    BY <1>1 DEF SplicedTo
  <2> QED
    BY <1>1, <1>6, <2>1, <2>2 DEF SpliceInv, Plain, SplicedTo
<1>8. WriteInv'
  <2>1. CASE cmd.kind = "clone"
    BY <1>1, <2>1 DEF WriteInv, WriteStates
  <2>2. CASE cmd.kind # "clone"
    <3>1. Files' = [k \in DOMAIN dumps |-> [name |-> Targets[k].name, data |-> dumps[k]]]
      BY <1>1, <1>3, <2>2 DEF Files
    <3>2. DOMAIN dumps = 1 .. Len(dumps) /\ Len(dumps) \in Nat
      BY <1>2, PlainSeq DEF DumpInv, Plain
    <3>3. Len(Files') \in Nat
      BY <3>1, <3>2
    <3> QED
      BY <1>1, <1>6, <2>2, <3>3 DEF WriteInv, WriteStates
  <2> QED
    BY <2>1, <2>2
<1> QED
  BY <1>4, <1>5, <1>7, <1>8 DEF CaptureInv

LEMMA SpliceStep == ASSUME CaptureInv, Splice PROVE CaptureInv'
<1>1. /\ UNCHANGED <<cmd, entries, dumps, disk, module>>
      /\ pc = "splice" /\ done < Len(dumps) /\ Len(dumps[This]) = Targets[This].size
      /\ pc' = IF Targets[This].offset + Targets[This].size > Len(out) THEN "panic" ELSE pc
      /\ out' = Spliced(Targets[This], dumps[This]) /\ done' = This
  BY DEF Splice, Splicing
<1>2. /\ StageInv /\ DumpInv /\ Plain(out) /\ Len(out) = Len(cmd.file) /\ SplicedTo(out, done)
  BY <1>1 DEF CaptureInv, SpliceInv
<1>3. Targets' = Targets
  BY <1>1, TargetsStay
<1>4. /\ cmd \in Commands /\ entries \in Seq(Entries) /\ cmd.kind = "clone"
      /\ Parses(cmd.file) /\ entries = Rows(cmd.file) /\ Len(dumps) = Len(Targets)
  BY <1>1, <1>2 DEF StageInv, Late, WriteStates
<1>5. This \in 1 .. Len(dumps) /\ This = done + 1 /\ Len(dumps) \in Nat /\ done \in Nat
  BY <1>1, <1>2 DEF DumpInv, This, Plain
<1>6. pc' = "splice"
  <2>1. Targets[This].offset + Targets[This].size <= Len(cmd.file)
    BY <1>4, <1>5, PartitionsAreInside
  <2>2. /\ Targets[This].offset \in Nat /\ Targets[This].size \in Nat /\ Len(cmd.file) \in Nat
    BY <1>4, <1>5, TargetFacts, FileFacts DEF Plain
  <2> QED
    BY <1>1, <1>2, <2>1, <2>2
<1>7. StageInv'
  <2>1. Parses(cmd.file)' = Parses(cmd.file) /\ Rows(cmd.file)' = Rows(cmd.file)
    BY <1>1 DEF Parses, Rows, InFile
  <2> QED
    BY <1>1, <1>2, <1>3, <1>6, <2>1 DEF StageInv, Early, Late, WriteStates
<1>8. DumpInv'
  <2>1. done' \in Nat /\ done' <= Len(dumps)
    BY <1>1, <1>5
  <2> QED
    BY <1>1, <1>2, <2>1, DumpsStay
<1>9. SpliceInv'
  <2>1. Plain(out') /\ Len(out') = Len(cmd.file)
    BY <1>1, <1>2, SplicedFacts
  <2>2. SplicedTo(Spliced(Targets[This], dumps[This]), This)
    BY <1>1, <1>2, <1>4, <1>5, SpliceNext
  <2> QED
    BY <1>1, <1>3, <2>1, <2>2 DEF SpliceInv, SplicedTo, Plain
<1> QED
  BY <1>6, <1>7, <1>8, <1>9 DEF CaptureInv, WriteInv, WriteStates

LEMMA RefreshStep == ASSUME CaptureInv, Refresh PROVE CaptureInv'
<1> DEFINE h == [out[1] EXCEPT !.crc1 = HeaderBody(out[1]), !.crc2 = Tail(out)]
           new == [out EXCEPT ![1] = h]
<1>1. /\ UNCHANGED <<cmd, entries, dumps, disk, module>>
      /\ pc = "splice" /\ done = Len(dumps) /\ out' = new /\ done' = 0
      /\ pc' = IF Parses(new) /\ CrcOk(new, TRUE) THEN "write" ELSE "failed"
  BY DEF Refresh, Goto
<1>2. /\ StageInv /\ DumpInv /\ Plain(out) /\ Len(out) = Len(cmd.file) /\ SplicedTo(out, done)
  BY <1>1 DEF CaptureInv, SpliceInv
<1>3. Targets' = Targets
  BY <1>1, TargetsStay
<1>4. /\ Len(dumps) = Len(Targets) /\ cmd.kind = "clone"
  BY <1>1, <1>2 DEF StageInv, Late, WriteStates
<1>5. StageInv'
  <2>1. Parses(cmd.file)' = Parses(cmd.file) /\ Rows(cmd.file)' = Rows(cmd.file)
    BY <1>1 DEF Parses, Rows, InFile
  <2> QED
    BY <1>1, <1>2, <1>3, <1>4, <2>1 DEF StageInv, Early, Late, WriteStates
<1>6. DumpInv'
  <2>1. done' \in Nat /\ done' <= Len(dumps)
    BY <1>1, <1>2 DEF DumpInv, Plain
  <2> QED
    BY <1>1, <1>2, <2>1, DumpsStay
<1>7. WriteInv'
  <2>1. CASE pc' # "write"
    BY <1>1, <2>1 DEF WriteInv, WriteStates
  <2>2. CASE pc' = "write"
    <3>1. Complete(new)
      BY <1>1, <2>2 DEF Complete
    <3>2. PICK hh : hh = h
      OBVIOUS
    <3>3. PICK nn : nn = [out EXCEPT ![1] = hh]
      OBVIOUS
    <3>4. Complete(nn) /\ out' = nn
      BY <1>1, <3>1, <3>2, <3>3
    <3> HIDE DEF new
    <3>5. Plain(nn) /\ GoldenIsCaptured(nn)
      BY <1>1, <1>2, <1>4, <3>2, <3>3, <3>4, RefreshIsCaptured
    <3>6. (Plain(out) /\ GoldenIsCaptured(out))'
      <4>1. Plain(out)'
        BY <3>4, <3>5 DEF Plain
      <4>2. GoldenIsCaptured(out)'
        BY <1>1, <3>4, <3>5, GoldenStays
      <4> QED
        BY <4>1, <4>2
    <3>7. Len(Files') = 1
      BY <1>1, <1>4 DEF Files
    <3> QED
      BY <1>1, <2>2, <3>6, <3>7 DEF WriteInv
  <2> QED
    BY <2>1, <2>2
<1> QED
  BY <1>1, <1>5, <1>6, <1>7 DEF CaptureInv, SpliceInv

----
(***************************************************************************)
(* The write.                                                              *)
(***************************************************************************)
LEMMA FilesFacts ==
    ASSUME StageInv, DumpInv, WriteInv, pc \in WriteStates
    PROVE  /\ Len(Files) \in Nat
           /\ \A k \in 1 .. Len(Files) : Plain(Files[k].data)
           /\ cmd.kind = "clone" =>
                 Len(Files) = 1 /\ Files[1].name = Golden /\ Files[1].data = out
           /\ cmd.kind # "clone" =>
                 /\ Len(Files) = Len(dumps)
                 /\ \A k \in 1 .. Len(Files) :
                       /\ Files[k].name = Targets[k].name /\ Files[k].name # Golden
                       /\ Files[k].data = dumps[k]
<1>1. CASE cmd.kind = "clone"
  <2>1. Files = <<[name |-> Golden, data |-> out]>>
    BY <1>1 DEF Files
  <2>2. Plain(out)
    BY <1>1 DEF WriteInv
  <2> QED
    BY <1>1, <2>1, <2>2
<1>2. CASE cmd.kind # "clone"
  <2>1. PICK n \in Nat : n = Len(dumps) /\ DOMAIN dumps = 1 .. n
    BY PlainSeq DEF DumpInv, Plain
  <2> DEFINE F == [k \in 1 .. n |-> [name |-> Targets[k].name, data |-> dumps[k]]]
  <2>2. Files = F
    BY <1>2, <2>1 DEF Files
  <2>3. Len(F) = n /\ \A k \in 1 .. n : F[k].name = Targets[k].name /\ F[k].data = dumps[k]
    OBVIOUS
  <2> HIDE DEF F
  <2>4. cmd \in Commands /\ entries \in Seq(Entries) /\ n <= Len(Targets)
    BY <2>1 DEF StageInv, DumpInv
  <2>5. ASSUME NEW k \in 1 .. n PROVE Targets[k].name # Golden /\ Plain(dumps[k])
    <3>1. k \in 1 .. Len(Targets)
      BY <2>4, TargetFacts
    <3>2. Targets[k].size \in Nat /\ Targets[k].name # Golden
      BY <2>4, <3>1, TargetFacts
    <3>3. PICK m \in 0 .. Len(Held(Targets[k])) : dumps[k] = SubSeq(Held(Targets[k]), 1, m)
      BY <2>1 DEF DumpInv
    <3> QED
      BY <3>2, <3>3, HeldFacts, OverEmpty
  <2> QED
    BY <1>2, <2>1, <2>2, <2>3, <2>5
<1> QED
  BY <1>1, <1>2

LEMMA FilesStay ==
    ASSUME UNCHANGED <<cmd, entries, dumps, out>>
    PROVE  Files' = Files
<1>1. Targets' = Targets
  BY TargetsStay
<1> QED
  BY <1>1 DEF Files

\* What a step of the write leaves alone.
LEMMA WriteFrame ==
    ASSUME CaptureInv, UNCHANGED <<cmd, entries, dumps, out, module>>, pc \in WriteStates,
           pc' \in WriteStates \cup {"failed"}, done' \in Nat, done' <= Len(dumps)
    PROVE  /\ StageInv' /\ DumpInv' /\ SpliceInv' /\ Files' = Files
           /\ pc \in WriteStates /\ (cmd.kind = "clone" => Plain(out) /\ GoldenIsCaptured(out))'
<1>1. StageInv /\ DumpInv /\ Targets' = Targets
  BY TargetsStay DEF CaptureInv
<1>2. StageInv'
  <2>1. Parses(cmd.file)' = Parses(cmd.file) /\ Rows(cmd.file)' = Rows(cmd.file)
    BY DEF Parses, Rows, InFile
  <2> QED
    BY <1>1, <2>1 DEF StageInv, Early, Late, WriteStates
<1>3. DumpInv'
  BY <1>1, DumpsStay
<1>4. (cmd.kind = "clone" => Plain(out) /\ GoldenIsCaptured(out))'
  <2> SUFFICES ASSUME cmd.kind = "clone" PROVE (Plain(out) /\ GoldenIsCaptured(out))'
    OBVIOUS
  <2>1. PICK g : g = out
    OBVIOUS
  <2>2. Plain(out) /\ GoldenIsCaptured(g)
    BY <2>1 DEF CaptureInv, WriteInv
  <2>3. Plain(out)'
    BY <2>2 DEF Plain
  <2>4. GoldenIsCaptured(out)'
    BY <2>1, <2>2, GoldenStays
  <2> QED
    BY <2>3, <2>4
<1> QED
  BY <1>2, <1>3, <1>4, FilesStay DEF SpliceInv, WriteStates

LEMMA TruncateStep == ASSUME CaptureInv, Truncate PROVE CaptureInv'
<1>1. /\ UNCHANGED <<cmd, entries, dumps, done, out, module>>
      /\ pc = "write" /\ done < Len(Files) /\ pc' = "writing" /\ Put(Files[This].name, <<>>)
  BY DEF Truncate, Goto
<1>2. StageInv /\ DumpInv /\ WriteInv /\ done \in Nat /\ done <= Len(dumps)
  BY DEF CaptureInv, DumpInv
<1>3. /\ StageInv' /\ DumpInv' /\ SpliceInv' /\ Files' = Files
      /\ (cmd.kind = "clone" => Plain(out) /\ GoldenIsCaptured(out))'
  BY <1>1, <1>2, WriteFrame DEF WriteStates
<1> DEFINE F == Files
           nm == F[This].name
<1>4. /\ This = done + 1 /\ This' = done + 1 /\ Begun = done /\ Begun' = done + 1
      /\ Len(F) \in Nat /\ This \in 1 .. Len(F)
  BY <1>1, <1>2, FilesFacts DEF This, Begun, WriteStates
<1> HIDE DEF F
<1>5. /\ nm \in DOMAIN disk' /\ disk'[nm] = <<>>
      /\ \A f \in DOMAIN disk : f \in DOMAIN disk' /\ (f # nm => disk'[f] = disk[f])
  BY <1>1 DEF Put, F
<1>6. ASSUME NEW k \in 1 .. done, \A l \in k + 1 .. done + 1 : F[l].name # F[k].name
      PROVE  F[k].name \in DOMAIN disk' /\ disk'[F[k].name] = F[k].data
  <2>1. done + 1 \in k + 1 .. done + 1 /\ \A l \in k + 1 .. done : l \in k + 1 .. done + 1
    BY <1>2
  <2>2. F[k].name # nm
    BY <1>4, <1>6, <2>1
  <2>3. F[k].name \in DOMAIN disk /\ disk[F[k].name] = F[k].data
    BY <1>1, <1>2, <1>4, <1>6, <2>1 DEF WriteInv, WriteStates, F
  <2> QED
    BY <1>5, <2>2, <2>3
<1>7. WriteInv'
  <2>1. Files' = F
    BY <1>3 DEF F
  <2>2. done' <= Len(F) /\ done' < Len(F)
    <3>1. done' = done /\ done < Len(F)
      BY <1>1 DEF F
    <3> QED
      BY <1>2, <1>4, <3>1
  <2>3. \A k \in 1 .. done' :
           (\A l \in k + 1 .. Begun' : F[l].name # F[k].name) =>
               F[k].name \in DOMAIN disk' /\ disk'[F[k].name] = F[k].data
    BY <1>1, <1>4, <1>6
  <2>4. F[This'].name \in DOMAIN disk' /\ disk'[F[This'].name] = <<>>
    BY <1>4, <1>5
  <2> QED
    BY <1>1, <1>3, <2>1, <2>2, <2>3, <2>4 DEF WriteInv
<1> QED
  BY <1>3, <1>7 DEF CaptureInv

\* A write begins in an empty file: n units of it are the first n of what is written.
LEMMA WrittenFacts ==
    ASSUME CaptureInv, pc = "writing", NEW n \in 0 .. Len(Files[This].data)
    PROVE  /\ This \in 1 .. Len(Files) /\ Len(Files) \in Nat /\ Plain(Files[This].data)
           /\ Len(Written(n)) = n /\ \A i \in 1 .. n : Written(n)[i] = Files[This].data[i]
           /\ n = Len(Files[This].data) => Written(n) = Files[This].data
<1>1. /\ StageInv /\ DumpInv /\ WriteInv /\ done \in Nat /\ pc \in WriteStates
      /\ disk[Files[This].name] = <<>> /\ done < Len(Files)
  BY DEF CaptureInv, DumpInv, WriteInv, WriteStates
<1>2. This \in 1 .. Len(Files) /\ Len(Files) \in Nat
  BY <1>1, FilesFacts DEF This
<1>3. Plain(Files[This].data)
  BY <1>1, <1>2, FilesFacts
<1>4. Written(n) = SubSeq(Files[This].data, 1, n) \o SubSeq(<<>>, n + 1, Len(<<>>))
  BY <1>1 DEF Written
<1> QED
  BY <1>2, <1>3, <1>4, OverEmpty

LEMMA WriteStep == ASSUME CaptureInv, Write PROVE CaptureInv'
<1> DEFINE F == Files
           nm == F[This].name
           data == F[This].data
<1>1. /\ UNCHANGED <<cmd, entries, dumps, out, module>>
      /\ pc = "writing" /\ done' = This /\ pc' = "write"
      /\ Put(nm, Written(Len(data)))
  BY DEF Write, Goto
<1>2. StageInv /\ DumpInv /\ WriteInv /\ done \in Nat /\ pc \in WriteStates
  BY <1>1 DEF CaptureInv, DumpInv, WriteStates
<1>3. This = done + 1 /\ Begun = done + 1 /\ Begun' = done + 1 /\ done' = done + 1
  BY <1>1 DEF This, Begun
<1>4. /\ This \in 1 .. Len(F) /\ Len(F) \in Nat /\ Written(Len(data)) = data
  <2>1. done < Len(F) /\ Len(F) \in Nat
    BY <1>1, <1>2, FilesFacts DEF WriteInv, WriteStates
  <2>2. This \in 1 .. Len(F)
    BY <1>2, <1>3, <2>1
  <2>3. Len(data) \in 0 .. Len(data)
    BY <1>2, <2>2, FilesFacts DEF Plain
  <2> QED
    BY <1>1, <2>1, <2>2, <2>3, WrittenFacts
<1>5. done' \in Nat /\ done' <= Len(dumps)
  <2>1. CASE cmd.kind = "clone"
    <3>1. Len(F) = 1
      BY <1>2, <2>1, FilesFacts
    <3>2. Targets # <<>> /\ Len(dumps) = Len(Targets) /\ Len(Targets) \in Nat
      BY <1>1, <1>2, TargetFacts DEF StageInv, Late, WriteStates
    <3>3. Len(dumps) # 0
      BY <1>2, <3>2, PlainSeq, TargetFacts DEF StageInv
    <3> QED
      BY <1>2, <1>3, <1>4, <3>1, <3>2, <3>3
  <2>2. CASE cmd.kind # "clone"
    <3>1. Len(F) = Len(dumps)
      BY <1>2, <2>2, FilesFacts
    <3> QED
      BY <1>2, <1>3, <1>4, <3>1
  <2> QED
    BY <2>1, <2>2
<1>6. /\ StageInv' /\ DumpInv' /\ SpliceInv' /\ Files' = Files
      /\ (cmd.kind = "clone" => Plain(out) /\ GoldenIsCaptured(out))'
  BY <1>1, <1>2, <1>5, WriteFrame DEF WriteStates
<1> HIDE DEF F
<1>7. /\ nm \in DOMAIN disk' /\ disk'[nm] = data
      /\ \A f \in DOMAIN disk : f \in DOMAIN disk' /\ (f # nm => disk'[f] = disk[f])
  BY <1>1, <1>4 DEF Put
<1>8. ASSUME NEW k \in 1 .. done + 1, \A l \in k + 1 .. done + 1 : F[l].name # F[k].name
      PROVE  F[k].name \in DOMAIN disk' /\ disk'[F[k].name] = F[k].data
  <2>1. CASE k = done + 1
    BY <1>3, <1>7, <2>1
  <2>2. CASE k # done + 1
    <3>1. k \in 1 .. done /\ done + 1 \in k + 1 .. done + 1
      BY <1>2, <2>2
    <3>2. F[k].name # nm
      BY <1>3, <1>8, <3>1
    <3>3. F[k].name \in DOMAIN disk /\ disk[F[k].name] = F[k].data
      BY <1>2, <1>3, <1>8, <3>1 DEF WriteInv, F
    <3> QED
      BY <1>7, <3>2, <3>3
  <2> QED
    BY <2>1, <2>2
<1>9. WriteInv'
  <2>1. Files' = F
    BY <1>6 DEF F
  <2>2. done' <= Len(F)
    BY <1>3, <1>4
  <2>3. \A k \in 1 .. done' :
           (\A l \in k + 1 .. Begun' : F[l].name # F[k].name) =>
               F[k].name \in DOMAIN disk' /\ disk'[F[k].name] = F[k].data
    BY <1>3, <1>8
  <2> QED
    BY <1>1, <1>6, <2>1, <2>2, <2>3 DEF WriteInv
<1> QED
  BY <1>6, <1>9 DEF CaptureInv

LEMMA TornStep == ASSUME CaptureInv, Torn PROVE CaptureInv'
<1>1. /\ UNCHANGED <<cmd, entries, dumps, done, out, module>>
      /\ pc = "writing" /\ pc' = "failed"
  BY DEF Torn, Goto
<1>2. done \in Nat /\ done <= Len(dumps)
  BY DEF CaptureInv, DumpInv
<1>3. StageInv' /\ DumpInv' /\ SpliceInv'
  BY <1>1, <1>2, WriteFrame DEF WriteStates
<1> QED
  BY <1>1, <1>3 DEF CaptureInv, WriteInv, WriteStates

LEMMA FinishStep == ASSUME CaptureInv, Finish PROVE CaptureInv'
<1>1. /\ UNCHANGED <<cmd, entries, dumps, done, out, disk, module>>
      /\ pc = "write" /\ done = Len(Files) /\ pc' = "ok"
  BY DEF Finish, Goto
<1>2. WriteInv /\ done \in Nat /\ done <= Len(dumps)
  BY DEF CaptureInv, DumpInv
<1>3. /\ StageInv' /\ DumpInv' /\ SpliceInv' /\ Files' = Files
      /\ (cmd.kind = "clone" => Plain(out) /\ GoldenIsCaptured(out))'
  BY <1>1, <1>2, WriteFrame DEF WriteStates
<1>4. Begun = done /\ Begun' = done
  BY <1>1 DEF Begun
<1>5. WriteInv'
  BY <1>1, <1>2, <1>3, <1>4 DEF WriteInv, WriteStates
<1> QED
  BY <1>3, <1>5 DEF CaptureInv

LEMMA CaptureInit == Init => CaptureInv
<1> SUFFICES ASSUME Init PROVE CaptureInv
  OBVIOUS
<1>1. Len(Targets) \in Nat
  <2>1. cmd \in Commands /\ entries \in Seq(Entries)
    BY DEF Init
  <2> QED
    BY <2>1, TargetFacts
<1>2. StageInv
  BY DEF Init, StageInv, Early, Late, WriteStates
<1>3. DumpInv
  <2>1. dumps = <<>> /\ done = 0 /\ Len(dumps) = 0
    BY DEF Init
  <2>2. <<>> = [i \in 1 .. 0 |-> <<>>[i]]
    OBVIOUS
  <2> QED
    BY <1>1, <2>1, <2>2 DEF DumpInv, Plain
<1> QED
  BY <1>2, <1>3 DEF Init, CaptureInv, SpliceInv, WriteInv, WriteStates

LEMMA CaptureStep == CaptureInv /\ [Next]_vars => CaptureInv'
<1> SUFFICES ASSUME CaptureInv, [Next]_vars PROVE CaptureInv'
  OBVIOUS
<1>1. CASE ParseFails \/ PlanFails \/ BringUpFails \/ ReadFails \/ ShortRead
  BY <1>1, FailStep DEF ParseFails, PlanFails, BringUpFails, ReadFails, ShortRead
<1>2. CASE Parse \/ BuildPlan \/ BringUp \/ ReadRegion \/ Reset
  BY <1>2, ParseStep, BuildPlanStep, ReadStep, ResetStep
<1>3. CASE Splice \/ Refresh
  BY <1>3, SpliceStep, RefreshStep
<1>4. CASE Truncate \/ Write \/ Torn \/ Finish
  BY <1>4, TruncateStep, WriteStep, TornStep, FinishStep
<1>5. CASE UNCHANGED vars
  <2>1. UNCHANGED <<cmd, pc, entries, dumps, done, out, disk, module>>
    BY <1>5 DEF vars
  <2>2. DumpInv' /\ Targets' = Targets /\ Files' = Files
    BY <2>1, DumpsStay, TargetsStay, FilesStay DEF CaptureInv, DumpInv
  <2>3. StageInv'
    <3>1. Parses(cmd.file)' = Parses(cmd.file) /\ Rows(cmd.file)' = Rows(cmd.file)
      BY <2>1 DEF Parses, Rows, InFile
    <3> QED
      BY <2>1, <2>2, <3>1 DEF CaptureInv, StageInv, Early, Late, WriteStates
  <2>4. SpliceInv'
    BY <2>1, <2>2 DEF CaptureInv, SpliceInv, SplicedTo, Plain, Shares
  <2>5. WriteInv'
    <3>1. CASE pc \in WriteStates
      <4>1. (cmd.kind = "clone" => Plain(out) /\ GoldenIsCaptured(out))'
        BY <2>1, <3>1, WriteFrame DEF CaptureInv, DumpInv
      <4>2. Begun' = Begun /\ This' = This
        BY <2>1 DEF Begun, This
      <4> QED
        BY <2>1, <2>2, <4>1, <4>2 DEF CaptureInv, WriteInv
    <3>2. CASE pc \notin WriteStates
      BY <2>1, <3>2 DEF WriteInv
    <3> QED
      BY <3>1, <3>2
  <2> QED
    BY <2>2, <2>3, <2>4, <2>5 DEF CaptureInv
<1> QED
  BY <1>1, <1>2, <1>3, <1>4, <1>5 DEF Next

LEMMA CaptureInvariant == Spec => []CaptureInv
BY CaptureInit, CaptureStep, PTL DEF Spec

----
(***************************************************************************)
(* The theorems.                                                           *)
(***************************************************************************)
\* The variables have their types, and nothing is read beyond its region.
THEOREM TypeCorrect == Spec => []TypeOK
<1>1. CaptureInv => TypeOK
  <2> SUFFICES ASSUME CaptureInv PROVE TypeOK
    OBVIOUS
  <2>1. StageInv /\ DumpInv
    BY DEF CaptureInv
  <2>2. DOMAIN dumps = 1 .. Len(dumps) /\ Len(dumps) \in Nat /\ Len(dumps) <= Len(Targets)
    BY <2>1, PlainSeq DEF DumpInv, Plain
  <2>3. ASSUME NEW k \in DOMAIN dumps PROVE Len(dumps[k]) <= Targets[k].size
    <3>1. Len(Targets) \in Nat
      BY <2>1, TargetFacts DEF StageInv
    <3>2. k \in 1 .. Len(Targets)
      BY <2>2, <3>1
    <3>3. Targets[k].size \in Nat
      BY <2>1, <3>2, TargetFacts DEF StageInv
    <3>4. PICK m \in 0 .. Len(Held(Targets[k])) : dumps[k] = SubSeq(Held(Targets[k]), 1, m)
      BY <2>1, <2>2 DEF DumpInv
    <3>5. Plain(Held(Targets[k])) /\ Len(Held(Targets[k])) <= Targets[k].size
      BY <3>3, HeldFacts
    <3>6. Len(dumps[k]) = m
      BY <3>4, <3>5, OverEmpty
    <3> QED
      BY <3>3, <3>5, <3>6 DEF Plain
  <2> QED
    BY <2>1, <2>2, <2>3 DEF TypeOK, StageInv, DumpInv, Early, Late, WriteStates
<1> QED
  BY <1>1, CaptureInvariant, PTL

\* clone never slices its copy of the PAC out of range, whatever the PAC says of its
\* partitions: parse has looked at every entry it slices with.
THEOREM CloneNeverPanics == Spec => []NeverPanics
<1>1. CaptureInv => NeverPanics
  BY DEF CaptureInv, StageInv, NeverPanics
<1> QED
  BY <1>1, CaptureInvariant, PTL

\* A command that ends well has written the flash of the module, for every PAC, flash
\* and disk, and has reset the module.
THEOREM CapturedIsWritten == Spec => []WrittenIsCaptured
<1>1. CaptureInv => WrittenIsCaptured
  <2> SUFFICES ASSUME CaptureInv, pc = "ok"
               PROVE  /\ module = "app"
                      /\ IF cmd.kind = "clone" THEN GoldenIsCaptured(disk[Golden])
                         ELSE FilesAreCaptured
    BY DEF WrittenIsCaptured
  <2>1. /\ StageInv /\ DumpInv /\ WriteInv /\ pc \in WriteStates /\ done = Len(Files)
        /\ Begun = done /\ module = "app" /\ Len(dumps) = Len(Targets)
    BY DEF CaptureInv, WriteInv, WriteStates, Begun, StageInv, Late
  <2>2. \A k \in 1 .. Len(Files) :
           (\A l \in k + 1 .. Len(Files) : Files[l].name # Files[k].name) =>
               disk[Files[k].name] = Files[k].data
    BY <2>1 DEF WriteInv
  <2>3. CASE cmd.kind = "clone"
    <3>1. Len(Files) = 1 /\ Files[1].name = Golden /\ Files[1].data = out
      BY <2>1, <2>3, FilesFacts
    <3>2. disk[Golden] = out
      BY <2>2, <3>1
    <3> QED
      BY <2>1, <2>3, <3>2 DEF WriteInv
  <2>4. CASE cmd.kind # "clone"
    <3>1. PICK n \in Nat : n = Len(Targets) /\ DOMAIN Targets = 1 .. n
      BY <2>1, TargetFacts DEF StageInv
    <3>2. /\ Len(Files) = n
          /\ \A k \in 1 .. n : Files[k].name = Targets[k].name /\ Files[k].data = dumps[k]
      BY <2>1, <2>4, <3>1, FilesFacts
    <3>3. ASSUME NEW k \in 1 .. n,
                 \A l \in 1 .. n : Targets[l].name = Targets[k].name => l <= k
          PROVE  disk[Targets[k].name]
                    = SubSeq(Held(Targets[k]), 1, Len(disk[Targets[k].name]))
      <4>1. \A l \in k + 1 .. n : l \in 1 .. n /\ ~(l <= k)
        OBVIOUS
      <4>2. \A l \in k + 1 .. n : Files[l].name # Files[k].name
        BY <3>2, <3>3, <4>1
      <4>3. disk[Targets[k].name] = dumps[k]
        BY <2>2, <3>2, <4>2
      <4>4. Targets[k].size \in Nat
        BY <2>1, <3>1, TargetFacts DEF StageInv
      <4>5. PICK m \in 0 .. Len(Held(Targets[k])) : dumps[k] = SubSeq(Held(Targets[k]), 1, m)
        BY <2>1, <3>1 DEF DumpInv
      <4>6. Len(dumps[k]) = m
        BY <4>4, <4>5, HeldFacts, OverEmpty
      <4> QED
        BY <4>3, <4>5, <4>6
    <3>4. FilesAreCaptured
      BY <3>1, <3>3 DEF FilesAreCaptured
    <3> QED
      BY <2>1, <2>4, <3>4
  <2> QED
    BY <2>3, <2>4
<1> QED
  BY <1>1, CaptureInvariant, PTL

\* What lies at the golden path beforehand is a whole PAC or one that does not parse.
DisksAreSound ==
    \A d \in Disks : Golden \in DOMAIN d /\ Parses(d[Golden]) => Complete(d[Golden])

LEMMA TornStays == CaptureInv /\ TornIsRefused /\ [Next]_vars => TornIsRefused'
<1> SUFFICES ASSUME CaptureInv, TornIsRefused, [Next]_vars PROVE TornIsRefused'
  OBVIOUS
<1>1. CASE disk' = disk
  BY <1>1 DEF TornIsRefused, Complete, Parses, CrcOk, InFile, Rows, HeaderCrcOk,
     PayloadCrcOk, HeaderBody
<1>2. ASSUME NEW nm, NEW data, Put(nm, data),
             nm = Golden => (Parses(data) => Complete(data))
      PROVE  TornIsRefused'
  <2>1. /\ nm = Golden => disk'[Golden] = data
        /\ nm # Golden /\ Golden \in DOMAIN disk' =>
              Golden \in DOMAIN disk /\ disk'[Golden] = disk[Golden]
    BY <1>2 DEF Put
  <2>2. CASE nm = Golden
    BY <1>2, <2>1, <2>2 DEF TornIsRefused
  <2>3. CASE nm # Golden
    BY <2>1, <2>3 DEF TornIsRefused
  <2> QED
    BY <2>2, <2>3
<1>3. CASE Truncate
  <2>1. ~Parses(<<>>)
    BY DEF Parses
  <2> QED
    BY <1>2, <1>3, <2>1 DEF Truncate
<1> DEFINE F == Files
           nm == F[This].name
           data == F[This].data
<1>4. ASSUME pc = "writing"
      PROVE  /\ Plain(data)
             /\ nm = Golden => data = out /\ Complete(out)
             /\ \A n \in 0 .. Len(data) :
                   /\ Len(Written(n)) = n /\ \A i \in 1 .. n : Written(n)[i] = data[i]
                   /\ n = Len(data) => Written(n) = data
  <2>1. StageInv /\ DumpInv /\ WriteInv /\ pc \in WriteStates
    BY <1>4 DEF CaptureInv, WriteStates
  <2>2. /\ done < Len(F) /\ Len(F) \in Nat /\ done \in Nat
    BY <1>4, <2>1, FilesFacts DEF WriteInv, DumpInv
  <2>3. This \in 1 .. Len(F) /\ (Len(F) = 1 => This = 1)
    <3>1. PICK n \in Nat : n = Len(F)
      BY <2>2
    <3> HIDE DEF F
    <3> QED
      BY <2>2, <3>1 DEF This
  <2>4. Plain(data)
    BY <2>1, <2>3, FilesFacts
  <2>5. nm = Golden => data = out /\ Complete(out)
    BY <2>1, <2>3, FilesFacts DEF WriteInv, GoldenIsCaptured
  <2> QED
    BY <1>4, <2>4, <2>5, WrittenFacts
<1>5. CASE Write
  <2>1. pc = "writing" /\ Put(nm, Written(Len(data)))
    BY <1>5 DEF Write
  <2>2. Written(Len(data)) = data
    <3>1. Plain(data)
      BY <1>4, <2>1
    <3>2. Len(data) \in 0 .. Len(data)
      BY <3>1 DEF Plain
    <3> QED
      BY <1>4, <2>1, <3>2
  <2> QED
    BY <1>2, <1>4, <2>1, <2>2
<1>6. CASE Torn
  <2>1. PICK n \in 0 .. Len(data) - 1 : pc = "writing" /\ Put(nm, Written(n))
    BY <1>6 DEF Torn
  <2>2. nm = Golden => ~Parses(Written(n))
    <3> SUFFICES ASSUME nm = Golden, Parses(Written(n)) PROVE FALSE
      OBVIOUS
    <3>1. Plain(data) /\ data = out /\ Complete(out)
      BY <1>4, <2>1
    <3>2. PICK m \in Nat : m = Len(data)
      BY <3>1 DEF Plain
    <3>3. n \in 0 .. m /\ n < m
      BY <3>2
    <3>4. Len(Written(n)) = n /\ \A i \in 1 .. n : Written(n)[i] = data[i]
      BY <1>4, <2>1, <3>2, <3>3
    <3>5. n >= 1 /\ Written(n)[1].size = n
      BY <3>4 DEF Parses
    <3>6. Written(n)[1] = data[1]
      BY <3>3, <3>4, <3>5
    <3>7. data[1].size = m
      BY <3>1, <3>2 DEF Complete, Parses
    <3> QED
      BY <3>3, <3>5, <3>6, <3>7
  <2> QED
    BY <1>2, <2>1, <2>2
<1>7. Truncate \/ Write \/ Torn \/ disk' = disk
  BY DEF Next, vars, Parse, ParseFails, BuildPlan, PlanFails, BringUp, BringUpFails,
     ReadRegion, ReadFails, Reset, Splice, ShortRead, Refresh, Finish, Fail
<1> QED
  BY <1>1, <1>3, <1>5, <1>6, <1>7

\* Whatever is interrupted, a file at the golden path that parses is a whole PAC.
THEOREM TornRefused == DisksAreSound => (Spec => []TornIsRefused)
<1> SUFFICES ASSUME DisksAreSound PROVE Spec => []TornIsRefused
  OBVIOUS
<1>1. Init => TornIsRefused
  BY DEF Init, TornIsRefused, DisksAreSound
<1> QED
  BY <1>1, CaptureInvariant, TornStays, PTL DEF Spec
====

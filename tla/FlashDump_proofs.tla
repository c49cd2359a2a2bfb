---- MODULE FlashDump_proofs ----
(***************************************************************************)
(* Theorems about FlashDump, for every flash length, block size, cap and   *)
(* read chunk, and for a device that cuts its replies as it likes.         *)
(***************************************************************************)
EXTENDS FlashDump, SequenceTheorems, TLAPS

LEMMA SizeIsNat == TypeOK => Size \in Nat /\ Wanted \in Int /\ Offset \in Nat /\ chip \in Nat
<1> SUFFICES ASSUME TypeOK PROVE Size \in Nat /\ Wanted \in Int /\ Offset \in Nat /\ chip \in Nat
  OBVIOUS
<1>1. \A a, b \in Nat : a * b \in Nat
  OBVIOUS
<1>2. Size \in Nat /\ chip \in Nat
  BY <1>1, ParameterAssumption DEF TypeOK, Size
<1>3. Len(image) \in Nat /\ Len(part) \in Nat
  BY DEF TypeOK
<1> QED
  BY <1>2, <1>3, ParameterAssumption DEF Wanted, Offset, Smaller

LEMMA ContentsType ==
    ASSUME NEW off \in Nat, NEW n \in Nat
    PROVE  /\ Contents(off, n) \in Seq(Nat)
           /\ Len(Contents(off, n)) = n
           /\ \A i \in 1 .. n : Contents(off, n)[i] = off + i - 1
<1>1. Contents(off, n) \in [1 .. n -> Nat]
  BY DEF Contents
<1>2. \A f \in [1 .. n -> Nat] : f \in Seq(Nat) /\ Len(f) = n
  OBVIOUS
<1> QED
  BY <1>1, <1>2 DEF Contents

LEMMA ConcatThree ==
    ASSUME NEW s \in Seq(Nat), NEW t \in Seq(Nat), NEW u \in Seq(Nat)
    PROVE  /\ s \o (t \o u) \in Seq(Nat)
           /\ Len(s \o (t \o u)) = Len(s) + Len(t) + Len(u)
           /\ s \o (t \o u) = (s \o t) \o u
<1>1. t \o u \in Seq(Nat) /\ Len(t \o u) = Len(t) + Len(u)
  BY ConcatProperties
<1>2. \A v \in Seq(Nat) : s \o v \in Seq(Nat) /\ Len(s \o v) = Len(s) + Len(v)
  BY ConcatProperties
<1>3. (s \o t) \o u = s \o (t \o u)
  BY ConcatAssociative
<1>4. Len(s) \in Nat /\ Len(t) \in Nat /\ Len(u) \in Nat
  OBVIOUS
<1>5. Len(s \o (t \o u)) = Len(s) + (Len(t) + Len(u))
  BY <1>1, <1>2
<1> QED
  BY <1>1, <1>2, <1>3, <1>4, <1>5

\* Contents that follow contents without a gap are contents.
LEMMA ContentsGrow ==
    ASSUME NEW s \in Seq(Nat), NEW off \in Nat, NEW n \in Nat, s = Contents(off, Len(s))
    PROVE  s \o Contents(off + Len(s), n) = Contents(off, Len(s) + n)
<1> DEFINE t == Contents(off + Len(s), n)
           u == Contents(off, Len(s) + n)
<1>1. t \in Seq(Nat) /\ Len(t) = n /\ \A i \in 1 .. n : t[i] = off + Len(s) + i - 1
  <2>1. off + Len(s) \in Nat
    OBVIOUS
  <2> QED
    BY <2>1, ContentsType
<1>2. /\ u \in Seq(Nat) /\ Len(u) = Len(s) + n
      /\ \A i \in 1 .. Len(s) + n : u[i] = off + i - 1
  <2>1. Len(s) + n \in Nat
    OBVIOUS
  <2> QED
    BY <2>1, ContentsType
<1>3. \A i \in 1 .. Len(s) : s[i] = off + i - 1
  BY DEF Contents
<1> HIDE DEF t, u
<1>4. /\ s \o t \in Seq(Nat) /\ Len(s \o t) = Len(s) + n
      /\ \A i \in 1 .. Len(s) + n :
            (s \o t)[i] = IF i <= Len(s) THEN s[i] ELSE t[i - Len(s)]
  BY <1>1, ConcatProperties
<1>5. Len(s) \in Nat
  OBVIOUS
<1>6. \A i \in 1 .. Len(s) + n : (s \o t)[i] = u[i]
  <2> SUFFICES ASSUME NEW i \in 1 .. Len(s) + n PROVE (s \o t)[i] = u[i]
    OBVIOUS
  <2>1. CASE i <= Len(s)
    BY <1>2, <1>3, <1>4, <1>5, <2>1
  <2>2. CASE ~(i <= Len(s))
    BY <1>1, <1>2, <1>4, <1>5, <2>2
  <2> QED
    BY <2>1, <2>2
<1>7. s \o t = u
  BY <1>2, <1>4, <1>6, SeqEqual
<1> QED
  BY <1>7 DEF t, u

\* How long a reply can be.
LEMMA ReplyLength ==
    ASSUME TypeOK, Len(part) < Wanted, Offset < chip, NEW n \in Lengths
    PROVE  n \in Nat /\ n <= Wanted - Len(part) /\ Offset + n <= chip
<1>1. /\ Wanted - Len(part) \in Nat /\ chip - Offset \in Nat
  BY SizeIsNat DEF TypeOK
<1>2. /\ Smaller(Wanted - Len(part), chip - Offset) \in Nat
      /\ Smaller(Wanted - Len(part), chip - Offset) <= Wanted - Len(part)
      /\ Smaller(Wanted - Len(part), chip - Offset) <= chip - Offset
  BY <1>1 DEF Smaller
<1>3. n = 0 \/ n = Smaller(Wanted - Len(part), chip - Offset)
        \/ n \in 1 .. Smaller(Wanted - Len(part), chip - Offset)
  BY DEF Lengths
<1>4. Wanted \in Int /\ Offset \in Nat /\ chip \in Nat /\ Len(part) \in Nat
  BY SizeIsNat DEF TypeOK
<1> QED
  BY <1>1, <1>2, <1>3, <1>4

LEMMA InitInv == Init => DumpInv
<1> SUFFICES ASSUME Init PROVE DumpInv
  OBVIOUS
<1>1. TypeOK
  BY ParameterAssumption DEF Init, TypeOK, Sized
<1>2. Bracket /\ RequestBounds
  BY DEF Init, Bracket, RequestBounds, Sized
<1>3. ImageIsFlash
  <2>1. << >> \o << >> = << >> /\ Len(<< >>) = 0
    OBVIOUS
  <2>2. Contents(0, 0) = << >>
    BY DEF Contents
  <2> QED
    BY <1>1, <2>1, <2>2, SizeIsNat DEF Init, ImageIsFlash, Offset
<1> QED
  BY <1>1, <1>2, <1>3 DEF Init, DumpInv

\* The search keeps the bracket and collects nothing.
LEMMA SearchStep ==
    DumpInv /\ (ProbeBase \/ GrowToCap \/ Grow \/ Bisect \/ SizeFound) => DumpInv'
<1> SUFFICES ASSUME DumpInv, ProbeBase \/ GrowToCap \/ Grow \/ Bisect \/ SizeFound
             PROVE  DumpInv'
  OBVIOUS
<1> USE DEF Running
<1>1. /\ TypeOK /\ Bracket /\ RequestBounds /\ ImageIsFlash
      /\ pc \in {"base", "grow", "bisect"} /\ image = << >> /\ part = << >>
      /\ UNCHANGED <<chip, faults, image, part>>
  BY DEF DumpInv, RequestBounds, Sized, ProbeBase, GrowToCap, Grow, Bisect, SizeFound
<1>2. /\ lo \in Nat /\ hi \in Nat /\ step \in Nat /\ step > 0
      /\ First \in Nat /\ First > 0 /\ Cap \in Nat /\ Cap > 0
  BY <1>1, ParameterAssumption DEF TypeOK
<1>3. pc = "bisect" /\ ~Narrow => Mid \in Nat /\ lo < Mid /\ Mid < hi
  BY <1>1, <1>2 DEF Bracket, Sized, Narrow, Mid
<1>4. pc = "bisect" /\ Narrow => hi = lo + 1
  BY <1>1, <1>2 DEF Bracket, Sized, Narrow, Mid
<1>5. TypeOK'
  BY <1>1, <1>2, <1>3 DEF TypeOK, Sized, ProbeBase, GrowToCap, Grow, Bisect, SizeFound
<1>6. \A b : InRange(b)' = InRange(b)
  BY <1>1 DEF InRange
<1>7. Bracket'
  <2>1. CASE ProbeBase
    BY <1>1, <1>2, <1>6, <2>1 DEF ProbeBase, Bracket, Sized
  <2>2. CASE GrowToCap
    BY <1>1, <1>2, <1>6, <2>2 DEF GrowToCap, Bracket, Sized
  <2>3. CASE Grow
    BY <1>1, <1>2, <1>6, <2>3 DEF Grow, Bracket, Sized
  <2>4. CASE Bisect
    BY <1>1, <1>2, <1>3, <1>6, <2>4 DEF Bisect, Bracket, Sized
  <2>5. CASE SizeFound
    BY <1>1, <1>2, <1>4, <1>6, <2>5 DEF SizeFound, Bracket, Sized
  <2> QED
    BY <2>1, <2>2, <2>3, <2>4, <2>5
<1>8. RequestBounds'
  <2>1. Len(image') = 0 /\ part' = << >> /\ image' = << >>
    BY <1>1
  <2>2. Size' \in Nat
    <3>1. hi' \in Nat /\ \A a, b \in Nat : a * b \in Nat
      BY <1>5 DEF TypeOK
    <3> QED
      BY <3>1, ParameterAssumption DEF Size
  <2> QED
    BY <2>1, <2>2 DEF RequestBounds
<1>9. ImageIsFlash'
  BY <1>1 DEF ImageIsFlash, Offset
<1>10. pc' \notin {"done", "cut"} /\ outcome' # "ok"
  BY <1>1 DEF ProbeBase, GrowToCap, Grow, Bisect, SizeFound
<1> QED
  BY <1>5, <1>7, <1>8, <1>9, <1>10 DEF DumpInv
\* The read loop keeps its bounds, and appends nothing but what comes next.
LEMMA ReadStep ==
    DumpInv /\ (ReadRefused \/ ReadData \/ ReadNothing \/ Finish) => DumpInv'
<1> SUFFICES ASSUME DumpInv, ReadRefused \/ ReadData \/ ReadNothing \/ Finish
             PROVE  DumpInv'
  OBVIOUS
<1> USE DEF Running
<1>1. /\ TypeOK /\ Bracket /\ RequestBounds /\ ImageIsFlash /\ pc = "read"
      /\ UNCHANGED <<chip, faults, lo, hi, step>>
  BY DEF DumpInv, ReadRefused, ReadData, ReadNothing, Finish
<1>2. /\ Size \in Nat /\ Size' = Size /\ Wanted \in Int /\ Offset \in Nat /\ chip \in Nat
      /\ ReadChunk \in Nat /\ ReadChunk > 0
  BY <1>1, SizeIsNat, ParameterAssumption DEF Size
<1>3. /\ image \in Seq(Nat) /\ part \in Seq(Nat) /\ Len(image) \in Nat /\ Len(part) \in Nat
      /\ image \o part \in Seq(Nat) /\ Len(image \o part) = Offset
      /\ Len(<< >>) = 0 /\ << >> \in Seq(Nat) /\ (part = << >> <=> Len(part) = 0)
  BY <1>1, ConcatProperties, EmptySeq DEF TypeOK, Offset
<1>4. \A b : InRange(b)' = InRange(b)
  BY <1>1 DEF InRange
<1>5. pc' \in Sized => Bracket'
  BY <1>1, <1>4 DEF Bracket, Sized
<1>6. Len(image) <= Size /\ (part # << >> => Len(part) < Wanted)
  BY <1>1 DEF RequestBounds, Sized
<1>7. Len(image) < Size => Len(part) < Wanted /\ Wanted <= ReadChunk /\ Wanted <= Size - Len(image)
  BY <1>2, <1>3, <1>6 DEF Wanted, Smaller
<1>8. UNCHANGED <<image, part>> => RequestBounds' /\ ImageIsFlash'
  <2> SUFFICES ASSUME UNCHANGED <<image, part>> PROVE RequestBounds' /\ ImageIsFlash'
    OBVIOUS
  <2>1. Wanted' = Wanted /\ Offset' = Offset /\ pc' \in Sized
    BY <1>1, <1>2 DEF Wanted, Offset, ReadRefused, ReadData, ReadNothing, Finish, Sized
  <2> QED
    BY <1>1, <1>2, <2>1 DEF RequestBounds, ImageIsFlash, Sized
<1>9. CASE ReadRefused
  BY <1>1, <1>5, <1>8, <1>9 DEF ReadRefused, DumpInv, TypeOK, Sized
<1>10. CASE Finish
  <2>1. Len(image) = Size
    BY <1>2, <1>3, <1>6, <1>10 DEF Finish
  <2>2. Len(image') = Size'
    BY <1>2, <1>10, <2>1 DEF Finish
  <2> QED
    BY <1>1, <1>5, <1>8, <1>10, <2>2 DEF Finish, DumpInv, TypeOK, Sized
<1>11. CASE ReadData
  <2>1. PICK n \in Lengths \ {0} :
          LET all == part \o Contents(Offset, n)
          IN  IF Len(all) < Wanted
              THEN part' = all /\ UNCHANGED image
              ELSE part' = << >> /\ image' = image \o all
    BY <1>11 DEF ReadData
  <2>2. /\ Len(image) < Size /\ Offset < chip /\ pc' = "read"
        /\ outcome = "running" /\ outcome' = outcome
    BY <1>1, <1>11 DEF ReadData
  <2>3. n \in Nat /\ n > 0 /\ n <= Wanted - Len(part) /\ Offset + n <= chip
    BY <1>1, <1>7, <2>1, <2>2, ReplyLength
  <2> DEFINE new == Contents(Offset, n)
             all == part \o new
  <2>4. new \in Seq(Nat) /\ Len(new) = n
    BY <1>2, <2>3, ContentsType
  <2> HIDE DEF new
  <2>5. all \in Seq(Nat) /\ Len(all) = Len(part) + n
    BY <1>3, <2>4, ConcatProperties
  <2>6. /\ image \o all \in Seq(Nat) /\ Len(image \o all) = Len(image) + Len(part) + n
        /\ image \o all = (image \o part) \o new
    <3>1. image \in Seq(Nat) /\ part \in Seq(Nat) /\ new \in Seq(Nat)
      BY <1>3, <2>4
    <3>2. /\ image \o all \in Seq(Nat)
          /\ Len(image \o all) = Len(image) + Len(part) + Len(new)
          /\ image \o all = (image \o part) \o new
      BY <3>1, ConcatThree, Zenon
    <3> QED
      BY <2>4, <3>2
  <2>7. image \o all = Contents(0, Offset + n)
    <3>1. image \o part = Contents(0, Offset)
      BY <1>1 DEF ImageIsFlash
    <3> DEFINE s == image \o part
    <3>2. s \in Seq(Nat) /\ s = Contents(0, Len(s)) /\ Len(s) = Offset /\ 0 + Len(s) = Offset
      BY <1>2, <1>3, <3>1
    <3> HIDE DEF s
    <3>3. s \o Contents(0 + Len(s), n) = Contents(0, Len(s) + n)
      BY <2>3, <3>2, ContentsGrow
    <3>4. s \o new = Contents(0, Offset + n)
      BY <3>2, <3>3 DEF new
    <3> QED
      BY <2>6, <3>4 DEF s
  <2>8. \/ part' = all /\ image' = image /\ Len(all) < Wanted
        \/ part' = << >> /\ image' = image \o all
    BY <2>1 DEF new
  <2> HIDE DEF all
  <2>9. TypeOK'
    BY <1>1, <1>3, <2>2, <2>5, <2>6, <2>8 DEF TypeOK
  <2>10. image' \o part' = image \o all
    BY <1>3, <2>6, <2>8, ConcatEmptySeq
  <2>11. Offset' = Offset + n
    BY <1>2, <1>3, <2>3, <2>5, <2>6, <2>8 DEF Offset
  <2>12. ImageIsFlash'
    BY <1>1, <2>3, <2>7, <2>10, <2>11 DEF ImageIsFlash
  <2>13. Wanted' = Wanted \/ part' = << >>
    BY <1>2, <2>8 DEF Wanted
  <2>14. Len(image') <= Size'
    BY <1>2, <1>3, <1>7, <2>2, <2>3, <2>6, <2>8
  <2>15. RequestBounds'
    BY <2>2, <2>8, <2>13, <2>14 DEF RequestBounds, Sized
  <2> QED
    BY <1>5, <2>2, <2>9, <2>12, <2>15 DEF DumpInv, Sized
<1>12. CASE ReadNothing
  <2>1. /\ Len(image) < Size /\ image' = image \o part /\ part' = << >>
        /\ pc' \in {"read", "cut"} /\ (pc' = "cut" <=> outcome' = "ok")
        /\ outcome' \in {"running", "ok"}
    BY <1>1, <1>12 DEF ReadNothing, TypeOK
  <2>7. "empty" \in faults'
    <3>1. 0 \in Lengths
      BY <1>12 DEF ReadNothing
    <3>2. Wanted - Len(part) > 0 /\ chip - Offset > 0
      BY <1>2, <1>3, <1>7, <1>12, <2>1 DEF ReadNothing
    <3>3. Smaller(Wanted - Len(part), chip - Offset) # 0
      BY <3>2 DEF Smaller
    <3> QED
      BY <1>1, <3>1, <3>3 DEF Lengths
  <2>2. TypeOK'
    BY <1>1, <1>3, <2>1 DEF TypeOK, Sized
  <2>3. image' \o part' = image \o part /\ Offset' = Offset /\ Len(image') = Offset
    BY <1>2, <1>3, <2>1 DEF Offset
  <2>4. ImageIsFlash'
    BY <1>1, <2>3 DEF ImageIsFlash
  <2>5. Offset <= Size
    BY <1>2, <1>3, <1>7, <2>1 DEF Offset
  <2>6. RequestBounds'
    BY <1>2, <2>1, <2>3, <2>5 DEF RequestBounds, Sized
  <2> QED
    BY <1>5, <2>1, <2>2, <2>4, <2>6, <2>7 DEF DumpInv, Sized
<1> QED
  BY <1>9, <1>10, <1>11, <1>12

LEMMA IdleStep == DumpInv /\ (ExchangeFails \/ UNCHANGED vars) => DumpInv'
<1> SUFFICES ASSUME DumpInv, ExchangeFails \/ UNCHANGED vars PROVE DumpInv'
  OBVIOUS
<1>1. UNCHANGED <<chip, faults, pc, lo, hi, step, image, part>>
      /\ (outcome' = outcome \/ (outcome = "running" /\ outcome' = "err"))
  BY DEF ExchangeFails, vars
<1>2. TypeOK' /\ Bracket'
  BY <1>1 DEF DumpInv, TypeOK, Bracket, InRange
<1>3. RequestBounds' /\ ImageIsFlash' /\ Size' = Size
  BY <1>1 DEF DumpInv, RequestBounds, ImageIsFlash, Size, Wanted, Offset
<1> QED
  BY <1>1, <1>2, <1>3 DEF DumpInv

THEOREM DumpInvariant == Spec => []DumpInv
<1>1. DumpInv /\ [Next]_vars => DumpInv'
  BY SearchStep, ReadStep, IdleStep DEF Next, HostStep, Terminated
<1> QED
  BY <1>1, InitInv, PTL DEF Spec

\* discover_flash_size: for every flash length the size it settles on ends in the
\* last readable block, or at the cap.
THEOREM DiscoveredSize == Spec => []SizeIsRight
<1>1. DumpInv => SizeIsRight
  <2> SUFFICES ASSUME DumpInv, pc \in Sized
               PROVE  InRange(hi - 1) /\ (hi = Cap \/ ~InRange(hi))
    BY DEF SizeIsRight
  <2>1. Bracket /\ lo \in Nat /\ hi = lo + 1 /\ pc # "base"
    BY DEF DumpInv, TypeOK, Bracket, Sized
  <2>2. hi - 1 = lo
    BY <2>1
  <2> QED
    BY <2>1, <2>2 DEF Bracket, Sized
<1> QED
  BY <1>1, DumpInvariant, PTL

\* read_flash and dump_full: however replies are cut, the image is a gapless prefix
\* of the flash.
THEOREM DumpIsPrefix == Spec => []ImageIsFlash
<1>1. DumpInv => ImageIsFlash
  BY DEF DumpInv
<1> QED
  BY <1>1, DumpInvariant, PTL

\* What the search settles on and what the read loop collects fit together: a device that
\* sends no empty replies gets an Ok only for the whole of its flash, up to the cap.
THEOREM DumpIsWhole == Spec => []OkMeansWhole
<1>1. DumpInv => OkMeansWhole
  <2> SUFFICES ASSUME DumpInv, outcome = "ok", "empty" \notin faults
               PROVE  image = Contents(0, Smaller(chip, Cap * Block))
    BY DEF OkMeansWhole
  <2>1. /\ TypeOK /\ Bracket /\ RequestBounds /\ ImageIsFlash
        /\ pc = "done" /\ Len(image) = Size
    BY DEF DumpInv
  <2>2. /\ Size \in Nat /\ Wanted \in Int /\ Offset \in Nat /\ chip \in Nat /\ hi \in Nat
        /\ image \in Seq(Nat) /\ part \in Seq(Nat) /\ Len(part) \in Nat
    BY <2>1, SizeIsNat DEF TypeOK
  <2>3. part = << >>
    <3>1. Wanted <= 0
      BY <2>1, <2>2, ParameterAssumption DEF Wanted, Smaller
    <3> QED
      BY <2>1, <2>2, <3>1 DEF RequestBounds
  <2>4. image = Contents(0, Size) /\ Size <= chip
    <3>1. image \o part = image /\ Offset = Size
      BY <2>1, <2>2, <2>3, ConcatEmptySeq DEF Offset
    <3> QED
      BY <2>1, <3>1 DEF ImageIsFlash
  <2>5. hi <= Cap /\ (hi = Cap \/ ~(hi * Block < chip))
    BY <2>1 DEF Bracket, Sized, InRange
  <2>6. hi * Block <= Cap * Block /\ Cap * Block \in Nat
    <3>1. \A a, b, c \in Nat : a <= b => a * c <= b * c /\ b * c \in Nat
      OBVIOUS
    <3> QED
      BY <2>2, <2>5, <3>1, ParameterAssumption
  <2>7. Smaller(chip, Cap * Block) = Size
    BY <2>2, <2>4, <2>5, <2>6 DEF Smaller, Size
  <2> QED
    BY <2>4, <2>7
<1> QED
  BY <1>1, DumpInvariant, PTL
====

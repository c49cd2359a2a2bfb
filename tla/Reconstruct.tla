---- MODULE Reconstruct ----
(***************************************************************************)
(* The layout guessed from a whole flash image (reconstruct.rs).           *)
(*                                                                         *)
(* The image is measured in units and cut into blocks of Block units; what *)
(* the detectors read at the start of a block is the block's tag, and      *)
(* fill is how many of its units are written before the erased rest.  A    *)
(* last block that the image does not fill is never looked at.  Phase 1    *)
(* walks over code and script packs to the first filesystem block, phase 2 *)
(* looks for the longest run of one generation behind it, and the regions  *)
(* are cut between the bases found.                                        *)
(***************************************************************************)
EXTENDS Naturals, Sequences, FiniteSets

CONSTANTS Block,      \* units of an erase block
          Lengths,    \* lengths of the images, in units
          ImageSizes, \* header and payload of a uImage, in units
          Packs,      \* how many units of a luadb pack's block are written
          Gens        \* generations of filesystem blocks

ASSUME ReconstructAssumption ==
    /\ Block \in Nat \ {0}
    /\ Lengths \subseteq Nat
    /\ ImageSizes \subseteq Nat \ {0}
    /\ Packs \subseteq 1 .. Block
    /\ Gens \subseteq Nat \ {0}

VARIABLES image,    \* [len, at]: the dump and the content of each block
          pc,       \* the part of the function under way
          off,      \* the cursor of phase 1, where phase 2 starts afterwards
          segs,     \* the anchors found, in order
          next,     \* the next block of phase 2
          best,     \* [start, len]: the longest run so far, in blocks
          regions   \* what is returned

vars == << image, pc, off, segs, next, best, regions >>

UImages == [tag : {"uimage"}, used : ImageSizes, fill : {Block}]
LuaPacks == [tag : {"luadb"}, fill : Packs]
FsBlocks == [tag : {"fs"}, gen : Gens, fill : {Block}]
OtherBlocks == [tag : {"other"}, fill : {0, Block}]
Contents == UImages \cup LuaPacks \cup FsBlocks \cup OtherBlocks

RoundUp(v) == ((v + Block - 1) \div Block) * Block
BlocksOf(len) == 0 .. RoundUp(len) \div Block - 1
At(o) == image.at[o \div Block]
WholeBlock(b) == (b + 1) * Block <= image.len

Written(u) == u % Block < At(u).fill
\* Mutant: the scan goes forward, and stops at the first erased unit.
UsedLenToGap(start, limit) ==
    LET end[i \in start .. limit] == IF i < limit /\ Written(i) THEN end[i + 1] ELSE i
    IN  end[start] - start
\* The scan goes back from the limit over erase padding.
UsedLen(start, limit) ==
    LET end[i \in start .. limit] == IF i > start /\ ~Written(i - 1) THEN end[i - 1] ELSE i
    IN  end[limit] - start

\* A magic whose payload would pass the end of the dump is not an image.
IsUImage(o) == At(o).tag = "uimage" /\ o + At(o).used <= image.len
IsLuaDb(o) == At(o).tag = "luadb"
IsFs(o) == At(o).tag = "fs"

Anchor(o, kind, used) == [off |-> o, kind |-> kind, used |-> used]

Init ==
    /\ \E n \in Lengths :
           image \in [len : {n}, at : [BlocksOf(n) -> Contents]]
    /\ pc = "scan"
    /\ off = 0
    /\ segs = << >>
    /\ next = 0
    /\ best = [start |-> 0, len |-> 0]
    /\ regions = << >>

---------------------------------------------------------------------------
(* Phase 1: code and script packs at the front.                            *)

Scanning == pc = "scan" /\ off + Block <= image.len

\* Mutant: only the block of the header is stepped over.
AfterHeader(o) == o + Block
\* The payload of an image is stepped over, whatever its blocks look like.
AfterImage(o) == RoundUp(o + At(o).used)

ScanUImage ==
    /\ Scanning
    /\ IsUImage(off)
    /\ segs' = Append(segs, Anchor(off, "uimage", At(off).used))
    /\ off' = AfterImage(off)
    /\ UNCHANGED << image, pc, next, best, regions >>

ScanLuaDb ==
    /\ Scanning
    /\ IsLuaDb(off)
    /\ segs' = Append(segs, Anchor(off, "luadb", 0))
    /\ off' = off + Block
    /\ UNCHANGED << image, pc, next, best, regions >>

\* Erase padding, a body block of firmware, a magic that does not hold.
Skipped(o) == ~IsUImage(o) /\ ~IsLuaDb(o) /\ ~IsFs(o)

ScanOther ==
    /\ Scanning
    /\ Skipped(off)
    /\ off' = off + Block
    /\ UNCHANGED << image, pc, segs, next, best, regions >>

\* Mutant: phase 1 ends at the first block that is not code.
ScanStopsEarly ==
    off + Block <= image.len => ~IsUImage(off) /\ ~IsLuaDb(off)
\* The first filesystem block, or no whole block left; the last image may
\* have moved the cursor past the end.
ScanStops == off + Block <= image.len => IsFs(off)

\* Mutant: neither the cursor nor the empty back half is caught.
ScanEndUnclamped ==
    /\ pc = "scan"
    /\ ScanStops
    /\ pc' = "runs"
    /\ next' = off \div Block
    /\ UNCHANGED << image, off, segs, best, regions >>

ScanEnd ==
    /\ pc = "scan"
    /\ ScanStops
    /\ off' = IF off < image.len THEN off ELSE image.len
    /\ pc' = IF off < image.len THEN "runs" ELSE "assign"
    /\ next' = off' \div Block
    /\ UNCHANGED << image, segs, best, regions >>

---------------------------------------------------------------------------
(* Phase 2: the back half by its longest single-generation run.            *)

\* The block after the run of one generation that begins at b.
RunEnd(b) ==
    CHOOSE j \in b + 1 .. image.len \div Block :
        /\ \A k \in b .. j - 1 : image.at[k] = image.at[b]
        /\ WholeBlock(j) => image.at[j] # image.at[b]

\* Mutant: the last of several longest runs.
NotShorter(len) == len >= best.len
Longer(len) == len > best.len

NextRun ==
    /\ pc = "runs"
    /\ WholeBlock(next)
    /\ image.at[next].tag = "fs"
    /\ next' = RunEnd(next)
    /\ best' = IF Longer(next' - next)
                 THEN [start |-> next, len |-> next' - next]
                 ELSE best
    /\ UNCHANGED << image, pc, off, segs, regions >>

\* Mutant: the index is not moved.
NoGenerationStays ==
    /\ pc = "runs"
    /\ WholeBlock(next)
    /\ image.at[next].tag # "fs"
    /\ UNCHANGED vars

NoGeneration ==
    /\ pc = "runs"
    /\ WholeBlock(next)
    /\ image.at[next].tag # "fs"
    /\ next' = next + 1
    /\ UNCHANGED << image, pc, off, segs, best, regions >>

\* Without a filesystem block the back half is one region; otherwise it is
\* cut in up to three.
FsStart == best.start * Block
FsEnd == FsStart + best.len * Block
\* Mutant: the staging region is cut also when it is empty.
StagingAlways == << Anchor(off, "filesystem", 0) >>
Staging == IF off < FsStart THEN << Anchor(off, "filesystem", 0) >> ELSE << >>
Top == IF FsEnd < image.len THEN << Anchor(FsEnd, "filesystem", 0) >> ELSE << >>

BackHalf ==
    IF best.len = 0
      THEN << Anchor(off, "filesystem", 0) >>
      ELSE Staging \o << Anchor(FsStart, "filesystem", 0) >> \o Top

Cut ==
    /\ pc = "runs"
    /\ ~WholeBlock(next)
    /\ segs' = segs \o BackHalf
    /\ pc' = "assign"
    /\ UNCHANGED << image, off, next, best, regions >>

---------------------------------------------------------------------------
(* Reserved and used sizes, and a generic name for each region.            *)

NextBase(i) == IF i < Len(segs) THEN segs[i + 1].off ELSE image.len

RegionKind(i) ==
    IF segs[i].kind = "filesystem" /\ i = Len(segs) THEN "nv" ELSE segs[i].kind

UsedSize(i) ==
    IF segs[i].kind = "uimage" THEN segs[i].used
                               ELSE UsedLen(segs[i].off, NextBase(i))

\* The number in the name counts the regions of this kind before it.
Index(kind) == Cardinality({j \in DOMAIN regions : regions[j].kind = kind})

Assign ==
    /\ pc = "assign"
    /\ Len(regions) < Len(segs)
    /\ LET i == Len(regions) + 1 IN
           regions' = Append(regions,
               [kind |-> RegionKind(i), index |-> Index(RegionKind(i)),
                base |-> segs[i].off, reserved |-> NextBase(i) - segs[i].off,
                used |-> UsedSize(i)])
    /\ UNCHANGED << image, pc, off, segs, next, best >>

Return ==
    /\ pc = "assign"
    /\ Len(regions) = Len(segs)
    /\ pc' = "done"
    /\ UNCHANGED << image, off, segs, next, best, regions >>

Returned == pc = "done" /\ UNCHANGED vars

Step == ScanUImage \/ ScanLuaDb \/ ScanOther \/ ScanEnd \/ NextRun
            \/ NoGeneration \/ Cut \/ Assign \/ Return
Next == Step \/ Returned
Spec == Init /\ [][Next]_vars /\ WF_vars(Step)

---------------------------------------------------------------------------
(* Properties.                                                             *)

Kinds == {"uimage", "luadb", "filesystem", "nv"}
Done == pc = "done"
RegionEnd(r) == r.base + r.reserved

\* Every variable holds a value of its type (reconstruct.rs:193-330).
TypeOK ==
    /\ image.len \in Lengths
    /\ image.at \in [BlocksOf(image.len) -> Contents]
    /\ pc \in {"scan", "runs", "assign", "done"}
    /\ off \in 0 .. RoundUp(image.len)
    /\ next \in 0 .. RoundUp(image.len) \div Block
    /\ best \in [start : BlocksOf(image.len) \cup {0}, len : 0 .. image.len]
    /\ \A i \in DOMAIN segs :
           segs[i] \in [off : 0 .. image.len - 1, kind : Kinds \ {"nv"},
                        used : ImageSizes \cup {0}]
    /\ \A i \in DOMAIN regions :
           /\ regions[i].kind \in Kinds
           /\ regions[i].index \in 0 .. i - 1
           /\ regions[i].used \in 0 .. image.len

FirstBase == IF regions = << >> THEN image.len ELSE regions[1].base

\* The regions tile the dump from the first base to the end of the flash:
\* none is empty, none overlaps the next, nothing lies between two of them
\* (reconstruct.rs:217-252; the cuts of segment_backhalf meet the last anchor
\* of the front).  What lies before the first base, which is all of the dump
\* when there is no region, is dropped: whole blocks that begin no uImage, no
\* pack and no filesystem block.
Tiling ==
    Done =>
        /\ \A b \in BlocksOf(image.len) :
               b * Block < FirstBase => WholeBlock(b) /\ Skipped(b * Block)
        /\ \A i \in DOMAIN regions : regions[i].reserved > 0
        /\ \A i \in DOMAIN regions \ {Len(regions)} :
               RegionEnd(regions[i]) = regions[i + 1].base
        /\ regions # << >> => RegionEnd(regions[Len(regions)]) = image.len

\* No region begins inside a uImage and its payload fits its window, although
\* the blocks of a payload may look like the start of anything
\* (reconstruct.rs:199-202).
CodeIsWhole ==
    \A i, j \in DOMAIN segs :
        segs[i].kind = "uimage" /\ i < j => segs[i].off + segs[i].used <= segs[j].off

\* Nothing written is left out behind the first base, except behind the exact
\* length of a uImage: a region's used size ends at its last written unit
\* (reconstruct.rs:93-100, 223-227).
NothingWrittenIsLost ==
    \A i \in DOMAIN regions :
        regions[i].kind # "uimage" =>
            \A u \in regions[i].base .. RegionEnd(regions[i]) - 1 :
                u >= regions[i].base + regions[i].used => ~Written(u)

\* A uImage of the front that fits the dump becomes a region, unless it lies
\* in the payload of an earlier one or behind a filesystem block
\* (reconstruct.rs:198-211).
InPayload(o) ==
    \E i \in DOMAIN segs : /\ segs[i].kind = "uimage"
                           /\ o \in segs[i].off .. AfterImage(segs[i].off) - 1
CodeIsFound ==
    Done => \A b \in BlocksOf(image.len) :
                LET o == b * Block IN
                WholeBlock(b) /\ IsUImage(o) =>
                    \/ InPayload(o)
                    \/ \E c \in 0 .. b - 1 : IsFs(c * Block) /\ ~InPayload(c * Block)

\* The live filesystem is the longest run of one generation behind the front,
\* the lowest of several, and one region covers exactly that run
\* (reconstruct.rs:271-288, 300-330).
Runs == {r \in BlocksOf(image.len) \X BlocksOf(image.len) :
             /\ r[1] <= r[2]
             /\ off <= r[1] * Block
             /\ \A b \in r[1] .. r[2] :
                    /\ WholeBlock(b)
                    /\ IsFs(b * Block)
                    /\ image.at[b] = image.at[r[1]]}
LiveFsIsLongest ==
    Done /\ Runs # {} =>
        \E r \in Runs :
            /\ \A q \in Runs : q[2] - q[1] <= r[2] - r[1]
            /\ \A q \in Runs : q[2] - q[1] = r[2] - r[1] => r[1] <= q[1]
            /\ \E i \in DOMAIN regions :
                   /\ regions[i].base = r[1] * Block
                   /\ RegionEnd(regions[i]) = (r[2] + 1) * Block
====

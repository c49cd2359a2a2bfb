---- MODULE FlashDump ----
(***************************************************************************)
(* Flasher::dump_full after bring-up: discover_flash_size brackets the end *)
(* of the flash with one-reply probes, first doubling, then halving, and   *)
(* the read loop then fetches the whole of it in READ_FLASH requests.      *)
(*                                                                         *)
(* The exchange is stop-and-wait and nothing here retries, so a request    *)
(* and its reply are one step.  Lengths and offsets are counted in units   *)
(* of a few bytes while reading and in blocks of 64 KiB while probing; the *)
(* unit at offset a holds a.                                               *)
(***************************************************************************)
EXTENDS Integers, Sequences

CONSTANTS
    Chips,      \* the flash lengths considered, in units
    Block,      \* GRAN, in units
    First,      \* the first offset tried beyond the base (1 MiB), in blocks
    Cap,        \* CAP (128 MiB), in blocks
    ReadChunk,  \* READBACK_CHUNK, in units
    Faults      \* what may go wrong, a subset of AllFaults

AllFaults == {
    "fail",    \* a request times out, or the port fails
    "short",   \* READ_FLASH returns fewer bytes than were asked for
    "empty" }  \* READ_FLASH returns no bytes at all

ASSUME ParameterAssumption ==
    /\ Chips \subseteq Nat
    /\ Block \in Nat /\ Block > 0
    /\ First \in Nat /\ First > 0
    /\ Cap \in Nat /\ Cap > 0
    /\ ReadChunk \in Nat /\ ReadChunk > 0
    /\ Faults \subseteq AllFaults

VARIABLES
    chip,     \* the length of the device's flash, in units
    faults,   \* what may go wrong with this device and its port
    pc,       \* "base", "grow", "bisect", "read", "done", or "cut" by an empty reply
    lo, hi,   \* the bracket of discover_flash_size, in blocks
    step,     \* the offset the doubling tries next, in blocks
    image,    \* what dump_full has collected
    part,     \* what read_flash has collected for the current request
    outcome   \* "running", "ok" or "err": what dump_full has returned

vars == <<chip, faults, pc, lo, hi, step, image, part, outcome>>

----
Smaller(a, b) == IF a < b THEN a ELSE b

\* Whether a probe of block b is answered with READ_FLASH rather than INVALID_CMD.
InRange(b) == b * Block < chip

Running(p) == pc = p /\ outcome = "running"

\* The base must be readable, or the size is unknown.
ProbeBase ==
    /\ Running("base")
    /\ IF InRange(0)
       THEN pc' = "grow" /\ UNCHANGED outcome
       ELSE outcome' = "err" /\ UNCHANGED pc
    /\ UNCHANGED <<chip, faults, lo, hi, step, image, part>>

GrowToCap ==
    /\ Running("grow")
    /\ step >= Cap
    /\ hi' = Cap
    /\ pc' = "bisect"
    /\ UNCHANGED <<chip, faults, lo, step, image, part, outcome>>

\* Mutant of Grow: the doubling does not look at the cap.
GrowUncapped ==
    /\ Running("grow")
    /\ IF InRange(step)
       THEN lo' = step /\ step' = 2 * step /\ UNCHANGED <<hi, pc>>
       ELSE hi' = step /\ pc' = "bisect" /\ UNCHANGED <<lo, step>>
    /\ UNCHANGED <<chip, faults, image, part, outcome>>

Grow ==
    /\ Running("grow")
    /\ step < Cap
    /\ IF InRange(step)
       THEN lo' = step /\ step' = 2 * step /\ UNCHANGED <<hi, pc>>
       ELSE hi' = step /\ pc' = "bisect" /\ UNCHANGED <<lo, step>>
    /\ UNCHANGED <<chip, faults, image, part, outcome>>

\* Half the bracket, rounded down to a whole block.
Mid == lo + (hi - lo) \div 2

\* Mutant of Narrow: the loop runs until the bracket is empty.
NarrowLate == hi = lo

\* The loop's condition and its early exit.
Narrow == hi - lo <= 1 \/ Mid = lo

\* Mutant of Bisect: the upper end excludes the block that failed.
BisectPastEnd ==
    /\ Running("bisect")
    /\ ~Narrow
    /\ IF InRange(Mid)
       THEN lo' = Mid /\ UNCHANGED hi
       ELSE hi' = Mid - 1 /\ UNCHANGED lo
    /\ UNCHANGED <<chip, faults, pc, step, image, part, outcome>>

Bisect ==
    /\ Running("bisect")
    /\ ~Narrow
    /\ IF InRange(Mid)
       THEN lo' = Mid /\ UNCHANGED hi
       ELSE hi' = Mid /\ UNCHANGED lo
    /\ UNCHANGED <<chip, faults, pc, step, image, part, outcome>>

SizeFound ==
    /\ Running("bisect")
    /\ Narrow
    /\ pc' = "read"
    /\ UNCHANGED <<chip, faults, lo, hi, step, image, part, outcome>>

----
Size == hi * Block

\* Mutant of Wanted: the last request is as long as the others.
WantedUnclamped == ReadChunk

\* The length and the offset of the request under way.
Wanted == Smaller(ReadChunk, Size - Len(image))
Offset == Len(image) + Len(part)

\* How many units the device may return: all that it has of what was asked, fewer
\* when it cuts replies short.
Lengths ==
    LET all == Smaller(Wanted - Len(part), chip - Offset)
    IN  {all} \cup (IF "short" \in faults THEN 1 .. all ELSE {})
              \cup (IF "empty" \in faults THEN {0} ELSE {})

Contents(off, n) == [i \in 1 .. n |-> off + i - 1]

\* A request at or beyond the end of the flash is refused, and that is an error.
ReadRefused ==
    /\ Running("read")
    /\ Len(image) < Size
    /\ Offset >= chip
    /\ outcome' = "err"
    /\ UNCHANGED <<chip, faults, pc, lo, hi, step, image, part>>

\* Mutant of ReadData: read_flash asks for the rest at the address of the request's
\* beginning, so a short reply repeats units.
ReadDataRepeats ==
    /\ Running("read")
    /\ Len(image) < Size
    /\ Offset < chip
    /\ \E n \in Lengths \ {0} :
          LET all == part \o Contents(Len(image), n)
          IN  IF Len(all) < Wanted
              THEN part' = all /\ UNCHANGED image
              ELSE part' = << >> /\ image' = image \o all
    /\ UNCHANGED <<chip, faults, pc, lo, hi, step, outcome>>

\* One reply of read_flash; the request is complete when it has all it wanted.
ReadData ==
    /\ Running("read")
    /\ Len(image) < Size
    /\ Offset < chip
    /\ \E n \in Lengths \ {0} :
          LET all == part \o Contents(Offset, n)
          IN  IF Len(all) < Wanted
              THEN part' = all /\ UNCHANGED image
              ELSE part' = << >> /\ image' = image \o all
    /\ UNCHANGED <<chip, faults, pc, lo, hi, step, outcome>>

\* An empty reply ends read_flash with what it has; dump_full stops, and succeeds,
\* when that is nothing.
ReadNothing ==
    /\ Running("read")
    /\ Len(image) < Size
    /\ Offset < chip
    /\ 0 \in Lengths
    /\ image' = image \o part
    /\ part' = << >>
    /\ IF part = << >>
       THEN pc' = "cut" /\ outcome' = "ok"
       ELSE UNCHANGED <<pc, outcome>>
    /\ UNCHANGED <<chip, faults, lo, hi, step>>

Finish ==
    /\ Running("read")
    /\ Len(image) >= Size
    /\ pc' = "done"
    /\ outcome' = "ok"
    /\ UNCHANGED <<chip, faults, lo, hi, step, image, part>>

\* Any exchange may time out or meet a dead port: dump_full returns the error.
ExchangeFails ==
    /\ "fail" \in faults
    /\ outcome = "running"
    /\ outcome' = "err"
    /\ UNCHANGED <<chip, faults, pc, lo, hi, step, image, part>>

Terminated == outcome # "running" /\ UNCHANGED vars

Init ==
    /\ chip \in Chips
    /\ faults \in SUBSET Faults
    /\ pc = "base"
    /\ lo = 0 /\ hi = 0 /\ step = First
    /\ image = << >> /\ part = << >>
    /\ outcome = "running"

HostStep ==
    \/ ProbeBase \/ GrowToCap \/ Grow \/ Bisect \/ SizeFound
    \/ ReadRefused \/ ReadData \/ ReadNothing \/ Finish

Next == HostStep \/ ExchangeFails \/ Terminated

\* recv is bounded by its deadline, so the host always takes its next step.
Spec == Init /\ [][Next]_vars /\ WF_vars(HostStep)

----
\* The phases in which the flash size is known.
Sized == {"read", "done", "cut"}

TypeOK ==
    /\ chip \in Chips
    /\ faults \subseteq Faults
    /\ pc \in {"base", "grow", "bisect"} \cup Sized
    /\ lo \in Nat /\ hi \in Nat
    /\ step \in Nat /\ step > 0
    /\ image \in Seq(Nat) /\ part \in Seq(Nat)
    /\ outcome \in {"running", "ok", "err"}

\* Whenever reading starts, the size is exactly right: the last block it counts is
\* readable, and the next one is not unless the search stopped at its cap.
SizeIsRight ==
    pc \in Sized =>
        /\ InRange(hi - 1)
        /\ hi = Cap \/ ~InRange(hi)

\* What has been collected is the beginning of the flash: no unit missing, repeated
\* or out of place, however the device cuts its replies.
ImageIsFlash ==
    /\ image \o part = Contents(0, Offset)
    /\ Offset <= chip

\* An Ok means the whole flash, up to the cap of the search (flasher.rs:220-250): with a
\* size found too small, a request that straddles the end or a reply that is cut short,
\* dump_full fails or goes on.  A device that may send empty replies is excepted: one at
\* the beginning of a request ends the loop, and the short image is returned as Ok.
OkMeansWhole ==
    outcome = "ok" /\ "empty" \notin faults => image = Contents(0, Smaller(chip, Cap * Block))

\* The search and the reading both come to an end.
Terminates == <>(outcome # "running")

\* The bracket of the search: the lower end is readable, the upper is not or is the
\* cap, and the doubling never leaves a gap.
Bracket ==
    /\ pc = "base" => lo = 0
    /\ pc # "base" => InRange(lo)
    /\ pc = "grow" => lo < step /\ lo < Cap
    /\ pc \in Sized \cup {"bisect"} => lo < hi /\ hi <= Cap /\ (hi = Cap \/ ~InRange(hi))
    /\ pc \in Sized => hi = lo + 1

\* A request's replies never add up to more than was asked for.
RequestBounds ==
    /\ pc \notin Sized => image = << >> /\ part = << >>
    /\ pc \in Sized => Len(image) <= Size
    /\ part # << >> => Len(part) < Wanted

DumpInv ==
    /\ TypeOK /\ Bracket /\ RequestBounds
    /\ ImageIsFlash
    /\ pc = "done" => Len(image) = Size
    /\ pc = "cut" => "empty" \in faults
    /\ pc \in {"done", "cut"} <=> outcome = "ok"
====

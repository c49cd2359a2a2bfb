---- MODULE Capture ----
(***************************************************************************)
(* Reading a module into files: the commands clone and dump of the CLI     *)
(* (main.rs) over pac::parse, the flash plan and Flasher::dump.  dump      *)
(* writes each region to a file of its own; clone puts the partitions it   *)
(* read into a copy of the reference PAC, refreshes the checksums, parses  *)
(* the result once more and writes it as a golden PAC.                     *)
(*                                                                         *)
(* A PAC file is a sequence of units: the header, rows of the file table,  *)
(* payload.  A checksum is what it was taken over.  Bringing up FDL2  *)
(* is the business of BringUp, reading in chunks that of FlashDump.        *)
(***************************************************************************)
EXTENDS Naturals, Sequences, FiniteSets

CONSTANTS
    Commands,     \* the calls considered: [kind, file, regions], kind "clone" or "dump"
    Disks,        \* what may lie on the disk beforehand: functions from names to files
    Flash,        \* the module's flash: a unit for every address it has
    LogicalBase, FdlPrefixed, Fdl2Prefixed, FormatNames \* see Plan

Regions == [address : Nat, size : Nat]
Entries == [id : STRING, address : Nat, size : Nat, offset : Nat]

\* A file has a header, its table is behind it, and its payload behind the table.
WellFormed(f) ==
    /\ f # <<>> /\ Len(f) \in Nat /\ f = [i \in 1 .. Len(f) |-> f[i]]
    /\ DOMAIN f[1] = {"size", "count", "table", "crc1", "crc2"}
    /\ {f[1].size, f[1].count, f[1].table} \subseteq Nat /\ f[1].table > 0
    /\ f[1].table + f[1].count <= Len(f) =>
           \A i \in f[1].table + 1 .. f[1].table + f[1].count :
               /\ f[i] \in Entries
               /\ f[i].size = 0 \/ f[i].offset >= f[1].table + f[1].count

ASSUME CommandAssumption ==
    \A c \in Commands :
        /\ c.kind \in {"clone", "dump"}
        /\ c.regions \in Seq(Regions)
        /\ c.kind = "clone" => c.regions = <<>>
        /\ WellFormed(c.file)

ASSUME FlashAssumption == DOMAIN Flash \subseteq Nat /\ LogicalBase \in Nat

VARIABLES
    cmd,     \* the call
    pc,      \* where the command is
    entries, \* PacInfo::entries
    dumps,   \* what Flasher::dump has read, region by region
    done,    \* how many of them are spliced, or how many files are written
    out,     \* the copy of the reference PAC
    disk,    \* the files on the disk, by name
    module   \* what the module runs: "rom", "fdl2", or "app" after the reset

vars == <<cmd, pc, entries, dumps, done, out, disk, module>>

\* No region and no partition has a file of this name.
Golden == <<"golden", 0>>

----
(***************************************************************************)
(* pac.rs.                                                                 *)
(***************************************************************************)
HeaderBody(h) == [size |-> h.size, count |-> h.count, table |-> h.table]
HeaderCrcOk(f) == f[1].crc1 = HeaderBody(f[1])
PayloadCrcOk(f) == f[1].crc2 = Tail(f)

Rows(f) == [i \in 1 .. f[1].count |-> f[f[1].table + i]]

\* Mutant of InFile: the end of the payload is not looked at.
InFileStart(f, e) == e.size = 0 \/ e.offset < Len(f)

\* A non-marker entry points inside the file; offsets count from 0.
InFile(f, e) == e.size = 0 \/ e.offset + e.size <= Len(f)

\* parse succeeds: not too small, of the size it says, the table whole, entries inside.
Parses(f) ==
    /\ Len(f) >= 1
    /\ f[1].size = Len(f)
    /\ f[1].table + f[1].count <= Len(f)
    /\ \A i \in 1 .. f[1].count : InFile(f, Rows(f)[i])

\* PacInfo::crc_ok: the payload counts when parse was told to verify it.
CrcOk(f, verify) == HeaderCrcOk(f) /\ (verify => PayloadCrcOk(f))

Payload(f, e) == SubSeq(f, e.offset + 1, e.offset + e.size)

----
(***************************************************************************)
(* The regions to read.                                                    *)
(***************************************************************************)
OfPac == INSTANCE Plan WITH Pac <- entries

Partitions == OfPac!WithRole("flash")

Region(name, address, size, offset) ==
    [name |-> name, address |-> address, size |-> size, offset |-> offset]

\* Regions on the command line go before the partitions of the PAC, and are named
\* after their address.
Targets ==
    IF cmd.regions # <<>>
    THEN [k \in DOMAIN cmd.regions |->
             LET r == cmd.regions[k]
             IN  Region(<<"region", r.address>>, r.address, r.size, 0)]
    ELSE [k \in 1 .. Cardinality(Partitions) |->
             LET e == entries[OfPac!Nth(Partitions, k)]
             IN  Region(<<e.id>>, e.address, e.size, e.offset)]

\* What the flash holds of a region, up to the end of the flash.
Held(r) ==
    LET there == {i \in 1 .. r.size : \A j \in 1 .. i : r.address + j - 1 \in DOMAIN Flash}
    IN  [i \in 1 .. Cardinality(there) |-> Flash[r.address + i - 1]]

----
(***************************************************************************)
(* The commands.                                                           *)
(***************************************************************************)
Goto(p) == pc' = p
Fail == Goto("failed") /\ UNCHANGED <<cmd, entries, dumps, done, out, disk, module>>

\* parse(file, false): no checksum is asked for.
Parse ==
    /\ pc = "parse" /\ Parses(cmd.file)
    /\ entries' = Rows(cmd.file)
    /\ Goto("plan")
    /\ UNCHANGED <<cmd, dumps, done, out, disk, module>>

ParseFails == pc = "parse" /\ ~Parses(cmd.file) /\ Fail

\* With no FDL1 there is no plan, and with nothing to read the command ends.
Planned == OfPac!Buildable /\ Targets # <<>>

BuildPlan ==
    /\ pc = "plan" /\ Planned
    /\ Goto("connect")
    /\ UNCHANGED <<cmd, entries, dumps, done, out, disk, module>>

PlanFails == pc = "plan" /\ ~Planned /\ Fail

BringUp ==
    /\ pc = "connect"
    /\ module' = "fdl2"
    /\ Goto("read")
    /\ UNCHANGED <<cmd, entries, dumps, done, out, disk>>

BringUpFails == pc = "connect" /\ Fail

\* read_flash: a region, or less of it when a reply is empty.
ReadRegion ==
    /\ pc = "read" /\ Len(dumps) < Len(Targets)
    /\ LET held == Held(Targets[Len(dumps) + 1])
       IN  \E n \in 0 .. Len(held) : dumps' = Append(dumps, SubSeq(held, 1, n))
    /\ UNCHANGED <<cmd, pc, entries, done, out, disk, module>>

\* An address out of range, a timeout, a port error: the module is left as it is.
ReadFails == pc = "read" /\ Fail

\* NORMAL_RESET, after which clone copies the reference PAC.
Reset ==
    /\ pc = "read" /\ Len(dumps) = Len(Targets)
    /\ module' = "app"
    /\ out' = cmd.file
    /\ Goto(IF cmd.kind = "clone" THEN "splice" ELSE "write")
    /\ UNCHANGED <<cmd, entries, dumps, done, disk>>

This == done + 1
Splicing == pc = "splice" /\ done < Len(dumps)

\* out with d in the place of r; the end of out is as far as it goes.
Spliced(r, d) ==
    [i \in DOMAIN out |->
        IF i \in r.offset + 1 .. r.offset + Len(d) THEN d[i - r.offset] ELSE out[i]]

\* Mutant of Splice: what was read need not be the whole partition.
SpliceAnyLength ==
    /\ Splicing
    /\ out' = Spliced(Targets[This], dumps[This])
    /\ done' = This
    /\ UNCHANGED <<cmd, pc, entries, dumps, disk, module>>

\* The partition's payload in the copy becomes what was read of it.  A range that
\* is not in the copy is a panic.
Splice ==
    /\ Splicing /\ Len(dumps[This]) = Targets[This].size
    /\ pc' = IF Targets[This].offset + Targets[This].size > Len(out) THEN "panic" ELSE pc
    /\ out' = Spliced(Targets[This], dumps[This])
    /\ done' = This
    /\ UNCHANGED <<cmd, entries, dumps, disk, module>>

ShortRead == Splicing /\ Len(dumps[This]) # Targets[This].size /\ Fail

\* Both checksums anew, and the result must parse, payload and all.
Refresh ==
    /\ pc = "splice" /\ done = Len(dumps)
    /\ LET h == [out[1] EXCEPT !.crc1 = HeaderBody(out[1]), !.crc2 = Tail(out)]
           new == [out EXCEPT ![1] = h]
       IN  /\ out' = new
           /\ Goto(IF Parses(new) /\ CrcOk(new, TRUE) THEN "write" ELSE "failed")
    /\ done' = 0
    /\ UNCHANGED <<cmd, entries, dumps, disk, module>>

----
(***************************************************************************)
(* fs::write, which truncates the file before it writes; it may fail, or   *)
(* the process die, after any part.                                        *)
(***************************************************************************)
Files ==
    IF cmd.kind = "clone" THEN <<[name |-> Golden, data |-> out]>>
    ELSE [k \in DOMAIN dumps |-> [name |-> Targets[k].name, data |-> dumps[k]]]

Put(name, data) ==
    disk' = [f \in DOMAIN disk \cup {name} |-> IF f = name THEN data ELSE disk[f]]

\* Mutant of Truncate: the file is written over what was in it.
WriteOver ==
    /\ pc = "write" /\ done < Len(Files)
    /\ LET f == Files[This]
       IN  Put(f.name, IF f.name \in DOMAIN disk THEN disk[f.name] ELSE <<>>)
    /\ Goto("writing")
    /\ UNCHANGED <<cmd, entries, dumps, done, out, module>>

Truncate ==
    /\ pc = "write" /\ done < Len(Files)
    /\ Put(Files[This].name, <<>>)
    /\ Goto("writing")
    /\ UNCHANGED <<cmd, entries, dumps, done, out, module>>

\* n units go over the beginning of the file.
Written(n) ==
    LET f == Files[This]
    IN  SubSeq(f.data, 1, n) \o SubSeq(disk[f.name], n + 1, Len(disk[f.name]))

Write ==
    /\ pc = "writing"
    /\ Put(Files[This].name, Written(Len(Files[This].data)))
    /\ done' = This
    /\ Goto("write")
    /\ UNCHANGED <<cmd, entries, dumps, out, module>>

Torn ==
    /\ pc = "writing"
    /\ \E n \in 0 .. Len(Files[This].data) - 1 : Put(Files[This].name, Written(n))
    /\ Goto("failed")
    /\ UNCHANGED <<cmd, entries, dumps, done, out, module>>

Finish ==
    /\ pc = "write" /\ done = Len(Files)
    /\ Goto("ok")
    /\ UNCHANGED <<cmd, entries, dumps, done, out, disk, module>>

Init ==
    /\ cmd \in Commands /\ disk \in Disks
    /\ pc = "parse" /\ entries = <<>> /\ dumps = <<>> /\ done = 0 /\ out = <<>>
    /\ module = "rom"

Next ==
    \/ Parse \/ ParseFails \/ BuildPlan \/ PlanFails \/ BringUp \/ BringUpFails
    \/ ReadRegion \/ ReadFails \/ Reset
    \/ Splice \/ ShortRead \/ Refresh
    \/ Truncate \/ Write \/ Torn \/ Finish

Spec == Init /\ [][Next]_vars

----
(***************************************************************************)
(* Properties.                                                             *)
(***************************************************************************)

\* The variables have their types; what was read is no longer than its region.
TypeOK ==
    /\ cmd \in Commands
    /\ pc \in {"parse", "plan", "connect", "read", "splice", "write", "writing",
               "ok", "failed", "panic"}
    /\ Len(dumps) <= Len(Targets)
    /\ \A k \in DOMAIN dumps : Len(dumps[k]) <= Targets[k].size
    /\ done <= Len(dumps)
    /\ module \in {"rom", "fdl2", "app"}

\* clone slices its copy of the PAC with the offsets of a file nobody vouched for:
\* parse has looked at every one that it slices with.
NeverPanics == pc # "panic"

Complete(g) == Parses(g) /\ CrcOk(g, TRUE)

\* Whatever was interrupted, and whatever lay there before, a file at the golden
\* path that parse(_, false) takes, as clone and dump call it, is a whole golden PAC.
TornIsRefused ==
    Golden \in DOMAIN disk /\ Parses(disk[Golden]) => Complete(disk[Golden])

Shares(r, i) == i \in r.offset + 1 .. r.offset + r.size

\* The golden PAC has the reference's table, and every unit of it is the flash's,
\* of the last partition that claims it, or the reference's.
GoldenIsCaptured(g) ==
    /\ Complete(g) /\ Rows(g) = entries /\ Len(g) = Len(cmd.file)
    /\ \A i \in 2 .. Len(g) :
          LET claims == {k \in DOMAIN Targets : Shares(Targets[k], i)}
          IN  IF claims = {} THEN g[i] = cmd.file[i]
              ELSE LET r == Targets[CHOOSE k \in claims : \A l \in claims : l <= k]
                   IN  g[i] = Flash[r.address + i - r.offset - 1]

\* A dumped file holds the beginning of the last region of its name.
FilesAreCaptured ==
    \A k \in DOMAIN Targets :
        (\A l \in DOMAIN Targets : Targets[l].name = Targets[k].name => l <= k) =>
            LET d == disk[Targets[k].name]
            IN  d = SubSeq(Held(Targets[k]), 1, Len(d))

\* A command that ends well leaves what it says it captured, and the module runs
\* its own firmware again.
WrittenIsCaptured ==
    pc = "ok" =>
        /\ module = "app"
        /\ IF cmd.kind = "clone" THEN GoldenIsCaptured(disk[Golden]) ELSE FilesAreCaptured
====

# sprdflash in TLA+

TLA+ models of sprdflash, the flasher and manufacturing-line tool for RDA8910
and UIS8910 modules, model-checked with TLC and in part proved with TLAPS.
Paths are relative to `src/`; `F` stands for
`crates/sprdflash-flash/src/flasher.rs`, `B` for `bsl_io.rs` beside it.

## The system

The tool talks to one module over a serial port that is really a USB CDC
device: it appears when the module enumerates and goes away when it reboots.
All traffic is command and response, the host sends and then waits for at most
one reply up to a deadline. What outlives a process is the flash of the module,
the records file of a line, and the files that `dump` and `clone` write.

| part | state it keeps | operations | what makes it correct |
|---|---|---|---|
| PDL client (`pdl_io.rs`, `pdl.rs`) | none beyond the port | connect, send_stage (start, midst, end, exec) of FDL1, the check-baud kicks until VER | FDL1 runs whole or the flash is given up |
| BSL client (`B`, `bsl.rs`) | one frame reader; bytes behind a frame are dropped | connect, send_stage, read_flash, command | a reply is the answer to the command just sent |
| flasher (`F`) | entry, offset, chunk, timing | bring_up, run, send_stage_adaptive, write_nv, dump, discover_flash_size, dump_full, probe_commands | Ok means flashed; no reboot of a half-written module; a dump is the flash |
| flash plan (`plan.rs`) | lists computed from a PAC | classify, erase_ops, data_markers, nv_fix_crc, build | no entry of the PAC falls between the lists |
| CLI (`main.rs`) | attempt, resolved port | resolve_download_port, flash_with_recovery, send_normal_reset, clone, dump, the line's Ctrl-C handler, printing | one retry recovers a module stuck in a loader; a file holds what the flash holds |
| discovery and recovery (`discovery.rs`, `recovery.rs`) | none, they enumerate the bus | find_download_port, find_module_ports, wait_for_*, at_enter_download, driver restart | the right module is taken; waits end |
| serial transport (`serial.rs`) | port handle, line rate | open with retry, send, read_until, purge, teardown | deadlines bound every read |
| station (`station.rs`, `verify.rs`) | attempt, port, what the unit is | ensure_download, try_once, run_unit, recover, wait_for_next_unit | one true record per unit, no unit flashed twice |
| line (`line.rs`, `record.rs`) | a thread per station, shared records, sink, stop flag | run | every unit recorded, the line stops when asked |
| metrics (`metrics.rs`) | atomic counters | record, totals, render, serve | totals agree with the records |
| reconstruction (`reconstruct.rs`) | cursor, anchors | reconstruct, segment_backhalf, detectors | regions tile the dump, code is never cut |
| PAC parser (`pac.rs`) | none | parse, payload, crc_ok | nothing outside the file is used |
| checksums, frame escaping (`checksum.rs`, `bsl.rs`) | none | pure functions over bytes | they match the vendor's formats |
| simulated device (`mock.rs`) | write in progress, flash, layer | process | the reference for the module's side |
| MES ingest (`tools/mes_ingest.py`) | a transaction; the table in the database | read the records file, upsert, commit | a replay changes nothing, no row replaces another |
| schemas, dashboards | none | data files | |

How the parts interact: the CLI or a station resolves a port, opens it and calls
`Flasher::run`, which builds the plan, brings the module up through PDL and BSL
and writes the plan's lists. Stations run in parallel threads and share only
the records mutex, the sink, the metrics, the stop flag and, unlike the code's
structure suggests, the USB bus: each of them enumerates all of it.

The hard behaviours are the ones in `hazards` of `PROJECT.json`: lost and late
replies under stop-and-wait with retries, a module found in any state, units
that vanish from the bus while they reboot, threads that take each other's
ports, a stop that arrives during a wait, entries failing after others were
written, boundaries in searches and cuts, a file torn by the end of the
process, and an ingester that reads a file while it is written.

## Modules

| module | models | state and actions in terms of the code |
|---|---|---|
| `FlashJob` | what `run` promises | entries are confirmed in order and only while good; writing one may spoil those whose addresses it overlaps; Ok only when all are confirmed; reboot only after Ok |
| `BslSession` | the FDL2 half of `run` with `send_stage_adaptive`, `write_nv`, `read_flash`, `command`; the module's FDL2 after `mock.rs` | `pc` is the command whose reply is awaited, `pos` the entry, `sent`/`chunk` the locals of the stage, `cur`/`flash` the device's `Write` and memory, two queues of frames; one action per reply the host can read, per timeout branch and per device command |
| `Plan` | `plan.rs` over a PAC of entries (id, address, size) | operators, no state |
| `PacSession` | `Plan` and `BslSession` together: the session's lists are those the plan gives, and which entries overlap follows from their addresses | adds the end-to-end property |
| `FlashDump` | `discover_flash_size`, `dump_full`, `read_flash` | the bracket of the search, the read loop's offset and buffer, one step per exchange |
| `BringUp` | `flash_with_recovery` around `bring_up`; boot ROM, FDL1 and FDL2 as a module | `Script` is the fixed list of commands, `at` the position in it; the module is in app, pdl, fdl1, fdl2 or between two of them |
| `Line` | `line.rs` and `station.rs`: threads over one USB bus, the units and the operator | `pc[s]` is where station s's thread is; `slot`, `mode`, `fw` are the units as they are, not as the code believes |
| `LineJob` | what a line promises of its units | a unit is on a fixture from its arrival to its record; it is flashed there until it has passed or the line is stopped, and passes only with the whole firmware and an IMEI of its own or of nobody |
| `Reconstruct` | `reconstruct` and `segment_backhalf` over blocks | `off`, `segs`, `next`, `best` are the locals of the loops; one action per branch of a loop body |
| `Wire` | `build_message`, `parse_message`, `escape`, `unescape`, `sprd_sum`, `find_frame_body`, `recv`, `read_until`, `purge_input` | bytes are digits of a smaller base; `line` is what was sent and not read, `acc` the reader's buffer, `got` what `recv` returned; a read takes any beginning of the line |
| `Tally` | `run` of `line.rs` from the end of `run_unit` on, `metrics.rs`, the records file | `pc[s]` goes through the counters, the two writes of `writeln!`, the push and the wait, one step each; `main` and `exporter` are the two other threads; Crash and Restart keep the file only |
| `Ingest` | `mes_ingest.py` and the upsert of its statement | one step per line read; `batch` is the open transaction |
| `Records` | `Tally` and `Ingest` over one file | |
| `Capture` | `cmd_clone`, `cmd_dump`, `Flasher::dump`, `pac::parse` and `fs::write` | `pc` follows the command; a file is a sequence of units, header, rows, payload; a checksum is what it was taken over; a write truncates, then completes or is torn |
| `PacSession_proofs`, `FlashDump_proofs`, `BringUp_proofs`, `Line_proofs`, `Reconstruct_proofs`, `Wire_proofs`, `Records_proofs`, `Capture_proofs` | theorems of the module named; those of `BslSession` are in `PacSession_proofs` | |
| `MC*` | the instances of the runs | |

`PacSession` composes `Plan` with `BslSession`; `BslSession` implements
`FlashJob` (`Job == INSTANCE FlashJob WITH ...`, where `good` is whether the
device holds an entry), and `Line` implements `LineJob`, with the fixtures, the
firmware of the units and the records as they are, in the configurations of
`OwnPorts`. `BringUp` ends where `BslSession` and `FlashDump`
begin. `Line` takes the whole flash as one step with its outcome, which is what
`BslSession` shows a flash to be, and `Tally` takes a unit as one step, which is
what `Line` shows it to be. `Capture` instantiates `Plan` with the entries its
parser found, and takes a region as one step, which is what `FlashDump` shows of
`read_flash`. `Wire` is below `BslSession`: what the one calls a reply is what the
other shows `recv` to return.

### Abstractions

Payloads are sequences of units; unit i of entry e is the pair <<e, i>>, the
stale NV CRC is unit <<e, 0>>, and what the flash held before is <<e, -1>>, so
a unit lost, repeated or misplaced shows. The flash is kept by entry; what entries
whose addresses overlap do to one another is `Overlaps`, a relation that `PacSession`
derives from the addresses: writing or erasing one leaves nothing of the other (`Put`),
so that the properties speak of the entries that no later operation overlaps (`Kept`).
Frames are records there, and bytes in `Wire`. Time is left out: a timeout may happen when no
reply is there, and with the fault `late` also before a reply that still comes.
`purge_input` removes the replies that have arrived and not those still to come.
The reader keeps one frame and drops those behind it, as `recv` does.

Where `mock.rs` only acknowledges a command, the module's side is external:
NV CRC check at END_DATA, ERASE_FLASH, OPERATION_FAILED, a flash cell that
keeps other bytes, and in `BringUp` the loaders' reaction to pieces, resets
and stray kicks. In `BringUp` a name given with `--port` that has become the
port of a running module counts as not openable. `Line` has the boot check as
one step: a unit that has booted its firmware answers `ATI`, one that is mute does not,
and with the event `mumble` the IMEI that is recorded may be empty or a line that is
nobody's IMEI. The reset at the end of a flash may be lost when units may be bad, and
leaves the unit in download mode. The operator takes a unit away after its record; the
next one comes when the station has seen the fixture empty, or at any time where the
station has no port by which to see it.

In `Wire` a byte is below 4 instead of 256 and every field has two of them, so a
length of 16 already wraps. The device's replies are given by the instance and
sent whether asked for or not; requests take the same `build_message`. In
`Tally` the clock moves only when it has to: at the 500 ms pause of a station and
at a restart of the process, so that two records of equal time are possible
wherever the code does not keep them apart. That two starts of the process differ
in time is assumed, and that stations have distinct labels, which the code does
not check. What a failed write leaves is nothing, a piece that is no JSON, or a
piece that ends inside a character. In `Capture` an empty reply may cut a region
short anywhere; the payload of a PAC lies behind its table.

## Runs

| run | what it asks | size |
|---|---|---|
| `session_prompt` | a PAC with three partitions, two of which overlap, an erase and two markers, `--format`, read-back and reset; up to 5 lost frames or replies, refusals, port and payload errors: Ok means flashed (of the plan and of the PAC), the buffer is a prefix, host and device in step, `FlashJob` implemented, back-off survives the stalls it is made for, the session ends | 6 148 states |
| `session_late` | the same with late replies, bad cells, 2 losses, no `--format`: with `--verify-readback` an Ok still means what the read-back can see | 169 304 |
| `session_stale_ack` | finding: without read-back a late ACK survives the purge and shifts all replies by one; Ok without the flash being written | |
| `dump_full` | flashes of every length from 0 to 20 units, cap 8, devices with any set of failing, short and empty replies: the size found is right, the image is the flash, and an Ok is all of it unless the device sends empty replies | 5 103 |
| `bringup` | a module in any of four states, each way of calling, each fault, a reset slower than its wait among them, and losses with late replies: Ok means the last loader at the right rate; on a link that is `Steady` the loader in memory is in step, also in a second attempt; a stuck module is recovered; the flash ends | 29 240 |
| `line` | one fixture in each configuration of ports and two fixtures with a download port each, failing units, units that answer `AT+CGSN` with no IMEI or another line, Ctrl-C in all of these: a PASS is genuine, until a stop no unit is flashed twice, `LineJob` is implemented, every unit on a fixture with a port gets its record, a stop ends the line | 235 196 |
| `line_reflash` | finding: with `--no-verify` the unit's own reboot counts as a swap and it is flashed again | |
| `line_cross` | finding: stations with AT ports only take each other's download ports and record PASS for a unit never flashed | |
| `reconstruct` | every image of four blocks and of four and a half, over code images of three sizes, packs, two generations, erased and other blocks | 367 620 |
| `wire` | replies whose type, data and checksum hold flags and escapes, data of the length field's limit and beyond, and a byte damaged on the line; reads cut anywhere, timeouts, purges: what `recv` returns are replies in their order, one wrong result at most per damage, and a reply ends the wait whatever lies before it | 30 109 |
| `records` | a continuous station, two with an exporter and Ctrl-C, a batch of two, and a batch restarted twice, with failed writes, deaths of the process and the ingester: totals add up, a fault costs two records at most, the table of the MES only grows and holds what a commit has read, `run` returns unless a scraper stays silent | 582 204 |
| `capture` | clone of every PAC with two partitions of 0 to 2 units anywhere in or behind the file, of damaged ones, dump with and without regions, short reads, torn files over older ones | 8 694 |

The findings are in `PROJECT.json`, each with the comment it contradicts. They
are runs expected to end in a violation; in every other run all properties
hold. Every property of those is broken by a mutant of the code listed there.

### Bounds

- Session: `AP` of 5 units with chunk 4 gives a full and a partial piece, and
  chunks 4, 2, 1 two halvings to the floor; five losses are more than the
  back-off has halvings, so giving up is reached too. `FLASH` shares the address
  of `FMT_FSSYS`, so the deduplication of erases happens; `AP` begins at the last
  address of `BOOT`, and `PS` right behind `AP`, so both sides of the border between
  overlapping and adjacent occur. In `session_late` two
  losses and any number of late replies suffice for a retry inside a retry.
- Dump: lengths on, below and above every block, and beyond the cap, with a
  chunk that divides neither the block nor the size.
- Bring-up: loaders of two pieces (first and last differ), one loss, two
  check-baud kicks (one sent when FDL1 already answers).
- Line: three units, so one fixture sees two swaps; one retry. A single fixture
  has a stop together with bad units, and together with odd answers to `AT+CGSN`; two
  fixtures have it with bad units. Properties that
  fail on purpose elsewhere (two AT-only stations, `--no-verify` with an AT
  port) are in runs of their own, and `line` has the configurations without
  them. Two fixtures with verification are left out of the passing run: a
  station's `wait_for_module` ends at any module on the bus, the same cause as
  `line_cross`.
- Reconstruction: four whole blocks allow code, a run, a longer or equal run
  and a top region; images of 1, 6 and 8 units in blocks of 4 end within the
  first block, inside the second, and exactly on a border.

- Wire: the digits are just enough for a flag, an escape and two that are
  neither, and for every alignment of a cut; with two damaged bytes (260 041
  states) the properties hold as well.
- Records: at most two units per station, `RECENT_KEEP` of 2 with three records
  or more in a continuous run, and one fault, or two in the smallest
  configuration: enough for a fault in the line that a fault before it spoilt.
- Capture: two partitions suffice to share payload, and offsets reach two units
  behind the end of the file; each region can be cut at every unit.

`CHECK_DEADLOCK FALSE` appears where the system may stop: in `Line` the bench may
run out of units and a single-shot line ends, in `Records` a line that has
returned or waits for a unit nobody brings does nothing more, and a `Capture`
command ends. All other models have an explicit final step or can go on.

### Fairness

Host steps are weakly fair: every receive polls to a deadline and then returns
(`serial.rs:57-82`), so the host always moves. Device steps are weakly fair: a
module answers the frames that reach it; losing a frame or being late is a
separate action without fairness. A station's thread is weakly fair (its waits
poll every 250 ms) and so is the end of a unit's reboot. The operator, Ctrl-C,
faults and failing units have no fairness. `Reconstruct` is sequential code
and takes its next step. In `Records` the stations' threads, the exporter's loop
and `run` are weakly fair; clients, who brings the next unit, the ingester, Ctrl-C,
deaths and restarts are not, so `RunReturns` has the condition that no client
stays connected and silent. `Wire` and `Capture` state no liveness.

## Proofs

TLAPS checks the following for every value of the constants within the named
assumptions, which TLC evaluates on the runs of the modules. Each invariant was
checked by TLC on the instance of its run before it was proved, but for `GenInv` of
`Wire`, which speaks of a past that no variable holds: there TLC checks the property
it implies. Where a theorem has a hypothesis, the last column says what it is for.

| module | theorem | states | beyond the assumptions |
|---|---|---|---|
| `PacSession_proofs`, on the session | `TypeCorrect` | the type invariant | the theorems on the session cite nothing of `PlanAssumption` and `PlanOfPac` |
| | `PromptInvariant`, `OkIsFlashed`, `BootIsFlashed`, `BufferPrefix` | `PromptInv`, `OkMeansFlashed`, `BootsOnlyFlashed`, `BufferIsPrefix` | `PromptLink`: replies beat the deadline and the flash keeps what it is given. Losses, refusals, port and payload errors are free. `session_stale_ack` is the counterexample without it |
| | `SessionIsFlashJob` | the session implements `FlashJob` | `PromptLink` |
| | `StallsSurvived` | `StallsAreSurvived`: a stage is given up only after more losses than its chunk has halvings | `PromptLink` |
| | `OkIsReadBack` | `OkMeansReadBack`, under every fault, late replies and bad cells included | `VerifyReadback`: it is what the option is for |
| `PacSession_proofs`, on the plan | `PacFlashed` | `PacIsFlashed`, for any PAC of distinct ids, with overlapping addresses or without | `PromptLink` |
| `FlashDump_proofs` | `DumpInvariant`, `DiscoveredSize`, `DumpIsPrefix`, `DumpIsWhole` | `DumpInv`, `SizeIsRight`, `ImageIsFlash`, `OkMeansWhole` | the last is about devices that send no empty replies |
| `BringUp_proofs` | `TypeCorrect`, `BroughtUp` | `TypeOK`, `OkMeansBroughtUp`, under every combination of faults | |
| | `LoadersInStep` | `LoaderInStep` | the property is about `Steady` links |
| `Line_proofs` | `TypeCorrect` | the type invariant | |
| | `PassOnOwnPorts`, `SwapOnOwnPorts` | `PassIsGenuine`, `NeverReflashed` | `OwnPorts`, see below |
| | `LineIsLineJob` | the line implements `LineJob` | `OwnPorts` |
| `Reconstruct_proofs` | `TypeCorrect`, `RegionsTile`, `ImagesStayWhole`, `WrittenIsKept`, `ImagesAreFound`, `LiveFsIsRight` | `TypeOK`, `Tiling`, `CodeIsWhole`, `NothingWrittenIsLost`, `CodeIsFound`, `LiveFsIsLongest` | |
| `Wire_proofs` | `TypeCorrect` | the type invariant | |
| | `RoundTrip` | `unescape` undoes `escape`, for every sequence of bytes | |
| | `ReplyEnds`, `RepliesGenuine` | `ReplyEndsTheWait`, `RepliesAreGenuine`, for bytes of any size, any replies and any number of damaged bytes | |
| `Records_proofs` | `TypeCorrect`, `SummaryIsRight`, `LossStaysBounded`, `MesStaysFaithful` | `TypeOK`, `SummaryAddsUp`, `LossIsBounded`, `MesIsFaithful` | |
| `Capture_proofs` | `TypeCorrect`, `CloneNeverPanics`, `CapturedIsWritten` | the type invariant, `NeverPanics`, `WrittenIsCaptured` | |
| | `TornRefused` | `TornIsRefused` | `DisksAreSound`: what lies at the golden path beforehand is a whole PAC or does not parse |

### The arguments

**Session.** `OkMeansFlashed` is not inductive: nothing in it says that an ACK
read by the host answers the command it sent. `PromptInv` adds that.
`OneInFlight`: there is a single frame or reply on the link, and none between
entries; `RequestInFlight`: the frame is the one of the host's `pc`;
`StageInStep`: the device's buffer is the image's prefix the host believes it to
be, before and after the device took the piece; `WrittenSoFar`: entries before
`pos` are written, but for those an operation already begun or still to come
overlaps; `ResetIsLast`: Ok and NORMAL_RESET come last. A lost frame
leaves the link empty, so the timeout's CONNECT starts from the same situation
as a new stage and START_DATA empties the buffer: this is the step on which the
back-off rests. The refinement follows with `good` as `Holds`.

`StallInv` is the accounting of the back-off: the losses so far and the halvings
left are at least the halvings of the first chunk, and one more while a reply is
awaited on an empty link. A timeout on a prompt link finds the link empty
(`PromptInv`), so the loss it answers has been counted. That `Halvings`, a
recursive function, exists at all is proved by a least counterexample.

With late replies `PromptInv` is false, and `ReadBackInv` takes its place: it
says nothing of replies in general, only of READ_FLASH's. A frame on its way
never writes an entry that has been read back (`WritesAreSafe`, `FramesAreSafe`),
a DATA reply taken for a read is the flash at the time (`ReadInOrder`), and what
has been read back is held to the end, if no later operation overlaps it (`LaterWrite`).
The partitions are distinct from the erased entries (`OpsAssumption`), or a later erase
would undo a read-back.

**Plan of a PAC.** From `OkIsFlashed` an Ok stands for every entry in the lists
of the plan; the proof shows that these are all the entries that carry data, and
with `--format` all markers, so that no guard of `plan.rs` lets an entry fall
between `classify`, `erase_ops` and `data_markers`, and that a list has an id
for each entry sorted into it. What overlaps is excepted entry by entry, so for
distinct addresses the theorem says the whole PAC.

**Dump.** While the search runs, what lies below the lower end of the bracket is
readable and the upper end is not or is the cap, both are multiples of the
block, and the buffer is the flash up to the offset reached. `OkMeansWhole` joins the
three: the size found is not below the end of the flash, the requests that straddle it
end with what there is, and without an empty reply the loop ends only at the size.

**Bring-up.** `ChannelInv` relates the link to the script: what is on its way to
the module is the command at `at`, perhaps behind kicks and resets of an earlier
attempt, and a reply that advances the host has a module behind it that has gone
as far. `DeadInv`: nothing is under way on a port whose device has gone.
`OkMeansBroughtUp` needs both, but nothing of the memory, and so holds under all
faults. `LoaderInStep` needs `LossInv` (on a link that loses frames, one command
or reply at a time) and `RamInv` (memory is the pieces sent so far) as well.
The proof attempt found `LoaderInStep` false without the last conjunct of
`Steady`, and TLC confirmed it: when a port fails on a link that also loses
frames, a reply to the abandoned attempt stands for a lost one of the second.

**Line.** `OwnPorts` is the set of configurations in which a station flashes the
unit of its own fixture: it is alone, or every station has a download port and
none an AT port; the boot check, which looks at the whole bus, only alone; an AT
port only with the boot check. `line_cross` and `line_reflash` are
the counterexamples outside of it. `LineInv` is type correctness and, under
`OwnPorts`, `UnitsApart` (no unit is on two fixtures), `OwnUnit` (a port that is
open is the fixture's, and the unit behind it in download mode) and `PassedStays`:
until a stop a unit that passed has the new firmware and is `Settled`, which is out of
download mode, or on a fixture whose station waits for its removal (`Waiting`), as
with a reset that was lost. An AT port could bring a unit back, so with one a passed
unit is in its firmware, which the station sees, and so waits. The invariant is needed
because records refer to a unit long after the station has gone on. A stop ends the
wait, and what the last round does to the unit is left open; that the IMEI on a
record is the unit's own or nobody's holds after it as well. The refinement needs one
invariant more, `ShelfIsNew`: a unit that has not come to a fixture has the firmware it
was made with and no record. Then the end of a flash is `Flash`, or `FlashAndPass`
without the boot check; `VerifyOk` is `Pass` because the port asked is the fixture's
own (`OwnUnit`); a unit that a station opens the port of has not passed or the line is
stopped (`PassedStays`), which is what `Due` asks; every other step of a thread
changes nothing that `LineJob` sees.

**Reconstruction.** `CursorInv` and `SegInv`: anchors ascend, lie below the
cursor, and none lies inside a code image before it; `FoundInv`: each image
passed has an anchor; `RunInv`: the best run is at least as long as any run
begun below the index of phase 2; `CutInv`: the best run's ends are boundaries;
`RegionInv`: the regions made are the intervals between the anchors. `LeadInv`: the
blocks stepped over before the first anchor are whole and begin nothing known, of
which `Tiling` says the part before the first base. The scan of `used_len` is a
recursive function that goes down from the limit: that it exists is shown by a least
counterexample, and `UsedLenFacts` that it stops at the last written block
(`NothingWrittenIsLost`). The properties follow at `done`.

**Wire.** The codec's loops are recursive functions over the positions of a message;
that each exists, and what its values are, is shown by counting up, for which a
least counterexample suffices. `RoundTrip` follows along the bytes of the body, and
with it that a message is a frame: two flags with no flag between them, which
`find_frame_body` finds and `parse_message` reads back as the reply, its length taken
modulo the field (`Heard`). `EndInv`: while the host waits, its buffer holds no
closing flag, and what it has read and what is left on the line end in the reply sent
last, if nothing damaged it; so when the line is empty that reply has been found, or
one before it. `GenInv` says that there is a past which explains the state: what the
device sent (`Laid`, the frames of the replies one behind the other), what became of
it on the line (`Changed`, at one place for each damage at most), how much of that is
dealt with (`Window`: the buffer and the line are the rest), and where the frame of
each result lay (`Results`, which ascend and do not overlap). Reads move the border
between buffer and line, timeouts and purges move the beginning of the window, and
damage changes a place in it. Two flags with something flag-free between them in what
was sent are those of one message (`FrameAt`), so a result whose frame holds no
changed place is a reply, whole and in its place; the others have a changed place
each, and as the frames are disjoint there are no more of them than damages.

**Records.** `CountInv`: each counter is ahead of the kept records by the threads
that have bumped it and not yet pushed, so the totals agree once the threads are
through. `RecentInv` bounds what is kept. `FileInv`: a thread between the two
writes of `writeln!` holds the sink and has written the last piece. `LossInv`
counts, beside the records lost, the debt of an unfinished line: the record on it
and the next one may still be lost. `KeyInv`: a thread's next time stamp is later
than all of its station's, which keeps the keys of the table apart; `MesInv`: rows
are whole records, and everything readable before the ingester's position is in
its batch.

**Capture.** `StageInv`: the entries are those of a reference that parse has
accepted, so all slices are inside it and `NeverPanics` follows; `DumpInv`: what
was read of a region is its beginning; `SpliceInv`: a unit of the copy is that of
the last partition spliced over it, or the reference's; `WriteInv`: files written
are on the disk except where a later one took their name, and the one being
written is empty. `TornIsRefused` then holds because a torn payload does not have
the checksum in the header.

### Assumptions

- `OpsAssumption`, `SizeAssumption`, `OptionAssumption` (session): the lists are
  sequences without a repetition, partitions are not erased, sizes are natural and
  0 exactly for what is erased, chunks are positive.
- `OverlapAssumption` (session): `Overlaps` is a relation on the entries, any one.
- `PlanAssumption`, `PlanOfPac`: ids of a PAC are distinct, formatting names are no
  loaders; the session's lists are those of the plan, its overlaps those of the
  addresses, and the plan can be built.
- `ParameterAssumption` (dump), `NumberAssumption` and `ConfigAssumption`
  (bring-up), `ReconstructAssumption`, `WireAssumption`: positive blocks, chunks,
  pieces and kicks, and the types of the configurations.
- `LineAssumption`, `TallyAssumption`: finitely many stations, and in `Records`
  distinct labels, which the code does not check.
- `CommandAssumption`, `FlashAssumption` (capture): an input file is a header, its
  rows and units behind them.

### Only model-checked

All liveness (`Terminates`, `StuckIsRecovered`, `UnitsAreRecorded`, `StopEnds`,
`RunReturns`): the provers have no rules for fairness and ENABLED. Every invariant
and action property of a run has its theorem. What holds
under late replies without a read-back is little, and `session_late` shows what
does with one.

## Seen on the way, and not made a finding

- A chip whose size is not a multiple of 64 KiB: the search rounds the size up to
  the end of the block that is readable at its beginning, and the last request ends
  with what there is or fails; a chip above 128 MiB is capped without a word.
- Entries of a PAC whose addresses overlap are written over each other: neither
  `pac.rs` nor `plan.rs` refuses them, each is confirmed and read back in its turn,
  and the one written last stays.
- `reconstruct` drops whatever lies before its first anchor: the regions tile
  the dump from the first base on. Its header speaks of the top change of block
  family marking the NV region; the code calls the last filesystem region `nv`,
  also when that is the live filesystem reaching the end.
- Timeouts outside a stage (ERASE_FLASH, READ_FLASH) and of CONNECT are not
  retried; a stage is retried without bound by count, only by the chunk.
- Read-back cannot see units written behind an entry's length, which a lost
  START_DATA with a late reply can leave there (`Holds`).
- `dump_full` leaves its loop on an empty reply and returns Ok with less than the
  size, although `B:177` leaves a length check to the caller and neither caller
  makes one (`F:240`, `main.rs:842`). `OkMeansWhole` excepts such devices.
- The recovery of `flash_with_recovery` does not recover a module that has a
  firmware to boot when it was called with `--port` or without
  `--enter-download`: the reset boots the firmware and the retry finds no
  download port. `StuckIsRecovered` has the condition under which it does.
- The open of a second attempt in `flash_with_recovery` purges what has arrived of
  the first, not what the module still answers: when the port failed on a link that
  loses frames, such an answer stands for a lost one of the second attempt, and a loader can be started with a
  piece missing (`Steady` excludes it).
- When the reset of `flash_with_recovery` keeps a module off the bus for more than
  20 s, the wait ends all the same (`main.rs:523-532`) and the retry may find no port.
- A PASS of the boot check asks less than its comments say. `verify.rs:4-6` and
  `record.rs:14` speak of the right build; the banner of `ATI` is compared with
  nothing. The IMEI is the first line of the answer to `AT+CGSN` that is no echo, or
  empty when there is none (`verify.rs:49-54, 67`): `OddAnswers`.
- A stop during `wait_for_next_unit` starts one more `run_unit` (`line.rs:147-154`), on
  an empty fixture or on the unit that has just passed, which with an AT port or after
  a lost reset is flashed again, against `station.rs:211-214`; when that flash fails,
  the unit with a PASS has half a firmware. `Tally` has that step too (`WaitStopped`).
- A station without configured ports waits for an empty bench after its record. A
  unit put in before it has looked (the 500 ms of `line.rs:152`, or a fixture that was
  empty to begin with) keeps the bench from being empty, and is never flashed
  (`station.rs:222-229`): `UnitsAreRecorded` leaves such stations out.
- NORMAL_RESET is not acknowledged: when it is lost the flash is Ok, without the boot
  check a PASS, and the module stays in download mode.
- A chunk above 65535 bytes wraps the length of its frame. For replies the host
  then takes the low part of the length and reads on behind it; `Heard` is what
  it can know. The checksum of a reply is never looked at.
- The mock looks for a frame between the first two flags and does not skip a run
  of flags, as `find_frame_body` does.
- When the records file does not open, or a write to it fails, the line goes on
  without a record; a torn record takes the next one on its line with it.
- An incomplete character in the records file ends the ingester with an error
  outside its `try`: nothing of the file is ingested until it is repaired. Fed
  from `tail -f`, the ingester never reaches its COMMIT.
- Two `--station` arguments with one label share the keys of the MES table.
- `clone` does not ask for the checksums of its reference, and partitions that
  share payload in it are spliced one over the other.

## Not modelled

The text of PDL frames, the CRCs' arithmetic and `detect_checksum`: pure
functions over bytes with vectors in their tests, of which the program never
calls the last. `probe_commands` is a debugging aid. The Windows driver restart,
argument parsing, printing and the text of the metrics: input and output without
a decision in them. The confidence and the XML of a reconstructed layout.
Schemas and dashboards are data files. Threads that panic are not modelled: the
code says of `run_unit` that it never does.

## Plan

1. Done: `FlashJob`, `BslSession`, `Plan` and `PacSession`, `FlashDump`, `BringUp`,
   `LineJob` and `Line`, `Reconstruct`, `Wire`, `Tally`, `Ingest` and `Records`,
   `Capture`, each with proofs of its safety properties and of its refinement.
2. Possible extensions: the checks behind a layout's confidence; an abstract
   specification of the link that `Wire` implements and `BslSession` uses.
3. Keep: constants with named assumptions, invariants as named conjuncts, no
   RECURSIVE operators in a module with theorems.

---- MODULE BslSession ----
(***************************************************************************)
(* The FDL2 half of Flasher::run (crates/sprdflash-flash): every partition *)
(* written with START_DATA, MIDST_DATA*, END_DATA in stop-and-wait, the    *)
(* optional read-back, the format erases, the NV and PREPACK markers and   *)
(* NORMAL_RESET, with the adaptive retry on a response timeout.            *)
(*                                                                         *)
(* The host is send_stage_adaptive, write_nv and read_flash over BslIo.    *)
(* The device is the one the repository's MockTransport describes.  The    *)
(* link is two FIFO queues of frames.  What can go wrong is chosen by the  *)
(* constant Faults; a payload is a sequence of units, small enough to be   *)
(* counted and large enough for the chunk to matter.                       *)
(***************************************************************************)
EXTENDS Integers, Sequences

CONSTANTS
    Partitions,      \* the plan's payload partitions, in PAC order
    Erases,          \* the plan's ERASE_FLASH operations, in PAC order
    Markers,         \* the plan's data markers (NV, PREPACK), in PAC order
    NvEntry,         \* the entry is_nv() accepts, or none of them
    Size,            \* the payload length of every entry, in units
    Overlaps,        \* the pairs <<e, f>> where what is written of e spoils f
    Format,          \* FlashOptions::format
    VerifyReadback,  \* FlashOptions::verify_readback
    Reset,           \* FlashOptions::reset
    Chunk,           \* FlashOptions::chunk, in units
    MinChunk,        \* MIN_ADAPTIVE_CHUNK, in units
    ReadChunk,       \* READBACK_CHUNK, in units
    Faults,          \* what may go wrong, a subset of AllFaults
    MaxLosses        \* bound on the frames and replies lost in a session

AllFaults == {
    "loss",     \* a frame or a reply disappears (the cdc_acm tail stall)
    "late",     \* a reply is slower than the host's response timeout
    "refuse",   \* the device answers OPERATION_FAILED
    "badcell",  \* END_DATA is acknowledged but the flash keeps other bytes
    "port",     \* the serial port itself fails
    "payload" } \* an entry's payload lies outside the PAC file

Ops == Partitions \o (IF Format THEN Erases \o Markers ELSE << >>)

Entries == {Ops[i] : i \in DOMAIN Ops}
PartitionSet == {Partitions[i] : i \in DOMAIN Partitions}
EraseSet == {Erases[i] : i \in DOMAIN Erases}

ASSUME OpsAssumption ==
    /\ Partitions \in Seq(PartitionSet) /\ Erases \in Seq(EraseSet)
    /\ Markers \in Seq({Markers[i] : i \in DOMAIN Markers})
    /\ Ops \in Seq(Entries)
    /\ "none" \notin Entries
    /\ PartitionSet \cap EraseSet = {}
    /\ \A i, j \in DOMAIN Ops : Ops[i] = Ops[j] => i = j

ASSUME SizeAssumption ==
    /\ Size \in [Entries -> Nat]
    /\ \A e \in Entries : e \in EraseSet <=> Size[e] = 0

ASSUME OverlapAssumption == Overlaps \subseteq Entries \X Entries

ASSUME OptionAssumption ==
    /\ {Format, VerifyReadback, Reset} \subseteq BOOLEAN
    /\ Chunk \in Nat \ {0}
    /\ MinChunk \in Nat \ {0}
    /\ ReadChunk \in Nat \ {0}
    /\ Faults \subseteq AllFaults
    /\ MaxLosses \in Nat

VARIABLES
    pc,       \* the command the host awaits the reply of, or "next", "reset"
    pos,      \* index in Ops of the entry being worked on
    sent,     \* units of the stage acknowledged so far
    chunk,    \* the stage's current chunk
    back,     \* what read_flash has read so far
    outcome,  \* "running", "ok" or "err": what run() has returned
    toDev,    \* frames on their way to the device
    toHost,   \* replies on their way to the host
    cur,      \* the device's write in progress, or NoWrite
    flash,    \* the device's contents of every entry
    mode,     \* "fdl2", or "booted" once NORMAL_RESET was executed
    losses    \* frames and replies lost so far

hostVars == <<pc, pos, sent, chunk, back, outcome>>
devVars == <<cur, flash, mode>>
vars == <<hostVars, toDev, toHost, devVars, losses>>

----
(***************************************************************************)
(* Payloads.  Unit i of entry e is <<e, i>>.  The NV template of a PAC     *)
(* comes with a stale CRC in its first unit, written <<e, 0>>; the units   *)
(* the flash held before the session are <<e, -1>>.                        *)
(***************************************************************************)
Smaller(a, b) == IF a < b THEN a ELSE b
Larger(a, b) == IF a > b THEN a ELSE b

Units == Entries \X Int

Payload(e) == [i \in 1 .. Size[e] |-> <<e, IF e = NvEntry /\ i = 1 THEN 0 ELSE i>>]

NvFixCrc(e) == [i \in 1 .. Size[e] |-> IF i = 1 THEN <<e, 1>> ELSE Payload(e)[i]]

\* What the host writes for an entry; nothing for an entry that is erased.
Image(e) == IF e = NvEntry THEN NvFixCrc(e) ELSE Payload(e)

Old(e) == [i \in 1 .. Larger(Size[e], 1) |-> <<e, -1>>]

Prefix(e, n) == SubSeq(Image(e), 1, n)

NoWrite == [entry |-> "none", buf |-> << >>]

----
(***************************************************************************)
(* Frames and replies.                                                     *)
(***************************************************************************)
Connect == [cmd |-> "CONNECT"]
StartData(e) == [cmd |-> "START_DATA", entry |-> e]
MidstData(d) == [cmd |-> "MIDST_DATA", data |-> d]
EndData == [cmd |-> "END_DATA"]
EraseFlash(e) == [cmd |-> "ERASE_FLASH", entry |-> e]
ReadFlash(e, off, n) == [cmd |-> "READ_FLASH", entry |-> e, off |-> off, len |-> n]
NormalReset == [cmd |-> "NORMAL_RESET"]

Frames ==
    [cmd : {"CONNECT", "END_DATA", "NORMAL_RESET"}]
        \cup [cmd : {"START_DATA", "ERASE_FLASH"}, entry : Entries]
        \cup [cmd : {"MIDST_DATA"}, data : Seq(Units)]
        \cup [cmd : {"READ_FLASH"}, entry : Entries, off : Nat, len : Nat]

Ack == [rep |-> "ACK", data |-> << >>]
Failed == [rep |-> "OPERATION_FAILED", data |-> << >>]
InvalidCmd == [rep |-> "INVALID_CMD", data |-> << >>]
Data(d) == [rep |-> "READ_FLASH", data |-> d]

Replies ==
    [rep : {"ACK", "OPERATION_FAILED", "INVALID_CMD", "READ_FLASH"}, data : Seq(Units)]

StageSteps == {"START_DATA", "MIDST_DATA", "END_DATA"}
Awaiting == StageSteps \cup {"CONNECT", "ERASE_FLASH", "READ_FLASH"}

----
(***************************************************************************)
(* The host.                                                               *)
(***************************************************************************)
Entry == Ops[pos]

Send(f) == toDev' = Append(toDev, f)

\* recv keeps the first frame of what it read and drops what came behind it.
TakeReply ==
    /\ outcome = "running"
    /\ toHost # << >>
    /\ \E surplus \in 0 .. Len(toHost) - 1 :
          toHost' = SubSeq(toHost, surplus + 2, Len(toHost))

\* The reply type command() expects for the command the host awaits.
Expected == IF pc = "READ_FLASH" THEN "READ_FLASH" ELSE "ACK"

\* Mutant of Replied: command() takes any reply for the one it expects.
RepliedAnyType(step) == pc = step /\ TakeReply

Replied(step) ==
    /\ pc = step
    /\ TakeReply
    /\ toHost[1].rep = Expected

\* How far the piece that begins after unit `from` reaches.
Reach(from) == Smaller(from + chunk, Size[Entry])

\* The next request of the stage: the following piece, or END_DATA.
SendPiece(from) ==
    IF from < Size[Entry]
    THEN /\ pc' = "MIDST_DATA"
         /\ Send(MidstData(SubSeq(Image(Entry), from + 1, Reach(from))))
    ELSE /\ pc' = "END_DATA"
         /\ Send(EndData)

SendRead(off) ==
    /\ pc' = "READ_FLASH"
    /\ Send(ReadFlash(Entry, off, Smaller(ReadChunk, Size[Entry] - off)))

BeginStage ==
    /\ outcome = "running" /\ pc = "next" /\ pos <= Len(Ops)
    /\ Entry \notin EraseSet
    /\ pc' = "START_DATA"
    /\ Send(StartData(Entry))
    /\ sent' = 0
    /\ chunk' = Larger(Chunk, 1)
    /\ UNCHANGED <<pos, back, outcome, toHost, devVars, losses>>

BeginErase ==
    /\ outcome = "running" /\ pc = "next" /\ pos <= Len(Ops)
    /\ Entry \in EraseSet
    /\ pc' = "ERASE_FLASH"
    /\ Send(EraseFlash(Entry))
    /\ UNCHANGED <<pos, sent, chunk, back, outcome, toHost, devVars, losses>>

PayloadMissing ==
    /\ outcome = "running" /\ pc = "next" /\ pos <= Len(Ops)
    /\ "payload" \in Faults
    /\ Entry \notin EraseSet
    /\ outcome' = "err"
    /\ UNCHANGED <<pc, pos, sent, chunk, back, toDev, toHost, devVars, losses>>

Finish ==
    /\ outcome = "running" /\ pc = "next" /\ pos > Len(Ops)
    /\ outcome' = "ok"
    /\ pc' = "reset"
    /\ IF Reset THEN Send(NormalReset) ELSE UNCHANGED toDev
    /\ UNCHANGED <<pos, sent, chunk, back, toHost, devVars, losses>>

AckStart ==
    /\ Replied("START_DATA")
    /\ SendPiece(0)
    /\ UNCHANGED <<pos, sent, chunk, back, outcome, devVars, losses>>

AckMidst ==
    /\ Replied("MIDST_DATA")
    /\ sent' = Reach(sent)
    /\ SendPiece(Reach(sent))
    /\ UNCHANGED <<pos, chunk, back, outcome, devVars, losses>>

\* Mutant of AckEnd: the read-back is skipped.
AckEndUnverified ==
    /\ Replied("END_DATA")
    /\ pc' = "next" /\ pos' = pos + 1
    /\ UNCHANGED <<sent, chunk, back, outcome, toDev, devVars, losses>>

\* The stage is written.  Only partitions are read back, before the next entry.
AckEnd ==
    /\ Replied("END_DATA")
    /\ IF VerifyReadback /\ Entry \in PartitionSet
       THEN /\ SendRead(0)
            /\ back' = << >>
            /\ UNCHANGED pos
       ELSE /\ pc' = "next"
            /\ pos' = pos + 1
            /\ UNCHANGED <<back, toDev>>
    /\ UNCHANGED <<sent, chunk, outcome, devVars, losses>>

AckErase ==
    /\ Replied("ERASE_FLASH")
    /\ pc' = "next"
    /\ pos' = pos + 1
    /\ UNCHANGED <<sent, chunk, back, outcome, toDev, devVars, losses>>

\* Mutant of DataRead: the read-back is compared by its length alone.
DataReadLengthOnly ==
    /\ Replied("READ_FLASH")
    /\ LET all == back \o toHost[1].data
       IN  /\ back' = all
           /\ IF Len(all) < Size[Entry]
              THEN SendRead(Len(all)) /\ UNCHANGED pos
              ELSE pc' = "next" /\ pos' = pos + 1 /\ UNCHANGED toDev
    /\ UNCHANGED <<sent, chunk, outcome, devVars, losses>>

\* One READ_FLASH reply: ask for the rest, or compare once there is no more.
DataRead ==
    /\ Replied("READ_FLASH")
    /\ LET d == toHost[1].data
           all == back \o d
       IN  IF d # << >> /\ Len(all) < Size[Entry]
           THEN /\ SendRead(Len(all))
                /\ back' = all
                /\ UNCHANGED <<pos, outcome>>
           ELSE /\ back' = all
                /\ UNCHANGED toDev
                /\ IF all = Image(Entry)
                   THEN pc' = "next" /\ pos' = pos + 1 /\ UNCHANGED outcome
                   ELSE outcome' = "err" /\ UNCHANGED <<pc, pos>>
    /\ UNCHANGED <<sent, chunk, devVars, losses>>

\* Mutant of UnexpectedReply: a refusal is retried like a timeout.
UnexpectedReplyRetried ==
    /\ pc \in StageSteps
    /\ TakeReply
    /\ toHost[1].rep # Expected
    /\ sent' = 0
    /\ pc' = "CONNECT"
    /\ Send(Connect)
    /\ UNCHANGED <<pos, chunk, back, outcome, devVars, losses>>

\* command() got a reply of another type: the error ends the session.
UnexpectedReply ==
    /\ pc \in Awaiting
    /\ TakeReply
    /\ toHost[1].rep # Expected
    /\ outcome' = "err"
    /\ UNCHANGED <<pc, pos, sent, chunk, back, toDev, devVars, losses>>

\* The response deadline passes.  Without the fault "late" it is longer than any
\* round trip, so it passes only when nothing is under way.
TimedOut ==
    /\ outcome = "running"
    /\ pc \in Awaiting
    /\ "late" \in Faults \/ (toDev = << >> /\ toHost = << >>)

\* Mutant of CanRetry: the last halving, the one that reaches the floor, is not tried.
CanRetryOffByOne == pc \in StageSteps /\ chunk \div 2 > MinChunk

CanRetry == pc \in StageSteps /\ chunk > MinChunk

\* A response timeout: reconnect, to start the stage again from unit `from`.
\* purge_input discards the replies that have arrived, not those still under way.
Retry(guard, newChunk, from) ==
    /\ TimedOut
    /\ guard
    /\ chunk' = newChunk
    /\ sent' = from
    /\ \E purged \in 0 .. Len(toHost) : toHost' = SubSeq(toHost, purged + 1, Len(toHost))
    /\ pc' = "CONNECT"
    /\ Send(Connect)
    /\ UNCHANGED <<pos, back, outcome, devVars, losses>>

\* Mutants of RetryStage: it forgets to go back to the first unit; it keeps the
\* chunk; it has no floor.
RetryStageKeepsSent == Retry(CanRetry, Larger(chunk \div 2, MinChunk), sent)
RetryStageKeepsChunk == Retry(CanRetry, chunk, 0)
RetryStageNoFloor == Retry(pc \in StageSteps, chunk \div 2, 0)

RetryStage == Retry(CanRetry, Larger(chunk \div 2, MinChunk), 0)

\* Mutant of AckConnect: the stage is resumed without a new START_DATA.
AckConnectResumes ==
    /\ Replied("CONNECT")
    /\ SendPiece(sent)
    /\ UNCHANGED <<pos, sent, chunk, back, outcome, devVars, losses>>

AckConnect ==
    /\ Replied("CONNECT")
    /\ pc' = "START_DATA"
    /\ Send(StartData(Entry))
    /\ UNCHANGED <<pos, sent, chunk, back, outcome, devVars, losses>>

\* Mutants of TimeoutFails: the module is reset although the session failed; an
\* erase without an answer counts as done.
TimeoutResets ==
    /\ TimedOut
    /\ ~CanRetry
    /\ outcome' = "err"
    /\ Send(NormalReset)
    /\ UNCHANGED <<pc, pos, sent, chunk, back, toHost, devVars, losses>>

TimeoutSkipsErase ==
    /\ TimedOut
    /\ ~CanRetry
    /\ IF pc = "ERASE_FLASH"
       THEN pc' = "next" /\ pos' = pos + 1 /\ UNCHANGED outcome
       ELSE outcome' = "err" /\ UNCHANGED <<pc, pos>>
    /\ UNCHANGED <<sent, chunk, back, toDev, toHost, devVars, losses>>

TimeoutFails ==
    /\ TimedOut
    /\ ~CanRetry
    /\ outcome' = "err"
    /\ UNCHANGED <<pc, pos, sent, chunk, back, toDev, toHost, devVars, losses>>

\* The port fails under a write or while a reply is awaited.
PortFails ==
    /\ "port" \in Faults
    /\ outcome = "running"
    /\ outcome' = "err"
    /\ UNCHANGED <<pc, pos, sent, chunk, back, toDev, toHost, devVars, losses>>

HostStep ==
    \/ BeginStage \/ BeginErase \/ PayloadMissing \/ Finish
    \/ AckStart \/ AckMidst \/ AckEnd \/ AckConnect \/ AckErase \/ DataRead
    \/ UnexpectedReply \/ RetryStage \/ TimeoutFails

----
(***************************************************************************)
(* The device.                                                             *)
(***************************************************************************)
Receive(cmd) ==
    /\ mode = "fdl2"
    /\ toDev # << >>
    /\ toDev[1].cmd = cmd
    /\ toDev' = Tail(toDev)
    /\ UNCHANGED <<hostVars, losses>>

Answer(r) == toHost' = Append(toHost, r)

DevConnect ==
    /\ Receive("CONNECT")
    /\ Answer(Ack)
    /\ UNCHANGED devVars

\* START_DATA forgets an unfinished write.
DevStart ==
    /\ Receive("START_DATA")
    /\ cur' = [entry |-> toDev[1].entry, buf |-> << >>]
    /\ Answer(Ack)
    /\ UNCHANGED <<flash, mode>>

DevMidst ==
    /\ Receive("MIDST_DATA")
    /\ cur' = IF cur = NoWrite THEN NoWrite
              ELSE [cur EXCEPT !.buf = @ \o toDev[1].data]
    /\ Answer(Ack)
    /\ UNCHANGED <<flash, mode>>

\* The flash knows addresses and no entries: what is written of one entry is gone
\* of every other that has some of the same addresses.
Put(e, units) ==
    flash' = [f \in Entries |-> IF f = e THEN units
                                ELSE IF <<e, f>> \in Overlaps THEN Old(f) ELSE flash[f]]

\* FDL2 validates the CRC of an NV image when the write ends.
NvCrcWrong == cur.entry = NvEntry /\ cur.buf # NvFixCrc(NvEntry)

DevEnd ==
    /\ Receive("END_DATA")
    /\ cur' = NoWrite
    /\ \/ /\ cur = NoWrite
          /\ UNCHANGED flash
          /\ Answer(Ack)
       \/ /\ cur # NoWrite /\ ~NvCrcWrong
          /\ Put(cur.entry, cur.buf)
          /\ Answer(Ack)
       \/ /\ cur # NoWrite /\ NvCrcWrong
          /\ UNCHANGED flash
          /\ Answer(Failed)
    /\ UNCHANGED mode

DevEndBadCell ==
    /\ "badcell" \in Faults
    /\ cur # NoWrite
    /\ Receive("END_DATA")
    /\ cur' = NoWrite
    /\ Put(cur.entry, Old(cur.entry))
    /\ Answer(Ack)
    /\ UNCHANGED mode

DevErase ==
    /\ Receive("ERASE_FLASH")
    /\ Put(toDev[1].entry, << >>)
    /\ Answer(Ack)
    /\ UNCHANGED <<cur, mode>>

DevRead ==
    /\ Receive("READ_FLASH")
    /\ LET f == toDev[1]
           held == flash[f.entry]
       IN  Answer(IF f.off < Len(held)
                  THEN Data(SubSeq(held, f.off + 1, Smaller(f.off + f.len, Len(held))))
                  ELSE InvalidCmd)
    /\ UNCHANGED devVars

\* NORMAL_RESET gets no reply.
DevReset ==
    /\ Receive("NORMAL_RESET")
    /\ mode' = "booted"
    /\ UNCHANGED <<cur, flash, toHost>>

DevRefuse ==
    /\ "refuse" \in Faults
    /\ toDev # << >> /\ toDev[1].cmd # "NORMAL_RESET"
    /\ Receive(toDev[1].cmd)
    /\ Answer(Failed)
    /\ UNCHANGED devVars

DeviceStep ==
    \/ DevConnect \/ DevStart \/ DevMidst \/ DevEnd \/ DevEndBadCell
    \/ DevErase \/ DevRead \/ DevReset \/ DevRefuse

----
(***************************************************************************)
(* The link.                                                               *)
(***************************************************************************)
LoseFrame ==
    /\ "loss" \in Faults /\ losses < MaxLosses
    /\ toDev # << >>
    /\ toDev' = Tail(toDev)
    /\ losses' = losses + 1
    /\ UNCHANGED <<hostVars, toHost, devVars>>

LoseReply ==
    /\ "loss" \in Faults /\ losses < MaxLosses
    /\ toHost # << >>
    /\ toHost' = Tail(toHost)
    /\ losses' = losses + 1
    /\ UNCHANGED <<hostVars, toDev, devVars>>

\* run() has returned and nothing is left under way.
Terminated ==
    /\ outcome # "running" /\ toDev = << >>
    /\ UNCHANGED vars

Init ==
    /\ pc = "next" /\ pos = 1 /\ sent = 0 /\ chunk = Chunk /\ back = << >>
    /\ outcome = "running"
    /\ toDev = << >> /\ toHost = << >>
    /\ cur = NoWrite /\ flash = [e \in Entries |-> Old(e)] /\ mode = "fdl2"
    /\ losses = 0

Next ==
    \/ HostStep
    \/ PortFails
    \/ DeviceStep
    \/ LoseFrame
    \/ LoseReply
    \/ Terminated

\* recv polls until its deadline, so the host always moves on; the device
\* answers every command it can.
Fairness == WF_vars(HostStep) /\ WF_vars(DeviceStep)

Spec == Init /\ [][Next]_vars /\ Fairness

----
(***************************************************************************)
(* Properties.                                                             *)
(***************************************************************************)
TypeOK ==
    /\ pc \in Awaiting \cup {"next", "reset"}
    /\ pos \in 1 .. Len(Ops) + 1
    /\ pc \in Awaiting => pos <= Len(Ops)
    /\ sent \in Nat /\ chunk \in Nat \ {0}
    /\ back \in Seq(Units)
    /\ outcome \in {"running", "ok", "err"}
    /\ toDev \in Seq(Frames) /\ toHost \in Seq(Replies)
    /\ cur \in [entry : Entries, buf : Seq(Units)] \cup {NoWrite}
    /\ flash \in [Entries -> Seq(Units)]
    /\ mode \in {"fdl2", "booted"}
    /\ losses \in 0 .. MaxLosses

\* No later operation of the plan takes an address of this entry: neither pac.rs
\* nor plan.rs refuses entries that overlap, and the one written last stays.
Kept(e) ==
    \A i, j \in DOMAIN Ops : i < j /\ Ops[i] = e => <<Ops[j], e>> \notin Overlaps

AllWritten == \A i \in DOMAIN Ops : Kept(Ops[i]) => flash[Ops[i]] = Image(Ops[i])

\* When run() returns Ok, the device holds every partition as the PAC has it and,
\* with --format, every erase, NV image (with its refreshed CRC) and PREPACK; of
\* entries that overlap, the one the plan writes last.
OkMeansFlashed == outcome = "ok" => AllWritten

\* However often a stage is restarted, the device's buffer is a beginning of the
\* image, with no piece lost, repeated or left over from an earlier try.
BufferIsPrefix ==
    cur # NoWrite => \E n \in 0 .. Size[cur.entry] : cur.buf = Prefix(cur.entry, n)

\* The device holds an entry as wanted as far as a read-back can tell: the read
\* stops at the payload's length and does not see what follows it.
Holds(e) ==
    IF e \in EraseSet THEN flash[e] = << >>
    ELSE /\ Len(flash[e]) >= Size[e]
         /\ SubSeq(flash[e], 1, Size[e]) = Image(e)

\* With --verify-readback an Ok can be trusted for every partition that no later
\* entry overlaps, even when replies are late and the flash itself is bad.
OkMeansReadBack == outcome = "ok" => \A e \in PartitionSet : Kept(e) => Holds(e)

\* The module never leaves download mode with a half-written flash: an Ok is the
\* only way to NORMAL_RESET, and nothing changes the flash after it.
BootsOnlyFlashed ==
    mode = "booted" => outcome = "ok" /\ \A e \in Entries : Kept(e) => Holds(e)

\* A session is a flash job: entries are confirmed in order and only when
\* written, entries already confirmed are never touched again but by one that
\* overlaps them, and the reboot comes after success.
Job == INSTANCE FlashJob WITH
    Job <- Ops,
    confirmed <- pos - 1,
    good <- [e \in Entries |-> Holds(e)],
    rebooted <- mode = "booted"

IsFlashJob == Job!Spec

(***************************************************************************)
(* On a link where replies beat the deadline and the flash keeps what it   *)
(* is given, host and device stay in step.  PromptInv says how: it is the  *)
(* inductive invariant behind the theorems.                                *)
(***************************************************************************)
PromptLink == "late" \notin Faults /\ "badcell" \notin Faults

Acked == toHost # << >> /\ toHost[1].rep = "ACK"

\* Stop-and-wait: one frame or one reply under way, and none between entries.
OneInFlight ==
    /\ toDev = << >> \/ (Len(toDev) = 1 /\ toHost = << >>)
    /\ Len(toHost) <= 1
    /\ pc = "next" => toDev = << >> /\ toHost = << >>
    /\ pc = "reset" => toHost = << >>

\* The frame under way is the one whose reply the host awaits.
RequestInFlight ==
    toDev # << >> =>
        /\ toDev[1].cmd = IF pc = "reset" THEN "NORMAL_RESET" ELSE pc
        /\ pc \in {"START_DATA", "ERASE_FLASH"} => toDev[1].entry = Entry
        /\ pc = "MIDST_DATA" =>
              toDev[1].data = SubSeq(Image(Entry), sent + 1, Reach(sent))

\* The device's buffer is where the host believes it to be.
StageInStep ==
    /\ pc \in {"CONNECT", "START_DATA"} => sent = 0
    /\ pc = "START_DATA" /\ Acked => cur = [entry |-> Entry, buf |-> << >>]
    /\ pc = "MIDST_DATA" =>
          /\ sent < Size[Entry]
          /\ toDev # << >> => cur = [entry |-> Entry, buf |-> Prefix(Entry, sent)]
          /\ Acked => cur = [entry |-> Entry, buf |-> Prefix(Entry, Reach(sent))]
    /\ pc = "END_DATA" =>
          /\ toDev # << >> => cur = [entry |-> Entry, buf |-> Image(Entry)]
          /\ Acked => flash[Entry] = Image(Entry)

WrittenSoFar ==
    /\ \A i \in 1 .. pos - 1 : Kept(Ops[i]) => flash[Ops[i]] = Image(Ops[i])
    /\ pc = "READ_FLASH" => flash[Entry] = Image(Entry)
    /\ pc = "ERASE_FLASH" => Entry \in EraseSet
    /\ pc = "ERASE_FLASH" /\ Acked => flash[Entry] = Image(Entry)

ResetIsLast ==
    /\ pc = "reset" <=> outcome = "ok"
    /\ pc = "reset" => pos = Len(Ops) + 1
    /\ mode = "booted" => pc = "reset"

PromptInv ==
    /\ TypeOK /\ OneInFlight /\ RequestInFlight /\ StageInStep
    /\ BufferIsPrefix /\ WrittenSoFar /\ ResetIsLast

\* run() returns: deadlines bound every wait and the chunk bounds the retries.
Terminates == <>(outcome # "running")

\* How often a chunk can be halved before it is at the floor.
Halvings[c \in Nat] ==
    IF c <= MinChunk THEN 0 ELSE 1 + Halvings[Larger(c \div 2, MinChunk)]

\* A stage is not given up while the whole session has lost no more frames and replies
\* than the chunk has halvings: a stall that the back-off was made for is survived, the
\* one at the smallest chunk excepted.
StallsAreSurvived ==
    [][TimeoutFails /\ pc \in StageSteps => losses > Halvings[Chunk]]_vars
====

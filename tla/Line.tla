---- MODULE Line ----
(***************************************************************************)
(* The manufacturing line: one thread per station (line.rs), each taking   *)
(* the unit on its fixture through ensure_download, Serial::open, the      *)
(* flash, the boot check and the record, and then waiting for the operator *)
(* to swap the unit (station.rs).  Threads meet only in the USB bus, which *)
(* they all enumerate: a fixture's unit shows there as a module port, as a *)
(* download port, or not at all while it reboots.                          *)
(*                                                                         *)
(* The flash is one step with its outcome; BslSession has its inside.      *)
(***************************************************************************)
EXTENDS Naturals, FiniteSets

CONSTANTS
    Stations,  \* the stations, and the fixtures (USB slots) they stand for
    NoStation, \* none of them
    MaxUnits,  \* bound on the units the operator brings
    Retries,   \* UnitJob::retries
    Configs    \* the line configurations considered

Units == 1 .. MaxUnits
NoUnit == 0

\* A line of text that is nobody's IMEI: "ERROR", or an unsolicited result code.
OtherLine == MaxUnits + 1

\* What may happen around the line: a unit that fails to flash, to reset or to boot, one
\* that does not answer AT+CGSN with its IMEI, and Ctrl-C.
AllEvents == {"badunit", "mumble", "stop"}

ASSUME LineAssumption ==
    /\ NoStation \notin Stations /\ IsFiniteSet(Stations)
    /\ MaxUnits \in Nat /\ Retries \in Nat
    /\ \A c \in Configs :
          /\ c.stations \subseteq Stations
          /\ c.at \subseteq c.stations /\ c.dl \subseteq c.stations
          /\ {c.verify, c.continuous} \subseteq BOOLEAN
          /\ c.events \subseteq AllEvents
          /\ Cardinality(c.stations) <= MaxUnits

VARIABLES
    config,   \* which stations run, their ports, and the options of the line
    slot,     \* the unit on each fixture, or NoUnit
    mode,     \* what each unit is doing
    fw,       \* the firmware each unit holds: "factory", "partial" or "new"
    pc,       \* where each station's thread is
    attempt,  \* the attempt run_unit is making, from 1
    port,     \* the fixture whose download port, or module port, is being used
    open,     \* the fixture whose download port the station holds open
    log,      \* the records written
    stop      \* LineConfig::stop

vars == <<config, slot, mode, fw, pc, attempt, port, open, log, stop>>
usbVars == <<slot, mode, fw>>

Modes == {"shelf", "app", "mute", "entering", "download", "booting", "dead", "gone"}

\* A module that has booted enumerates, also one that does not answer AT commands.
Booted(u) == u # NoUnit /\ mode[u] \in {"app", "mute"}
Downloading(u) == u # NoUnit /\ mode[u] = "download"

\* discovery::find_download_port and find_module_ports look at the whole bus.
DownloadPorts == {f \in Stations : Downloading(slot[f])}
ModulePorts == {f \in Stations : Booted(slot[f])}

HasAt(s) == s \in config.at
HasDl(s) == s \in config.dl

At(s, p) == s \in config.stations /\ pc[s] = p
Goto(s, p) == pc' = [pc EXCEPT ![s] = p]

\* station_present: the station's own unit enumerates under a configured name.
Present(s) ==
    \/ HasAt(s) /\ Booted(slot[s])
    \/ HasDl(s) /\ Downloading(slot[s])

----
(***************************************************************************)
(* ensure_download.                                                        *)
(***************************************************************************)

\* Mutant of ChooseConfigured: the configured port is not looked at.
ChooseConfiguredIgnored(s) ==
    /\ At(s, "choose")
    /\ Goto(s, "discover")
    /\ UNCHANGED <<config, usbVars, attempt, port, open, log, stop>>

\* The configured port is taken when there is some download port on the bus, or no
\* AT port to bring one up with.
ChooseConfigured(s) ==
    /\ At(s, "choose")
    /\ IF HasDl(s) /\ (DownloadPorts # {} \/ ~HasAt(s))
       THEN port' = [port EXCEPT ![s] = s] /\ Goto(s, "open")
       ELSE Goto(s, "discover") /\ UNCHANGED port
    /\ UNCHANGED <<config, usbVars, attempt, open, log, stop>>

\* Any download port on the bus is taken for the station's.
TakeDiscovered(s) ==
    /\ At(s, "discover")
    /\ \E f \in DownloadPorts : port' = [port EXCEPT ![s] = f]
    /\ Goto(s, "open")
    /\ UNCHANGED <<config, usbVars, attempt, open, log, stop>>

\* AT*DOWNLOAD=1 on the AT port; a mute module takes no notice of it.
SendDownload(s) ==
    mode' = IF mode[slot[s]] = "app" THEN [mode EXCEPT ![slot[s]] = "entering"] ELSE mode

EnterDownload(s) ==
    /\ At(s, "discover")
    /\ DownloadPorts = {}
    /\ HasAt(s) /\ Booted(slot[s])
    /\ SendDownload(s)
    /\ Goto(s, "beacon")
    /\ UNCHANGED <<config, slot, fw, attempt, port, open, log, stop>>

\* No way into download mode: no AT port is configured, or it does not open.  (The
\* configured download port is not left to fall back on: ChooseConfigured took it.)
NoDownload(s) ==
    /\ At(s, "discover")
    /\ DownloadPorts = {}
    /\ ~(HasAt(s) /\ Booted(slot[s]))
    /\ Goto(s, "failed")
    /\ UNCHANGED <<config, usbVars, attempt, port, open, log, stop>>

BeaconSeen(s) ==
    /\ At(s, "beacon")
    /\ \E f \in DownloadPorts : port' = [port EXCEPT ![s] = f]
    /\ Goto(s, "open")
    /\ UNCHANGED <<config, usbVars, attempt, open, log, stop>>

Rebooting(u) == u # NoUnit /\ mode[u] \in {"entering", "booting"}

\* wait_for_download_port gives up; its 30 s are longer than a reboot.
BeaconMissing(s) ==
    /\ At(s, "beacon")
    /\ DownloadPorts = {} /\ ~Rebooting(slot[s])
    /\ Goto(s, "failed")
    /\ UNCHANGED <<config, usbVars, attempt, port, open, log, stop>>

----
(***************************************************************************)
(* The flash.                                                              *)
(***************************************************************************)
Held(f) == \E s \in Stations : open[s] = f

\* Serial::open succeeds on a port that is there and that nobody holds.
Openable(f) == Downloading(slot[f]) /\ ~Held(f)

OpenPort(s) ==
    /\ At(s, "open")
    /\ Openable(port[s])
    /\ open' = [open EXCEPT ![s] = port[s]]
    /\ Goto(s, "flash")
    /\ UNCHANGED <<config, usbVars, attempt, port, log, stop>>

OpenFails(s) ==
    /\ At(s, "open")
    /\ ~Openable(port[s])
    /\ Goto(s, "failed")
    /\ UNCHANGED <<config, usbVars, attempt, port, open, log, stop>>

Close(s) == open' = [open EXCEPT ![s] = NoStation]

Record(s, result, imei) ==
    /\ log' = log \cup
          {[station |-> s, unit |-> slot[s], result |-> result, imei |-> imei]}
    /\ Goto(s, "recorded")

\* Mutant of FlashOk: the end of the flash is a pass, also with --verify.
FlashOkUnchecked(s) ==
    /\ At(s, "flash")
    /\ LET u == slot[open[s]]
       IN  fw' = [fw EXCEPT ![u] = "new"] /\ mode' = [mode EXCEPT ![u] = "booting"]
    /\ Close(s)
    /\ Record(s, "pass", NoUnit)
    /\ UNCHANGED <<config, slot, attempt, port, stop>>

\* NORMAL_RESET is sent and not waited for: it may be lost, and the unit stays.
AfterReset ==
    {"booting"} \cup (IF "badunit" \in config.events THEN {"download"} ELSE {})

\* Flasher::run returns Ok and has sent the reset; without --verify that is a pass.
FlashOk(s) ==
    /\ At(s, "flash")
    /\ LET u == slot[open[s]]
       IN  /\ fw' = [fw EXCEPT ![u] = "new"]
           /\ \E m \in AfterReset : mode' = [mode EXCEPT ![u] = m]
    /\ Close(s)
    /\ IF config.verify
       THEN Goto(s, "module") /\ UNCHANGED log
       ELSE Record(s, "pass", NoUnit)
    /\ UNCHANGED <<config, slot, attempt, port, stop>>

\* The unit is left in download mode, in an unknown state.
FlashFails(s) ==
    /\ At(s, "flash")
    /\ "badunit" \in config.events
    /\ fw' = [fw EXCEPT ![slot[open[s]]] = "partial"]
    /\ Close(s)
    /\ Goto(s, "failed")
    /\ UNCHANGED <<config, slot, mode, attempt, port, log, stop>>

----
(***************************************************************************)
(* The boot check.                                                         *)
(***************************************************************************)

\* Any module on the bus ends the wait; the AT port asked is the configured one, or
\* that of a module that was found.
ModuleSeen(s) ==
    /\ At(s, "module")
    /\ \E f \in ModulePorts : port' = [port EXCEPT ![s] = IF HasAt(s) THEN s ELSE f]
    /\ Goto(s, "verify")
    /\ UNCHANGED <<config, usbVars, attempt, open, log, stop>>

\* Mutant of ModuleMissing: wait_for_module has no deadline.
ModuleMissingWaits(s) ==
    /\ At(s, "module")
    /\ ModulePorts = {}
    /\ UNCHANGED vars

ModuleMissing(s) ==
    /\ At(s, "module")
    /\ ModulePorts = {} /\ ~Rebooting(slot[s])
    /\ Goto(s, "failed")
    /\ UNCHANGED <<config, usbVars, attempt, port, open, log, stop>>

\* What meaningful() makes of an AT+CGSN that the module does not answer, or answers
\* behind another line.
OddAnswers == IF "mumble" \in config.events THEN {NoUnit, OtherLine} ELSE {}

\* The module answers ATI.  That is the pass: the first line it has for AT+CGSN becomes
\* the IMEI, and neither that line nor the firmware's is compared with anything.
VerifyOk(s) ==
    /\ At(s, "verify")
    /\ LET u == slot[port[s]]
       IN  /\ u # NoUnit /\ mode[u] = "app"
           /\ \E imei \in {u} \cup OddAnswers : Record(s, "pass", imei)
    /\ UNCHANGED <<config, usbVars, attempt, port, open, stop>>

VerifyFails(s) ==
    /\ At(s, "verify")
    /\ LET u == slot[port[s]]
       IN  ~(u # NoUnit /\ mode[u] = "app") /\ ~Rebooting(u)
    /\ Goto(s, "failed")
    /\ UNCHANGED <<config, usbVars, attempt, port, open, log, stop>>

----
(***************************************************************************)
(* run_unit's attempts and the station's loop.                             *)
(***************************************************************************)

\* recover, where restart_download_device does nothing: AT*DOWNLOAD=1 once more.
Recover(s) ==
    IF HasAt(s) /\ Booted(slot[s]) THEN SendDownload(s) ELSE UNCHANGED mode

TryAgain(s) ==
    /\ At(s, "failed")
    /\ attempt[s] <= Retries
    /\ Recover(s)
    /\ attempt' = [attempt EXCEPT ![s] = @ + 1]
    /\ Goto(s, "choose")
    /\ UNCHANGED <<config, slot, fw, port, open, log, stop>>

GiveUp(s) ==
    /\ At(s, "failed")
    /\ attempt[s] > Retries
    /\ Record(s, "fail", NoUnit)
    /\ UNCHANGED <<config, usbVars, attempt, port, open, stop>>

\* A station with a configured port follows its own unit; one without watches the bus.
StopOrWait(s) ==
    /\ At(s, "recorded")
    /\ Goto(s, IF ~config.continuous \/ stop THEN "done"
               ELSE IF HasAt(s) \/ HasDl(s) THEN "removal" ELSE "bench")
    /\ UNCHANGED <<config, usbVars, attempt, port, open, log, stop>>

\* Mutant of UnitRemoved: the first phase of wait_cycle is left out.
UnitRemovedSkipped(s) ==
    /\ At(s, "removal")
    /\ Goto(s, "insertion")
    /\ UNCHANGED <<config, usbVars, attempt, port, open, log, stop>>

UnitRemoved(s) ==
    /\ At(s, "removal")
    /\ stop \/ ~Present(s)
    /\ Goto(s, "insertion")
    /\ UNCHANGED <<config, usbVars, attempt, port, open, log, stop>>

\* The loop comes round: run_unit begins.
RunUnit(s) ==
    /\ Goto(s, "choose")
    /\ attempt' = [attempt EXCEPT ![s] = 1]
    /\ UNCHANGED <<config, usbVars, port, open, log, stop>>

\* Mutant of UnitInserted: the second phase of wait_cycle does not look at stop.
UnitInsertedOnly(s) == At(s, "insertion") /\ Present(s) /\ RunUnit(s)

UnitInserted(s) == At(s, "insertion") /\ (stop \/ Present(s)) /\ RunUnit(s)

BenchEmpty(s) ==
    /\ At(s, "bench")
    /\ stop \/ (DownloadPorts = {} /\ ModulePorts = {})
    /\ RunUnit(s)

StationStep(s) ==
    \/ ChooseConfigured(s) \/ TakeDiscovered(s) \/ EnterDownload(s) \/ NoDownload(s)
    \/ BeaconSeen(s) \/ BeaconMissing(s) \/ OpenPort(s) \/ OpenFails(s)
    \/ FlashOk(s) \/ FlashFails(s)
    \/ ModuleSeen(s) \/ ModuleMissing(s) \/ VerifyOk(s) \/ VerifyFails(s)
    \/ TryAgain(s) \/ GiveUp(s)
    \/ StopOrWait(s) \/ UnitRemoved(s) \/ UnitInserted(s) \/ BenchEmpty(s)

----
(***************************************************************************)
(* The modules and the operator.                                           *)
(***************************************************************************)
Becomes(u, m) == mode' = [mode EXCEPT ![u] = m]

\* A reboot ends: in download mode, in the firmware, or, with a bad unit, nowhere.
RebootEnds(u) ==
    /\ \/ mode[u] = "entering" /\ Becomes(u, "download")
       \/ mode[u] = "booting" /\ Becomes(u, "app")
       \/ /\ mode[u] = "booting" /\ "badunit" \in config.events
          /\ \E m \in {"mute", "dead"} : Becomes(u, m)
    /\ UNCHANGED <<config, slot, fw, pc, attempt, port, open, log, stop>>

\* How a unit may arrive: so that its station's configured ports show it.
Arrivals(s) ==
    (IF HasAt(s) THEN {"app"} ELSE {}) \cup (IF HasDl(s) \/ ~HasAt(s) THEN {"download"} ELSE {})

\* The operator follows the station: a unit leaves once its record is written.
Remove(s) ==
    /\ s \in config.stations /\ pc[s] \in {"removal", "insertion", "bench"}
    /\ \E r \in log : r.unit = slot[s] /\ slot[s] # NoUnit
    /\ Becomes(slot[s], "gone")
    /\ slot' = [slot EXCEPT ![s] = NoUnit]
    /\ UNCHANGED <<config, fw, pc, attempt, port, open, log, stop>>

\* The next one arrives once the station has seen the fixture empty (a swap within one
\* PRESENCE_POLL would go unnoticed).  A station without ports shows the operator no
\* such moment: its unit arrives at any time.
Insert(s) ==
    /\ s \in config.stations
    /\ HasAt(s) \/ HasDl(s) => pc[s] = "insertion"
    /\ slot[s] = NoUnit
    /\ \E u \in Units :
          /\ mode[u] = "shelf" /\ \A v \in 1 .. u - 1 : mode[v] # "shelf"
          /\ \E m \in Arrivals(s) : Becomes(u, m)
          /\ slot' = [slot EXCEPT ![s] = u]
    /\ UNCHANGED <<config, fw, pc, attempt, port, open, log, stop>>

CtrlC ==
    /\ "stop" \in config.events /\ config.continuous
    /\ ~stop
    /\ stop' = TRUE
    /\ UNCHANGED <<config, usbVars, pc, attempt, port, open, log>>

Init ==
    /\ config \in Configs
    /\ slot \in [Stations -> Units \cup {NoUnit}]
    /\ \A s \in Stations : slot[s] # NoUnit <=> s \in config.stations
    /\ {slot[s] : s \in config.stations} = 1 .. Cardinality(config.stations)
    /\ mode \in [Units -> {"shelf", "app", "download"}]
    /\ \A u \in Units :
          IF u > Cardinality(config.stations) THEN mode[u] = "shelf"
          ELSE \E s \in config.stations : slot[s] = u /\ mode[u] \in Arrivals(s)
    /\ fw = [u \in Units |-> "factory"]
    /\ pc = [s \in Stations |-> IF s \in config.stations THEN "choose" ELSE "done"]
    /\ attempt = [s \in Stations |-> 1]
    /\ port = [s \in Stations |-> s]
    /\ open = [s \in Stations |-> NoStation]
    /\ log = {}
    /\ stop = FALSE

Next ==
    \/ \E s \in Stations : StationStep(s) \/ Remove(s) \/ Insert(s)
    \/ \E u \in Units : RebootEnds(u)
    \/ CtrlC

\* Threads run, every wait of theirs polls, and a reboot ends; the operator and
\* Ctrl-C may stay away.
Spec ==
    /\ Init /\ [][Next]_vars
    /\ \A s \in Stations : WF_vars(StationStep(s))
    /\ \A u \in Units : WF_vars(RebootEnds(u))

----
(***************************************************************************)
(* Properties.                                                             *)
(***************************************************************************)
TypeOK ==
    /\ config \in Configs
    /\ slot \in [Stations -> Units \cup {NoUnit}]
    /\ mode \in [Units -> Modes]
    /\ fw \in [Units -> {"factory", "partial", "new"}]
    /\ pc \in [Stations -> {"choose", "discover", "beacon", "open", "flash", "module",
                            "verify", "failed", "recorded", "removal", "insertion",
                            "bench", "done"}]
    /\ attempt \in [Stations -> 1 .. Retries + 1]
    /\ port \in [Stations -> Stations]
    /\ open \in [Stations -> Stations \cup {NoStation}]
    /\ \A r \in log : r.station \in Stations /\ r.unit \in Units \cup {NoUnit}
    /\ stop \in BOOLEAN

\* A PASS record is about a unit that was there, and that holds the firmware flashed to
\* the end (until a stop, whose last round may flash it again).  With the boot check its
\* IMEI is the unit's own or, of a unit that does not answer AT+CGSN with it, none: it is
\* never another unit's (station.rs:94-155, verify.rs:49-77).
PassIsGenuine ==
    \A r \in log : r.result = "pass" =>
        /\ r.unit # NoUnit
        /\ stop \/ fw[r.unit] = "new"
        /\ config.verify => r.imei \in {r.unit} \cup OddAnswers

Passed(u) == \E r \in log : r.unit = u /\ r.result = "pass"

\* A unit that has passed is not flashed again: what the swap detection of a continuous
\* run is for (station.rs:211-257).  After a stop it may be: the wait ends at once, and
\* the round that follows takes the unit that is still there.
NeverReflashed ==
    [][\A s \in Stations :
          pc[s] = "open" /\ pc'[s] = "flash" /\ ~stop => ~Passed(slot[port[s]])]_vars

\* The line implements LineJob: whatever ports, waits and retries do, a station flashes
\* the unit of its own fixture and that only until it has passed or the line is stopped,
\* and a PASS is given to a unit that holds the firmware, with an IMEI it has told itself.
Job == INSTANCE LineJob WITH
    Fixtures <- Stations,
    OtherLines <- {NoUnit, OtherLine},
    verify <- config.verify,
    on <- slot,
    holds <- fw,
    records <- log,
    stopped <- stop

IsLineJob == Job!Spec

\* Every unit put on a fixture with a configured port gets a record, unless the line is
\* stopped (line.rs:123-159).  Without one a unit may come while the station waits for an
\* empty bench, and is never looked at.
UnitsAreRecorded ==
    \A s \in Stations, u \in Units :
        slot[s] = u /\ (HasAt(s) \/ HasDl(s)) ~> (stop \/ \E r \in log : r.unit = u)

\* Ctrl-C ends the line: no wait outlives it.
StopEnds == stop ~> \A s \in Stations : pc[s] = "done"
====

---- MODULE BringUp ----
(***************************************************************************)
(* From a module in any state to a connected FDL2: the CLI's               *)
(* flash_with_recovery around Flasher::bring_up.  bring_up is a fixed      *)
(* script of commands, first in the PDL of the boot ROM, which loads FDL1, *)
(* then in the BSL of FDL1, which loads FDL2.  A module that an aborted    *)
(* flash left in FDL2 does not answer PDL: it is reset, and the whole is   *)
(* tried once more, from finding the port on.  What follows a success is   *)
(* BslSession or FlashDump.                                                *)
(***************************************************************************)
EXTENDS Naturals, Sequences

CONSTANTS
    Fdl1, Fdl2,  \* the number of pieces of each loader; Fdl2 = 0: the PAC has none
    Baud,        \* FlashOptions::baud is set
    MaxKicks,    \* bound on the check-baud kicks before exec_timeout
    MaxLosses,   \* bound on the frames and replies lost
    Configs      \* the situations considered: see ConfigAssumption

AllFaults == {
    "loss",       \* a frame or a reply disappears
    "late",       \* a reply is slower than the host's response timeout
    "status",     \* the PDL agent refuses a command, in the status of its reply
    "refuse",     \* a BSL command is answered with OPERATION_FAILED
    "garbled",    \* the VER frame is damaged
    "port",       \* the serial port itself fails
    "payload",    \* a loader lies outside the PAC file
    "deaf",       \* AT*DOWNLOAD=1 has no effect
    "slowreset",  \* the old port is still there one second after NORMAL_RESET
    "slowboot" }  \* a reset module is off the bus for more than 20 s

ASSUME NumberAssumption ==
    /\ Fdl1 \in Nat \ {0} /\ Fdl2 \in Nat
    /\ Baud \in BOOLEAN
    /\ MaxKicks \in Nat \ {0} /\ MaxLosses \in Nat

ASSUME ConfigAssumption ==
    \A c \in Configs :
        /\ c.explicit \in BOOLEAN  \* --port
        /\ c.enter \in BOOLEAN     \* --enter-download
        /\ c.bootable \in BOOLEAN  \* the module has a firmware to boot
        /\ c.start \in {"app", "pdl", "fdl1", "fdl2"}
        /\ c.start = "app" => c.bootable
        /\ c.faults \subseteq AllFaults

VARIABLES
    config,   \* the situation
    pc,       \* "resolve", "beacon", "open", "command" or "reenumerate"
    at,       \* index in Script of the command whose reply is awaited
    kicks,    \* check-baud kicks sent since EXEC
    attempt,  \* 0, or 1 after the recovery
    outcome,  \* "running", "ok" or "err"
    rate,     \* the host's line rate, "base" or "fast"
    alive,    \* the port is open and its device is still there
    toDev,    \* frames on their way to the device
    toHost,   \* replies on their way to the host
    dev,      \* what the module runs
    ram,      \* the pieces of the loader it has received
    greeted,  \* FDL1 has answered a kick with VER
    devRate,  \* its line rate
    losses    \* frames and replies lost so far

portVars == <<rate, alive>>
devVars == <<dev, ram, greeted, devRate>>
vars == <<config, pc, at, kicks, attempt, outcome, portVars, toDev, toHost, devVars, losses>>

----
(***************************************************************************)
(* The script.                                                             *)
(***************************************************************************)
Command(layer, cmd, piece) == [layer |-> layer, cmd |-> cmd, piece |-> piece]

\* Mutant of Stage: the loader is sent without its START.
StageWithoutStart(layer, n) ==
    [i \in 1 .. n |-> Command(layer, "MIDST", i)]
        \o <<Command(layer, "END", 0), Command(layer, "EXEC", 0)>>

Stage(layer, n) ==
    <<Command(layer, "START", 0)>>
        \o [i \in 1 .. n |-> Command(layer, "MIDST", i)]
        \o <<Command(layer, "END", 0), Command(layer, "EXEC", 0)>>

BslConnect == <<Command("BSL", "CONNECT", 0)>>

Script ==
    <<Command("PDL", "CONNECT", 0)>> \o Stage("PDL", Fdl1) \o BslConnect
        \o (IF Fdl2 > 0 THEN Stage("BSL", Fdl2) \o BslConnect ELSE << >>)
        \o (IF Baud THEN <<Command("BSL", "CHANGE_BAUD", 0)>> \o BslConnect ELSE << >>)

Kick == Command("BSL", "KICK", 0)
NormalReset == Command("BSL", "NORMAL_RESET", 0)

Whole(n) == [i \in 1 .. n |-> i]

Fault(f) == f \in config.faults

\* find_download_port and find_module_ports.
DownloadSeen == dev \in {"pdl", "fdl1", "fdl2", "resetting"}
ModuleSeen == dev = "app"

----
(***************************************************************************)
(* The host: finding the port.                                             *)
(***************************************************************************)
At(p) == outcome = "running" /\ pc = p

ResolvePort ==
    /\ At("resolve")
    /\ config.explicit \/ DownloadSeen
    /\ pc' = "open"
    /\ UNCHANGED <<config, at, kicks, attempt, outcome, portVars, toDev, toHost, devVars, losses>>

SwitchModule ==
    /\ At("resolve")
    /\ ~config.explicit /\ ~DownloadSeen
    /\ config.enter /\ ModuleSeen
    /\ dev' = IF Fault("deaf") THEN dev ELSE "entering"
    /\ pc' = "beacon"
    /\ UNCHANGED <<config, at, kicks, attempt, outcome, portVars, toDev, toHost, ram, greeted,
                   devRate, losses>>

NoPort ==
    /\ At("resolve")
    /\ ~config.explicit /\ ~DownloadSeen
    /\ ~(config.enter /\ ModuleSeen)
    /\ outcome' = "err"
    /\ UNCHANGED <<config, pc, at, kicks, attempt, portVars, toDev, toHost, devVars, losses>>

BeaconSeen ==
    /\ At("beacon")
    /\ DownloadSeen
    /\ pc' = "open"
    /\ UNCHANGED <<config, at, kicks, attempt, outcome, portVars, toDev, toHost, devVars, losses>>

\* Mutant of BeaconMissing: the wait for the download port has no deadline.
BeaconMissingWaits == At("beacon") /\ dev = "app" /\ UNCHANGED vars

BeaconMissing ==
    /\ At("beacon")
    /\ dev = "app"
    /\ outcome' = "err"
    /\ UNCHANGED <<config, pc, at, kicks, attempt, portVars, toDev, toHost, devVars, losses>>

\* Serial::open, with its purge of the replies that have arrived, and the first command.
OpenPort ==
    /\ At("open")
    /\ DownloadSeen
    /\ rate' = "base" /\ alive' = TRUE
    /\ pc' = "command" /\ at' = 1 /\ kicks' = 0
    /\ toDev' = Append(toDev, Script[1])
    /\ \E purged \in 0 .. Len(toHost) : toHost' = SubSeq(toHost, purged + 1, Len(toHost))
    /\ UNCHANGED <<config, attempt, outcome, devVars, losses>>

OpenFails ==
    /\ At("open")
    /\ ~DownloadSeen
    /\ outcome' = "err"
    /\ UNCHANGED <<config, pc, at, kicks, attempt, portVars, toDev, toHost, devVars, losses>>

----
(***************************************************************************)
(* The host: bring_up.                                                     *)
(***************************************************************************)
Awaited == Script[at]

AwaitsVer == Awaited.layer = "PDL" /\ Awaited.cmd = "EXEC"

\* The reader of a PDL reply skips what is not one; that of a VER or of a BSL reply
\* skips what has no flags.
Heard(r) == (r = "PDL") = (Awaited.layer = "PDL" /\ ~AwaitsVer)

\* Mutant of Expected: any reply is good.
ExpectedAnything == toHost[1]

Expected == IF AwaitsVer THEN "VER" ELSE IF Awaited.layer = "PDL" THEN "PDL" ELSE "ACK"

\* What came behind the reply is dropped with it.
TakeReply ==
    /\ At("command")
    /\ toHost # << >>
    /\ Heard(toHost[1])
    /\ \E surplus \in 0 .. Len(toHost) - 1 :
          toHost' = SubSeq(toHost, surplus + 2, Len(toHost))

SkipReply ==
    /\ At("command")
    /\ toHost # << >>
    /\ ~Heard(toHost[1])
    /\ toHost' = Tail(toHost)
    /\ UNCHANGED <<config, pc, at, kicks, attempt, outcome, portVars, toDev, devVars, losses>>

\* The reply expected: the next command, or bring_up is done.  The status in a PDL
\* reply is not looked at.
Proceed ==
    /\ TakeReply
    /\ toHost[1] = Expected
    /\ at' = at + 1
    /\ kicks' = 0
    /\ rate' = IF Awaited.cmd = "CHANGE_BAUD" THEN "fast" ELSE rate
    /\ IF at < Len(Script)
       THEN toDev' = (IF alive THEN Append(toDev, Script[at + 1]) ELSE toDev) /\ UNCHANGED outcome
       ELSE outcome' = "ok" /\ UNCHANGED toDev
    /\ UNCHANGED <<config, pc, attempt, alive, devVars, losses>>

\* A lone flag, every 50 ms, until VER arrives.
SendKick ==
    /\ At("command")
    /\ AwaitsVer
    /\ kicks < MaxKicks
    /\ kicks' = kicks + 1
    /\ toDev' = IF alive THEN Append(toDev, Kick) ELSE toDev
    /\ UNCHANGED <<config, pc, at, attempt, outcome, portVars, toHost, devVars, losses>>

\* A damaged VER, or another BSL reply than expected, is final.
UnexpectedReply ==
    /\ TakeReply
    /\ toHost[1] # Expected
    /\ outcome' = "err"
    /\ UNCHANGED <<config, pc, at, kicks, attempt, portVars, toDev, devVars, losses>>

\* A loader's payload is fetched before PDL CONNECT and before START_DATA of FDL2.
PayloadMissing ==
    /\ Fault("payload")
    /\ \/ At("open") /\ DownloadSeen /\ UNCHANGED toHost
       \/ TakeReply /\ toHost[1] = Expected /\ at < Len(Script)
          /\ Script[at + 1] = Command("BSL", "START", 0)
    /\ outcome' = "err"
    /\ UNCHANGED <<config, pc, at, kicks, attempt, portVars, toDev, devVars, losses>>

\* Mutant of Recoverable: the retry is not limited to the first attempt.
RecoverableAlways == Awaited.layer = "PDL"

\* The errors of the PDL phase, up to a missing VER, are retried once.
Recoverable == Awaited.layer = "PDL" /\ attempt = 0

\* send_normal_reset goes out on the port that failed, if it still works.
Fail(works) ==
    IF Recoverable
    THEN /\ pc' = "reenumerate"
         /\ toDev' = IF works THEN Append(toDev, NormalReset) ELSE toDev
         /\ UNCHANGED outcome
    ELSE outcome' = "err" /\ UNCHANGED <<pc, toDev>>

\* The deadline passes: without the fault "late" only when nothing is under way.
TimedOut ==
    /\ At("command")
    /\ AwaitsVer => kicks = MaxKicks
    /\ Fault("late") \/ (toDev = << >> /\ toHost = << >>)
    /\ Fail(alive)
    /\ UNCHANGED <<config, at, kicks, attempt, portVars, toHost, devVars, losses>>

\* The port fails, by itself or because its device has gone.
PortFails ==
    /\ At("command")
    /\ Fault("port") \/ ~alive
    /\ Fail(FALSE)
    /\ alive' = FALSE
    /\ UNCHANGED <<config, at, kicks, attempt, rate, toHost, devVars, losses>>

\* Mutant of Reenumerated: the module is not waited for.
ReenumeratedAtOnce ==
    /\ At("reenumerate")
    /\ toDev = << >>
    /\ pc' = "resolve" /\ attempt' = attempt + 1 /\ alive' = FALSE
    /\ UNCHANGED <<config, at, kicks, outcome, rate, toDev, toHost, devVars, losses>>

\* The port is held until the reset has landed, then dropped; a download port or a
\* module port ends the wait, or else its 20 s do, and the second attempt begins.
Reenumerated ==
    /\ At("reenumerate")
    /\ toDev = << >>
    /\ DownloadSeen \/ ModuleSeen \/ Fault("slowboot")
    /\ pc' = "resolve" /\ attempt' = attempt + 1 /\ alive' = FALSE
    /\ UNCHANGED <<config, at, kicks, outcome, rate, toDev, toHost, devVars, losses>>

HostStep ==
    \/ ResolvePort \/ SwitchModule \/ NoPort \/ BeaconSeen \/ BeaconMissing
    \/ OpenPort \/ OpenFails
    \/ SkipReply \/ Proceed \/ SendKick \/ UnexpectedReply \/ PayloadMissing
    \/ TimedOut \/ Reenumerated

----
(***************************************************************************)
(* The module.                                                             *)
(***************************************************************************)
Take ==
    /\ toDev # << >>
    /\ toDev' = Tail(toDev)
    /\ UNCHANGED <<config, pc, at, kicks, attempt, outcome, portVars, losses>>

Receive(layer, cmd) == Take /\ toDev[1].layer = layer /\ toDev[1].cmd = cmd

Answer(r) == toHost' = Append(toHost, r)

Bsl == dev \in {"fdl1", "fdl2"}

\* The boot ROM's agent takes FDL1's pieces; an EXEC of the whole of it starts FDL1
\* and is not answered.
PdlAnswers ==
    /\ dev = "pdl" /\ Take
    /\ toDev[1].layer = "PDL" /\ toDev[1].cmd # "EXEC"
    /\ ram' = CASE toDev[1].cmd = "START" -> << >>
                [] toDev[1].cmd = "MIDST" -> Append(ram, toDev[1].piece)
                [] OTHER -> ram
    /\ Answer("PDL")
    /\ UNCHANGED <<dev, greeted, devRate>>

PdlRefuses ==
    /\ Fault("status")
    /\ dev = "pdl" /\ Take
    /\ toDev[1].layer = "PDL" /\ toDev[1].cmd # "EXEC"
    /\ Answer("PDL")
    /\ UNCHANGED devVars

PdlExec ==
    /\ dev = "pdl" /\ Receive("PDL", "EXEC")
    /\ IF ram = Whole(Fdl1)
       THEN dev' = "fdl1" /\ greeted' = FALSE
       ELSE UNCHANGED <<dev, greeted>>
    /\ UNCHANGED <<ram, devRate, toHost>>

\* The first flag is answered with VER; after it FDL1 speaks BSL, where a lone flag
\* is nothing.
Greet ==
    /\ dev = "fdl1" /\ ~greeted /\ Receive("BSL", "KICK")
    /\ greeted' = TRUE
    /\ \/ Answer("VER")
       \/ Fault("garbled") /\ Answer("GARBLED")
    /\ UNCHANGED <<dev, ram, devRate>>

BslAnswers ==
    /\ Bsl /\ Take
    /\ toDev[1].layer = "BSL" /\ toDev[1].cmd \in {"CONNECT", "START", "MIDST", "END"}
    /\ ram' = CASE toDev[1].cmd = "START" -> << >>
                [] toDev[1].cmd = "MIDST" -> Append(ram, toDev[1].piece)
                [] OTHER -> ram
    /\ Answer("ACK")
    /\ UNCHANGED <<dev, greeted, devRate>>

BslExec ==
    /\ Bsl /\ Receive("BSL", "EXEC")
    /\ IF dev = "fdl1" /\ ram = Whole(Fdl2)
       THEN dev' = "fdl2" /\ Answer("ACK")
       ELSE Answer("FAILED") /\ UNCHANGED dev
    /\ UNCHANGED <<ram, greeted, devRate>>

BslChangeBaud ==
    /\ Bsl /\ Receive("BSL", "CHANGE_BAUD")
    /\ devRate' = "fast"
    /\ Answer("ACK")
    /\ UNCHANGED <<dev, ram, greeted>>

BslRefuses ==
    /\ Fault("refuse")
    /\ Bsl /\ Take
    /\ toDev[1].layer = "BSL" /\ toDev[1].cmd \notin {"KICK", "NORMAL_RESET"}
    /\ Answer("FAILED")
    /\ UNCHANGED devVars

\* The module leaves the bus: the port dies with all that was under way.
Leave == alive' = FALSE /\ toDev' = << >> /\ toHost' = << >>

BslReset ==
    /\ Bsl /\ toDev # << >> /\ toDev[1] = NormalReset
    /\ IF Fault("slowreset")
       THEN /\ dev' = "resetting" /\ toDev' = Tail(toDev)
            /\ UNCHANGED <<alive, toHost>>
       ELSE dev' = "rebooting" /\ Leave
    /\ UNCHANGED <<config, pc, at, kicks, attempt, outcome, rate, ram, greeted, devRate, losses>>

\* A frame of the other protocol, or while the module reboots, goes unnoticed.
Ignored ==
    /\ Take
    /\ CASE dev = "pdl" -> toDev[1].layer = "BSL"
         [] Bsl -> toDev[1].layer = "PDL" \/ (toDev[1] = Kick /\ (dev = "fdl2" \/ greeted))
         [] OTHER -> TRUE
    /\ UNCHANGED <<toHost, devVars>>

FrameStep ==
    \/ PdlAnswers \/ PdlRefuses \/ PdlExec \/ Greet
    \/ BslAnswers \/ BslExec \/ BslChangeBaud \/ BslRefuses \/ BslReset \/ Ignored

SlowLeave ==
    /\ dev = "resetting"
    /\ dev' = "rebooting" /\ Leave
    /\ UNCHANGED <<config, pc, at, kicks, attempt, outcome, rate, ram, greeted, devRate, losses>>

\* A module with no firmware to boot comes back in the boot ROM; AT*DOWNLOAD=1
\* brings any module there.
RebootEnds ==
    /\ dev \in {"entering", "rebooting"}
    /\ dev' = IF dev = "rebooting" /\ config.bootable THEN "app" ELSE "pdl"
    /\ ram' = << >> /\ greeted' = FALSE /\ devRate' = "base"
    /\ UNCHANGED <<config, pc, at, kicks, attempt, outcome, portVars, toDev, toHost, losses>>

DeviceStep == FrameStep \/ SlowLeave \/ RebootEnds

LoseFrame ==
    /\ Fault("loss") /\ losses < MaxLosses
    /\ toDev # << >>
    /\ toDev' = Tail(toDev)
    /\ losses' = losses + 1
    /\ UNCHANGED <<config, pc, at, kicks, attempt, outcome, portVars, toHost, devVars>>

LoseReply ==
    /\ Fault("loss") /\ losses < MaxLosses
    /\ toHost # << >>
    /\ toHost' = Tail(toHost)
    /\ losses' = losses + 1
    /\ UNCHANGED <<config, pc, at, kicks, attempt, outcome, portVars, toDev, devVars>>

Terminated == outcome # "running" /\ toDev = << >> /\ UNCHANGED vars

Init ==
    /\ config \in Configs
    /\ pc = "resolve" /\ at = 1 /\ kicks = 0 /\ attempt = 0 /\ outcome = "running"
    /\ rate = "base" /\ alive = FALSE
    /\ toDev = << >> /\ toHost = << >>
    /\ dev = config.start /\ ram = << >> /\ devRate = "base" /\ losses = 0
    /\ greeted = (config.start \in {"fdl1", "fdl2"})

Next ==
    \/ HostStep \/ PortFails \/ DeviceStep
    \/ LoseFrame \/ LoseReply
    \/ Terminated

\* recv polls until its deadline, so the host moves on; the module takes every frame
\* and its reboots end.  A port whose device has gone may fail or stay silent.
Spec == Init /\ [][Next]_vars /\ WF_vars(HostStep) /\ WF_vars(DeviceStep)

----
(***************************************************************************)
(* Properties.                                                             *)
(***************************************************************************)
TypeOK ==
    /\ config \in Configs
    /\ pc \in {"resolve", "beacon", "open", "command", "reenumerate"}
    /\ at \in 1 .. Len(Script) + 1
    /\ outcome # "ok" => at \in DOMAIN Script
    /\ kicks \in 0 .. MaxKicks /\ attempt \in {0, 1}
    /\ outcome \in {"running", "ok", "err"}
    /\ rate \in {"base", "fast"} /\ devRate \in {"base", "fast"}
    /\ alive \in BOOLEAN /\ greeted \in BOOLEAN
    /\ toDev \in Seq({Script[i] : i \in DOMAIN Script} \cup {Kick, NormalReset})
    /\ toHost \in Seq({"PDL", "VER", "GARBLED", "ACK", "FAILED"})
    /\ dev \in {"app", "entering", "pdl", "fdl1", "fdl2", "resetting", "rebooting"}
    /\ ram \in Seq(Nat)
    /\ losses \in 0 .. MaxLosses

\* A session that begins after bring_up talks to the loader it was brought up to, at
\* the rate that loader expects.
OkMeansBroughtUp ==
    outcome = "ok" =>
        /\ dev = IF Fdl2 > 0 THEN "fdl2" ELSE "fdl1"
        /\ rate = devRate
        /\ rate = IF Baud THEN "fast" ELSE "base"

\* Replies are not late, the PDL agent takes what it acknowledges, and no port fails on a
\* link that loses frames: a reply to an abandoned attempt would stand for a lost one.
Steady ==
    /\ config.faults \cap {"late", "status"} = {}
    /\ ~({"loss", "port"} \subseteq config.faults)

\* On a steady link the module's memory holds a beginning of a loader, also in a second
\* attempt whatever the first left behind, and an EXEC finds the whole of it.
LoaderInStep ==
    Steady =>
        /\ \E n \in 0 .. Fdl1 + Fdl2 : ram = Whole(n)
        /\ toDev # << >> /\ dev = "pdl" /\ toDev[1] = Command("PDL", "EXEC", 0)
              => ram = Whole(Fdl1)
        /\ toDev # << >> /\ dev = "fdl1" /\ toDev[1] = Command("BSL", "EXEC", 0)
              => ram = Whole(Fdl2)

\* Every wait has a deadline and the recovery is tried once.
Terminates == <>(outcome # "running")

\* There is a way into download mode after a reset: the module has nothing else to
\* boot, or the port is searched for and the module may be switched.
WayBack == ~config.bootable \/ (config.enter /\ ~config.explicit)

\* A module in any state is brought up, one stuck in a loader by way of the reset.
StuckIsRecovered ==
    config.faults = {} /\ (WayBack \/ config.start = "pdl") => <>(outcome = "ok")
====

---- MODULE Line_proofs ----
(***************************************************************************)
(* Theorems about Line, for any number of stations, units and retries.     *)
(***************************************************************************)
EXTENDS Line, FiniteSetTheorems, TLAPS

----
(***************************************************************************)
(* Type correctness.                                                       *)
(***************************************************************************)
LEMMA InitTypeOK == Init => TypeOK
<1> SUFFICES ASSUME Init PROVE TypeOK
  OBVIOUS
<1> USE LineAssumption DEF Init
<1>1. mode \in [Units -> Modes]
  BY DEF Modes
<1>2. pc \in [Stations -> {"choose", "discover", "beacon", "open", "flash", "module",
                            "verify", "failed", "recorded", "removal", "insertion",
                            "bench", "done"}]
  OBVIOUS
<1>3. attempt \in [Stations -> 1 .. Retries + 1]
  OBVIOUS
<1> QED
  BY <1>1, <1>2, <1>3 DEF TypeOK

LEMMA StationTypeOK == ASSUME TypeOK, NEW s \in Stations, StationStep(s) PROVE TypeOK'
<1> USE DEF TypeOK, Goto, At
<1>1. CASE ChooseConfigured(s) \/ TakeDiscovered(s) \/ NoDownload(s)
  BY <1>1 DEF ChooseConfigured, TakeDiscovered, NoDownload, DownloadPorts, usbVars
<1>2. \A m \in Modes : \A u : [mode EXCEPT ![u] = m] \in [Units -> Modes]
  OBVIOUS
<1>3. SendDownload(s) => mode' \in [Units -> Modes]
  BY <1>2 DEF SendDownload, Modes
<1>4. CASE EnterDownload(s)
  BY <1>3, <1>4 DEF EnterDownload
<1>5. CASE BeaconSeen(s) \/ BeaconMissing(s) \/ OpenFails(s)
  BY <1>5 DEF BeaconSeen, BeaconMissing, OpenFails, DownloadPorts, usbVars
<1>6. CASE OpenPort(s)
  BY <1>6 DEF OpenPort, usbVars
<1>7. \A result, imei : Record(s, result, imei) =>
         /\ pc' = [pc EXCEPT ![s] = "recorded"]
         /\ \A r \in log' : r.station \in Stations /\ r.unit \in Units \cup {NoUnit}
  BY DEF Record
<1>8. CASE FlashOk(s)
  <2>1. mode' \in [Units -> Modes] /\ fw' \in [Units -> {"factory", "partial", "new"}]
    BY <1>2, <1>8 DEF FlashOk, AfterReset, Modes
  <2>2. open' \in [Stations -> Stations \cup {NoStation}]
    BY <1>8 DEF FlashOk, Close
  <2>3. /\ pc' = [pc EXCEPT ![s] = "recorded"] \/ pc' = [pc EXCEPT ![s] = "module"]
        /\ \A r \in log' : r.station \in Stations /\ r.unit \in Units \cup {NoUnit}
    BY <1>7, <1>8 DEF FlashOk
  <2> QED
    BY <1>8, <2>1, <2>2, <2>3 DEF FlashOk
<1>9. CASE FlashFails(s)
  BY <1>9 DEF FlashFails, Close
<1>10. CASE ModuleSeen(s) \/ ModuleMissing(s) \/ VerifyFails(s)
  BY <1>10 DEF ModuleSeen, ModuleMissing, VerifyFails, ModulePorts, usbVars
<1>11. CASE VerifyOk(s) \/ GiveUp(s)
  <2>1. /\ pc' = [pc EXCEPT ![s] = "recorded"]
        /\ \A r \in log' : r.station \in Stations /\ r.unit \in Units \cup {NoUnit}
    BY <1>7, <1>11 DEF VerifyOk, GiveUp
  <2> QED
    BY <1>11, <2>1 DEF VerifyOk, GiveUp, usbVars
<1>12. CASE TryAgain(s)
  <2>1. mode' \in [Units -> Modes]
    BY <1>3, <1>12 DEF TryAgain, Recover
  <2>2. attempt' \in [Stations -> 1 .. Retries + 1]
    BY <1>12, LineAssumption DEF TryAgain
  <2> QED
    BY <1>12, <2>1, <2>2 DEF TryAgain
<1>13. CASE StopOrWait(s) \/ UnitRemoved(s)
  BY <1>13 DEF StopOrWait, UnitRemoved, usbVars
<1>14. CASE UnitInserted(s) \/ BenchEmpty(s)
  <2>1. attempt' \in [Stations -> 1 .. Retries + 1]
    BY <1>14, LineAssumption DEF UnitInserted, BenchEmpty, RunUnit
  <2> QED
    BY <1>14, <2>1 DEF UnitInserted, BenchEmpty, RunUnit, usbVars
<1> QED
  BY <1>1, <1>4, <1>5, <1>6, <1>8, <1>9, <1>10, <1>11, <1>12, <1>13, <1>14 DEF StationStep

LEMMA BenchTypeOK ==
    ASSUME TypeOK,
           \/ \E s \in Stations : Remove(s) \/ Insert(s)
           \/ \E u \in Units : RebootEnds(u)
           \/ CtrlC
    PROVE  TypeOK'
<1> USE DEF TypeOK
<1>1. \A m \in Modes : \A u : [mode EXCEPT ![u] = m] \in [Units -> Modes]
  OBVIOUS
<1>2. CASE \E s \in Stations : Remove(s)
  BY <1>1, <1>2 DEF Remove, Becomes, Modes
<1>3. CASE \E s \in Stations : Insert(s)
  BY <1>1, <1>3 DEF Insert, Becomes, Arrivals, Modes
<1>4. CASE \E u \in Units : RebootEnds(u)
  BY <1>1, <1>4 DEF RebootEnds, Becomes, Modes
<1>5. CASE CtrlC
  BY <1>5 DEF CtrlC, usbVars
<1> QED
  BY <1>2, <1>3, <1>4, <1>5

\* Every variable of the line keeps its type, whatever the configuration
\* (station.rs:49-267, line.rs:101-159).
THEOREM TypeCorrect == Spec => []TypeOK
<1>1. TypeOK /\ [Next]_vars => TypeOK'
  <2> SUFFICES ASSUME TypeOK, [Next]_vars PROVE TypeOK'
    OBVIOUS
  <2>1. CASE UNCHANGED vars
    BY <2>1 DEF TypeOK, vars
  <2> QED
    BY <2>1, StationTypeOK, BenchTypeOK DEF Next
<1> QED
  BY <1>1, InitTypeOK, PTL DEF Spec
----
(***************************************************************************)
(* A PASS is genuine where no station can take another one's port, and no  *)
(* station can take a unit that has passed for the next one.               *)
(***************************************************************************)
Alone == \E s \in Stations : config.stations = {s}

\* Each station flashes its own unit: there is no other, or it has a download port
\* configured and no AT port that would make it look around.  The boot check always
\* looks around.  A unit in the firmware is not brought back to download mode: there
\* is no AT port for it, or it stays to be seen until it is removed.
OwnPorts ==
    /\ Alone \/ (config.at = {} /\ config.dl = config.stations)
    /\ config.verify => Alone
    /\ config.at = {} \/ config.verify

\* No unit is on two fixtures, and what is on a fixture has come from the shelf.
UnitsApart ==
    \A s \in Stations : slot[s] # NoUnit =>
        /\ s \in config.stations
        /\ mode[slot[s]] \notin {"shelf", "gone"}
        /\ \A t \in Stations : slot[t] = slot[s] => t = s

\* A station works on the unit of its own fixture.
OwnUnit ==
    \A s \in Stations :
        /\ s \notin config.stations => pc[s] = "done"
        /\ pc[s] \in {"discover", "beacon"} => Alone
        /\ pc[s] \in {"open", "flash", "verify"} => port[s] = s
        /\ pc[s] = "flash" =>
              open[s] = s /\ slot[s] # NoUnit /\ mode[slot[s]] = "download"
        /\ pc[s] \in {"module", "verify"} =>
              config.verify /\ slot[s] # NoUnit /\ fw[slot[s]] = "new"
        /\ pc[s] = "removal" => HasAt(s) \/ HasDl(s)

\* Where a station is that has done its round and waits for the unit to be taken away.
Waiting == {"recorded", "removal", "bench", "done"}

\* Where a unit that has passed can be, until the line is stopped: out of download mode,
\* or on a fixture that waits for its removal.  An AT port could bring it back, so with
\* one it is in the firmware for the station to see, and the station waits.
Settled(u) ==
    /\ mode[u] \notin {"shelf", "entering"}
    /\ config.at # {} => mode[u] \in {"app", "gone"}
    /\ config.at # {} \/ mode[u] = "download" =>
          \A s \in Stations : slot[s] = u => pc[s] \in Waiting

PassedStays ==
    /\ config.at = {} => \A u \in Units : mode[u] # "entering"
    /\ \A r \in log : r.result = "pass" =>
          /\ r.unit \in Units
          /\ stop \/ (fw[r.unit] = "new" /\ Settled(r.unit))
          /\ config.verify => r.imei \in {r.unit} \cup OddAnswers

LineInv == TypeOK /\ (OwnPorts => UnitsApart /\ OwnUnit /\ PassedStays)

LEMMA InitApart == Init => UnitsApart
<1> SUFFICES ASSUME Init PROVE UnitsApart
  OBVIOUS
<1> DEFINE S == config.stations
           T == 1 .. Cardinality(S)
           f == [s \in S |-> slot[s]]
<1>1. S \subseteq Stations /\ IsFiniteSet(S)
  BY LineAssumption, FS_Subset DEF Init
<1>2. Cardinality(S) \in Nat /\ Cardinality(T) = Cardinality(S)
  <2>1. Cardinality(S) \in Nat
    BY <1>1, FS_CardinalityType
  <2> QED
    BY <2>1, FS_Interval DEF T
<1>3. f \in Surjection(S, T)
  BY <1>1 DEF Init, Surjection
<1>4. f \in Injection(S, T)
  BY <1>1, <1>2, <1>3, FS_SurjSameCardinalityImpliesInj
<1>5. \A s, t \in S : slot[s] = slot[t] => s = t
  BY <1>4 DEF Injection, IsInjective
<1>6. \A s \in S : slot[s] \in T /\ mode[slot[s]] \in {"app", "download"}
  <2> SUFFICES ASSUME NEW s \in S PROVE slot[s] \in T /\ mode[slot[s]] \in {"app", "download"}
    OBVIOUS
  <2>1. slot[s] \in T /\ slot[s] \in Units
    BY <1>1, LineAssumption DEF Init, NoUnit
  <2>2. \E t \in S : mode[slot[s]] \in Arrivals(t)
    BY <1>2, <2>1 DEF Init
  <2> QED
    BY <2>1, <2>2 DEF Arrivals
<1> QED
  BY <1>5, <1>6 DEF Init, UnitsApart

LEMMA InitInv == Init => LineInv
<1> SUFFICES ASSUME Init PROVE LineInv
  OBVIOUS
<1>1. OwnUnit
  BY DEF Init, OwnUnit
<1>2. PassedStays
  BY DEF Init, PassedStays
<1> QED
  BY <1>1, <1>2, InitApart, InitTypeOK DEF LineInv


\* Which odd answers there are stays with the configuration.
LEMMA OddStays == config' = config => OddAnswers' = OddAnswers
BY DEF OddAnswers

\* Who has an AT port is alone, and who is not alone has a download port.
LEMMA OwnFacts ==
    ASSUME TypeOK, OwnPorts
    PROVE  /\ config.stations \subseteq Stations /\ config.at \subseteq config.stations
           /\ \A s, t \in config.stations : Alone => s = t
           /\ \A s \in config.stations : config.at # {} => HasAt(s) /\ config.verify
           /\ \A s \in config.stations : ~Alone => HasDl(s) /\ ~HasAt(s) /\ ~config.verify
BY LineAssumption DEF TypeOK, OwnPorts, Alone, HasAt, HasDl

\* What shows on the bus of a line with one station is its unit.
LEMMA BusIsOwn ==
    ASSUME TypeOK, OwnPorts, UnitsApart, Alone, NEW s \in config.stations
    PROVE  DownloadPorts \cup ModulePorts \subseteq {s}
BY OwnFacts DEF UnitsApart, DownloadPorts, ModulePorts, Downloading, Booted

\* The steps that move no unit and write no record.
LEMMA QuietStep ==
    ASSUME TypeOK, OwnPorts, UnitsApart, OwnUnit, PassedStays, NEW s \in Stations,
           \/ ChooseConfigured(s) \/ TakeDiscovered(s) \/ NoDownload(s)
           \/ BeaconSeen(s) \/ BeaconMissing(s) \/ OpenPort(s) \/ OpenFails(s)
           \/ ModuleSeen(s) \/ ModuleMissing(s) \/ VerifyFails(s)
           \/ StopOrWait(s) \/ UnitRemoved(s) \/ UnitInserted(s) \/ BenchEmpty(s)
    PROVE  UnitsApart' /\ OwnUnit' /\ PassedStays'
<1> USE DEF At, Goto, usbVars
<1>1. /\ s \in config.stations
      /\ UNCHANGED <<config, usbVars, log, stop>>
      /\ \A t \in Stations : t # s => pc'[t] = pc[t] /\ port'[t] = port[t] /\ open'[t] = open[t]
  BY DEF TypeOK, ChooseConfigured, TakeDiscovered, NoDownload, BeaconSeen, BeaconMissing,
         OpenPort, OpenFails, ModuleSeen, ModuleMissing, VerifyFails, StopOrWait,
         UnitRemoved, UnitInserted, BenchEmpty, RunUnit
<1>2. UnitsApart'
  BY <1>1 DEF UnitsApart
<1>3. Alone => DownloadPorts \cup ModulePorts \subseteq {s}
  BY <1>1, BusIsOwn
<1>4. pc'[s] \in {"open", "flash", "verify"} => port'[s] = s
  <2>1. CASE ChooseConfigured(s)
    BY <2>1 DEF TypeOK, ChooseConfigured
  <2>2. CASE TakeDiscovered(s) \/ BeaconSeen(s)
    <3>1. Alone
      BY <2>2 DEF TakeDiscovered, BeaconSeen, OwnUnit
    <3> QED
      BY <1>3, <2>2, <3>1 DEF TypeOK, TakeDiscovered, BeaconSeen
  <2>3. CASE OpenPort(s)
    BY <2>3 DEF TypeOK, OpenPort, OwnUnit
  <2>4. CASE ModuleSeen(s)
    <3>1. config.verify
      BY <2>4 DEF ModuleSeen, OwnUnit
    <3>2. Alone
      BY <3>1 DEF OwnPorts
    <3> QED
      BY <1>3, <2>4, <3>2 DEF TypeOK, ModuleSeen
  <2> QED
    BY <2>1, <2>2, <2>3, <2>4
    DEF TypeOK, NoDownload, BeaconMissing, OpenFails, ModuleMissing, VerifyFails, StopOrWait,
        UnitRemoved, UnitInserted, BenchEmpty, RunUnit
<1>5. pc'[s] \in {"discover", "beacon"} => Alone
  <2>1. CASE ChooseConfigured(s)
    BY <1>1, <2>1, OwnFacts DEF TypeOK, ChooseConfigured
  <2> QED
    BY <2>1
    DEF TypeOK, TakeDiscovered, NoDownload, BeaconSeen, BeaconMissing, OpenPort, OpenFails,
        ModuleSeen, ModuleMissing, VerifyFails, StopOrWait, UnitRemoved, UnitInserted,
        BenchEmpty, RunUnit
<1>6. /\ pc'[s] = "flash" => open'[s] = s /\ slot[s] # NoUnit /\ mode[slot[s]] = "download"
      /\ pc'[s] \in {"module", "verify"} =>
            config.verify /\ slot[s] # NoUnit /\ fw[slot[s]] = "new"
  <2>1. CASE OpenPort(s)
    BY <2>1 DEF TypeOK, OpenPort, Openable, Downloading, OwnUnit
  <2>2. CASE ModuleSeen(s)
    BY <2>2 DEF TypeOK, ModuleSeen, OwnUnit
  <2> QED
    BY <2>1, <2>2
    DEF TypeOK, ChooseConfigured, TakeDiscovered, NoDownload, BeaconSeen, BeaconMissing,
        OpenFails, ModuleMissing, VerifyFails, StopOrWait, UnitRemoved, UnitInserted,
        BenchEmpty, RunUnit
<1>7. OwnUnit'
  <2>3. pc'[s] = "removal" => HasAt(s) \/ HasDl(s)
    BY DEF TypeOK, OwnUnit, ChooseConfigured, TakeDiscovered, NoDownload, BeaconSeen,
           BeaconMissing, OpenPort, OpenFails, ModuleSeen, ModuleMissing, VerifyFails,
           StopOrWait, UnitRemoved, UnitInserted, BenchEmpty, RunUnit
  <2> SUFFICES ASSUME NEW t \in Stations
               PROVE  /\ t \notin config.stations => pc'[t] = "done"
                      /\ pc'[t] \in {"discover", "beacon"} => Alone
                      /\ pc'[t] \in {"open", "flash", "verify"} => port'[t] = t
                      /\ pc'[t] = "flash" =>
                            open'[t] = t /\ slot[t] # NoUnit /\ mode[slot[t]] = "download"
                      /\ pc'[t] \in {"module", "verify"} =>
                            config.verify /\ slot[t] # NoUnit /\ fw[slot[t]] = "new"
                      /\ pc'[t] = "removal" => HasAt(t) \/ HasDl(t)
    BY <1>1 DEF OwnUnit, Alone, HasAt, HasDl
  <2>1. CASE t = s
    BY <1>1, <1>4, <1>5, <1>6, <2>1, <2>3
  <2>2. CASE t # s
    BY <1>1, <2>2 DEF OwnUnit
  <2> QED
    BY <2>1, <2>2
\* A unit that has passed keeps its station where it is until it is taken away.
<1>8. ASSUME ~stop, pc[s] \in Waiting, slot[s] \in Units,
             \/ mode[slot[s]] = "download" /\ config.at = {}
             \/ mode[slot[s]] = "app" /\ config.at # {}
      PROVE  pc'[s] \in Waiting
  <2>1. pc[s] = "removal" => Present(s)
    BY <1>1, <1>8, OwnFacts, LineAssumption
    DEF OwnUnit, Present, Booted, Downloading, HasAt, HasDl, NoUnit, Units
  <2>2. s \in DownloadPorts \cup ModulePorts
    BY <1>8, LineAssumption
    DEF DownloadPorts, ModulePorts, Booted, Downloading, NoUnit, Units
  <2>3. StopOrWait(s) \/ UnitRemoved(s) \/ BenchEmpty(s)
    BY <1>8
    DEF Waiting, ChooseConfigured, TakeDiscovered, NoDownload, BeaconSeen, BeaconMissing,
        OpenPort, OpenFails, ModuleSeen, ModuleMissing, VerifyFails, UnitInserted
  <2> QED
    BY <1>8, <2>1, <2>2, <2>3 DEF TypeOK, Waiting, StopOrWait, UnitRemoved, BenchEmpty
<1>9. ASSUME NEW r \in log, r.result = "pass", ~stop PROVE Settled(r.unit)'
  <2> SUFFICES ASSUME NEW t \in Stations, slot[t] = r.unit,
                      config.at # {} \/ mode[r.unit] = "download"
               PROVE  pc'[t] \in Waiting
    BY <1>1, <1>9 DEF Settled, PassedStays
  <2>1. /\ r.unit \in Units /\ pc[t] \in Waiting
        /\ config.at # {} => mode[r.unit] \in {"app", "gone"}
    BY <1>9 DEF Settled, PassedStays
  <2>2. \/ mode[r.unit] = "download" /\ config.at = {}
        \/ mode[r.unit] = "app" /\ config.at # {}
    BY <2>1, LineAssumption DEF UnitsApart, NoUnit, Units
  <2>3. CASE t = s
    BY <1>8, <1>9, <2>1, <2>2, <2>3
  <2>4. CASE t # s
    BY <1>1, <2>1, <2>4
  <2> QED
    BY <2>3, <2>4
<1>10. PassedStays'
  BY <1>1, <1>9, OddStays DEF PassedStays
<1> QED
  BY <1>2, <1>7, <1>10

\* AT*DOWNLOAD=1 goes to no unit that has passed.
LEMMA DownloadStep ==
    ASSUME TypeOK, OwnPorts, UnitsApart, OwnUnit, PassedStays, NEW s \in Stations,
           EnterDownload(s) \/ TryAgain(s)
    PROVE  UnitsApart' /\ OwnUnit' /\ PassedStays'
<1> USE DEF At, Goto
<1>1. /\ s \in config.stations /\ pc[s] \in {"discover", "failed"}
      /\ UNCHANGED <<config, slot, fw, port, open, log, stop>>
      /\ pc'[s] \in {"beacon", "choose"}
      /\ pc'[s] = "beacon" => Alone
      /\ \A t \in Stations : t # s => pc'[t] = pc[t]
  BY DEF TypeOK, OwnUnit, EnterDownload, TryAgain
<1>2. mode' = mode \/ (/\ HasAt(s) /\ Booted(slot[s]) /\ mode[slot[s]] = "app"
                       /\ mode' = [mode EXCEPT ![slot[s]] = "entering"])
  BY DEF EnterDownload, TryAgain, Recover, SendDownload
<1>3. \A u \in Units : \/ mode'[u] = mode[u]
                        \/ /\ config.at # {} /\ Alone /\ u = slot[s] /\ slot[s] # NoUnit
                           /\ mode[u] = "app" /\ mode'[u] = "entering"
  BY <1>1, <1>2, OwnFacts DEF TypeOK, HasAt, Booted
<1>4. UnitsApart'
  BY <1>1, <1>3 DEF TypeOK, UnitsApart
<1>5. \A t \in Stations : t # s => pc[t] # "flash" \/ mode'[slot[t]] = mode[slot[t]]
  BY <1>1, <1>3 DEF TypeOK, OwnUnit, UnitsApart
<1>6. OwnUnit'
  BY <1>1, <1>5 DEF OwnUnit, Alone, HasAt, HasDl
<1>7. \A r \in log : r.result = "pass" /\ ~stop =>
         /\ mode'[r.unit] = mode[r.unit]
         /\ config.at # {} \/ mode[r.unit] = "download" => slot[s] # r.unit
  BY <1>1, <1>3 DEF PassedStays, Settled, Waiting
<1>8. \A r \in log : r.result = "pass" /\ ~stop => Settled(r.unit)'
  BY <1>1, <1>7 DEF PassedStays, Settled
<1>9. PassedStays'
  BY <1>1, <1>3, <1>8, OddStays DEF PassedStays
<1> QED
  BY <1>4, <1>6, <1>9

\* The flash of a unit that has not passed, and of no other.
LEMMA FlashStep ==
    ASSUME TypeOK, OwnPorts, UnitsApart, OwnUnit, PassedStays, NEW s \in Stations,
           FlashOk(s) \/ FlashFails(s)
    PROVE  UnitsApart' /\ OwnUnit' /\ PassedStays'
<1> USE DEF At, Goto, Close
<1> DEFINE u == slot[s]
<1>1. /\ s \in config.stations /\ pc[s] = "flash" /\ open[s] = s
      /\ u \in Units /\ u # NoUnit /\ mode[u] = "download"
      /\ UNCHANGED <<config, slot, port, stop>>
  BY DEF TypeOK, OwnUnit, FlashOk, FlashFails
<1>2. /\ \A t \in Stations : t # s => pc'[t] = pc[t] /\ open'[t] = open[t]
      /\ \A v \in Units : v # u => mode'[v] = mode[v] /\ fw'[v] = fw[v]
      /\ mode'[u] \in {"download", "booting"}
      /\ pc'[s] = "module" => fw'[u] = "new" /\ config.verify
      /\ pc'[s] \in {"failed", "module", "recorded"}
  BY <1>1 DEF TypeOK, FlashOk, FlashFails, AfterReset, Record
<1>3. UnitsApart'
  BY <1>1, <1>2 DEF TypeOK, UnitsApart
<1>4. \A t \in Stations : t # s /\ slot[t] # NoUnit =>
         mode'[slot[t]] = mode[slot[t]] /\ fw'[slot[t]] = fw[slot[t]]
  BY <1>1, <1>2 DEF TypeOK, UnitsApart
<1>5. OwnUnit'
  BY <1>1, <1>2, <1>4 DEF OwnUnit, Alone, HasAt, HasDl
<1>6. \A r \in log : r.result = "pass" /\ ~stop =>
         r.unit # u /\ mode'[r.unit] = mode[r.unit] /\ fw'[r.unit] = fw[r.unit]
  BY <1>1, <1>2 DEF PassedStays, Settled, Waiting
<1>7. \A r \in log : r.result = "pass" /\ ~stop => Settled(r.unit)'
  <2> SUFFICES ASSUME NEW r \in log, r.result = "pass", ~stop,
                      NEW t \in Stations, slot[t] = r.unit,
                      config.at # {} \/ mode[r.unit] = "download"
               PROVE  pc'[t] \in Waiting
    BY <1>1, <1>6 DEF Settled, PassedStays
  <2>1. t # s
    BY <1>6
  <2> QED
    BY <1>2, <2>1 DEF PassedStays, Settled
<1>8. \A r \in log' \ log : r.result = "pass" =>
         /\ ~config.verify /\ r.unit = u /\ fw'[u] = "new" /\ pc'[s] = "recorded"
  BY <1>1 DEF TypeOK, FlashOk, FlashFails, Record
<1>9. PassedStays'
  <2>1. config.at = {} => \A v \in Units : mode'[v] # "entering"
    BY <1>1, <1>2 DEF PassedStays
  <2>2. \A r \in log : r.result = "pass" =>
          /\ r.unit \in Units /\ (stop \/ (fw'[r.unit] = "new" /\ Settled(r.unit)'))
          /\ config.verify => r.imei \in {r.unit} \cup OddAnswers
    BY <1>6, <1>7 DEF PassedStays
  <2>3. \A r \in log' \ log : r.result = "pass" =>
          /\ r.unit \in Units /\ fw'[r.unit] = "new" /\ Settled(r.unit)'
          /\ ~config.verify
    BY <1>1, <1>2, <1>8 DEF Settled, OwnPorts, UnitsApart, Waiting
  <2> QED
    BY <1>1, <2>1, <2>2, <2>3, OddStays DEF PassedStays
<1> QED
  BY <1>3, <1>5, <1>9

\* A record of a unit that the boot check has asked, or of a failure.
LEMMA RecordStep ==
    ASSUME TypeOK, OwnPorts, UnitsApart, OwnUnit, PassedStays, NEW s \in Stations,
           VerifyOk(s) \/ GiveUp(s)
    PROVE  UnitsApart' /\ OwnUnit' /\ PassedStays'
<1> USE DEF At, Goto, usbVars, Record
<1>1. /\ s \in config.stations /\ pc'[s] = "recorded"
      /\ UNCHANGED <<config, usbVars, port, open, stop>>
      /\ \A t \in Stations : t # s => pc'[t] = pc[t]
  BY DEF TypeOK, VerifyOk, GiveUp
<1>2. UnitsApart' /\ OwnUnit'
  BY <1>1 DEF UnitsApart, OwnUnit, Alone, HasAt, HasDl
<1>3. \A r \in log' \ log : r.result = "pass" =>
         /\ r.unit = slot[s] /\ r.imei \in {slot[s]} \cup OddAnswers /\ slot[s] # NoUnit
         /\ mode[slot[s]] = "app" /\ fw[slot[s]] = "new"
  BY DEF TypeOK, OwnUnit, VerifyOk, GiveUp
<1>4. \A r \in log : r.result = "pass" /\ ~stop => Settled(r.unit)'
  BY <1>1 DEF Settled, PassedStays, Waiting
<1>5. \A r \in log' \ log : r.result = "pass" => Settled(r.unit)'
  BY <1>1, <1>3 DEF Settled, UnitsApart, Waiting
<1>6. PassedStays'
  <2>1. \A r \in log' \ log : r.result = "pass" => r.unit \in Units
    BY <1>3 DEF TypeOK
  <2> QED
    BY <1>1, <1>3, <1>4, <1>5, <2>1, OddStays DEF PassedStays
<1> QED
  BY <1>2, <1>6

\* The operator's swap, the end of a reboot, Ctrl-C.
LEMMA BenchStep ==
    ASSUME TypeOK, OwnPorts, UnitsApart, OwnUnit, PassedStays,
           \/ \E s \in Stations : Remove(s) \/ Insert(s)
           \/ \E u \in Units : RebootEnds(u)
           \/ CtrlC
    PROVE  UnitsApart' /\ OwnUnit' /\ PassedStays'
<1>1. CASE \E s \in Stations : Remove(s)
  <2> PICK s \in Stations : Remove(s)
    BY <1>1
  <2>1. /\ s \in config.stations /\ pc[s] \in {"removal", "insertion", "bench"}
        /\ slot[s] \in Units /\ slot[s] # NoUnit
        /\ slot'[s] = NoUnit /\ mode'[slot[s]] = "gone"
        /\ \A t \in Stations : t # s => slot'[t] = slot[t]
        /\ \A u \in Units : u # slot[s] => mode'[u] = mode[u]
        /\ UNCHANGED <<config, fw, pc, attempt, port, open, log, stop>>
    BY DEF TypeOK, Remove, Becomes
  <2>2. UnitsApart' /\ OwnUnit'
    BY <2>1 DEF TypeOK, UnitsApart, OwnUnit, Alone, HasAt, HasDl
  <2>3. PassedStays'
    <3>1. \A r \in log : r.result = "pass" /\ ~stop => Settled(r.unit)'
      <4> SUFFICES ASSUME NEW r \in log, r.result = "pass", ~stop PROVE Settled(r.unit)'
        OBVIOUS
      <4>1. r.unit \in Units /\ r.unit # NoUnit /\ Settled(r.unit)
        BY LineAssumption DEF PassedStays, NoUnit, Units
      <4>2. \A t \in Stations : slot'[t] = r.unit => t # s /\ slot[t] = r.unit
        BY <2>1, <4>1
      <4>3. mode'[r.unit] = "gone" \/ mode'[r.unit] = mode[r.unit]
        BY <2>1, <4>1
      <4> QED
        BY <2>1, <4>1, <4>2, <4>3 DEF Settled
    <3> QED
      BY <2>1, <3>1, OddStays DEF TypeOK, PassedStays
  <2> QED
    BY <2>2, <2>3
<1>2. CASE \E s \in Stations : Insert(s)
  <2> PICK s \in Stations : Insert(s)
    BY <1>2
  <2> PICK u \in Units : /\ mode[u] = "shelf" /\ slot' = [slot EXCEPT ![s] = u]
                         /\ \E m \in Arrivals(s) : Becomes(u, m)
    BY DEF Insert
  <2>1. /\ s \in config.stations /\ slot[s] = NoUnit /\ slot'[s] = u
        /\ mode'[u] \in {"app", "download"}
        /\ \A t \in Stations : t # s => slot'[t] = slot[t]
        /\ \A v \in Units : v # u => mode'[v] = mode[v]
        /\ UNCHANGED <<config, fw, pc, attempt, port, open, log, stop>>
    BY DEF TypeOK, Insert, Becomes, Arrivals
  <2>2. UnitsApart'
    BY <2>1 DEF TypeOK, UnitsApart
  <2>3. OwnUnit'
    BY <2>1 DEF TypeOK, UnitsApart, OwnUnit, Alone, HasAt, HasDl
  <2>4. \A r \in log : r.result = "pass" /\ ~stop => r.unit # u
    BY DEF PassedStays, Settled
  <2>5. PassedStays'
    BY <2>1, <2>4, OddStays DEF TypeOK, PassedStays, Settled
  <2> QED
    BY <2>2, <2>3, <2>5
<1>3. CASE \E u \in Units : RebootEnds(u)
  <2> PICK u \in Units : RebootEnds(u)
    BY <1>3
  <2>1. /\ \A v \in Units : v # u => mode'[v] = mode[v]
        /\ \/ mode[u] = "entering" /\ mode'[u] = "download"
           \/ mode[u] = "booting" /\ mode'[u] \in {"app", "mute", "dead"}
        /\ UNCHANGED <<config, slot, fw, pc, attempt, port, open, log, stop>>
    BY DEF TypeOK, RebootEnds, Becomes
  <2>2. UnitsApart' /\ OwnUnit'
    BY <2>1 DEF TypeOK, UnitsApart, OwnUnit, Alone, HasAt, HasDl
  <2>3. PassedStays'
    BY <2>1, OddStays DEF TypeOK, PassedStays, Settled
  <2> QED
    BY <2>2, <2>3
<1>4. CASE CtrlC
  BY <1>4, OddStays
  DEF CtrlC, usbVars, UnitsApart, OwnUnit, Alone, HasAt, HasDl, PassedStays
<1> QED
  BY <1>1, <1>2, <1>3, <1>4

LEMMA ConfigStays == [Next]_vars => config' = config
BY DEF Next, vars, StationStep, ChooseConfigured, TakeDiscovered, EnterDownload, NoDownload,
       BeaconSeen, BeaconMissing, OpenPort, OpenFails, FlashOk, FlashFails, ModuleSeen,
       ModuleMissing, VerifyOk, VerifyFails, TryAgain, GiveUp, StopOrWait, UnitRemoved,
       UnitInserted, BenchEmpty, RunUnit, Remove, Insert, RebootEnds, CtrlC

LEMMA LineInvariant == Spec => []LineInv
<1>1. LineInv /\ [Next]_vars => LineInv'
  <2> SUFFICES ASSUME LineInv, [Next]_vars PROVE LineInv'
    OBVIOUS
  <2>1. TypeOK'
    <3>1. CASE UNCHANGED vars
      BY <3>1 DEF LineInv, TypeOK, vars, usbVars
    <3> QED
      BY <3>1, StationTypeOK, BenchTypeOK DEF LineInv, Next
  <2>2. OwnPorts' = OwnPorts
    BY ConfigStays DEF OwnPorts, Alone
  <2>3. ASSUME OwnPorts PROVE UnitsApart' /\ OwnUnit' /\ PassedStays'
    <3>1. TypeOK /\ UnitsApart /\ OwnUnit /\ PassedStays
      BY <2>3 DEF LineInv
    <3>2. CASE UNCHANGED vars
      BY <3>1, <3>2, OddStays
      DEF vars, usbVars, UnitsApart, OwnUnit, Alone, HasAt, HasDl, PassedStays, Settled
    <3> QED
      BY <2>3, <3>1, <3>2, QuietStep, DownloadStep, FlashStep, RecordStep, BenchStep
      DEF Next, StationStep
  <2> QED
    BY <2>1, <2>2, <2>3 DEF LineInv
<1> QED
  BY <1>1, InitInv, PTL DEF Spec

\* Where stations cannot take each other's ports and a unit that has passed is not taken
\* for the next (OwnPorts), a PASS is about a unit that was there and, until a stop, holds
\* the whole firmware, and its IMEI is no other unit's: for any number of stations, units
\* and retries, with bad units, odd answers to AT+CGSN and Ctrl-C (station.rs:94-193,
\* verify.rs:49-77).
THEOREM PassOnOwnPorts == Spec => [](OwnPorts => PassIsGenuine)
<1>1. LineInv /\ OwnPorts => PassIsGenuine
  <2> SUFFICES ASSUME LineInv, OwnPorts, NEW r \in log, r.result = "pass"
               PROVE  /\ r.unit # NoUnit
                      /\ stop \/ fw[r.unit] = "new"
                      /\ config.verify => r.imei \in {r.unit} \cup OddAnswers
    BY DEF PassIsGenuine
  <2> QED
    BY LineAssumption DEF LineInv, PassedStays, NoUnit, Units
<1> QED
  BY <1>1, LineInvariant, PTL

\* Under the same condition the swap detection works: no unit that has passed is flashed
\* again, until the line is stopped (station.rs:206-257, line.rs:123-159).
THEOREM SwapOnOwnPorts == Spec /\ OwnPorts => NeverReflashed
<1>1. ASSUME LineInv, OwnPorts, [Next]_vars, NEW s \in Stations,
             pc[s] = "open", pc'[s] = "flash", ~stop
      PROVE  ~Passed(slot[port[s]])
  <2>1. Downloading(slot[port[s]]) /\ port[s] = s
    <3>1. PICK t \in Stations : StationStep(t)
      BY <1>1 DEF Next, vars, usbVars, Remove, Insert, RebootEnds, CtrlC
    <3>2. OpenPort(s)
      BY <1>1, <3>1
      DEF LineInv, TypeOK, At, Goto, StationStep, ChooseConfigured, TakeDiscovered,
          EnterDownload, NoDownload, BeaconSeen, BeaconMissing, OpenPort, OpenFails, FlashOk,
          FlashFails, Record, ModuleSeen, ModuleMissing, VerifyOk, VerifyFails, TryAgain,
          GiveUp, StopOrWait, UnitRemoved, UnitInserted, BenchEmpty, RunUnit
    <3> QED
      BY <1>1, <3>2 DEF OpenPort, Openable, LineInv, OwnUnit
  <2> QED
    BY <1>1, <2>1 DEF Downloading, Passed, LineInv, PassedStays, Settled, Waiting
<1>2. LineInv /\ OwnPorts /\ [Next]_vars =>
         [\A s \in Stations :
             pc[s] = "open" /\ pc'[s] = "flash" /\ ~stop => ~Passed(slot[port[s]])]_vars
  BY <1>1
<1>3. OwnPorts /\ [Next]_vars => OwnPorts'
  BY ConfigStays DEF OwnPorts, Alone
<1> QED
  BY <1>2, <1>3, LineInvariant, PTL DEF Spec, NeverReflashed

----
(***************************************************************************)
(* The line implements LineJob.                                            *)
(***************************************************************************)

\* What has not come to a fixture yet is as it was made.
ShelfIsNew ==
    \A u \in Units : mode[u] = "shelf" =>
        fw[u] = "factory" /\ \A r \in log : r.unit # u

JobInv == LineInv /\ ShelfIsNew

\* The steps that the abstract line does not see.
LEMMA UnseenStep ==
    ASSUME NEW s \in Stations,
           \/ ChooseConfigured(s) \/ TakeDiscovered(s) \/ EnterDownload(s) \/ NoDownload(s)
           \/ BeaconSeen(s) \/ BeaconMissing(s) \/ OpenPort(s) \/ OpenFails(s)
           \/ ModuleSeen(s) \/ ModuleMissing(s) \/ VerifyFails(s) \/ TryAgain(s)
           \/ StopOrWait(s) \/ UnitRemoved(s) \/ UnitInserted(s) \/ BenchEmpty(s)
    PROVE  UNCHANGED <<config, slot, fw, log, stop>>
BY DEF ChooseConfigured, TakeDiscovered, EnterDownload, NoDownload, BeaconSeen, BeaconMissing,
       OpenPort, OpenFails, ModuleSeen, ModuleMissing, VerifyFails, TryAgain, StopOrWait,
       UnitRemoved, UnitInserted, BenchEmpty, RunUnit, usbVars

LEMMA ShelfStays ==
    ASSUME LineInv, OwnPorts, ShelfIsNew, [Next]_vars
    PROVE  ShelfIsNew'
<1> USE DEF LineInv, TypeOK
<1>1. \A u \in Units : mode'[u] = "shelf" => mode[u] = "shelf"
  <2>1. \A s \in Stations : SendDownload(s) =>
           \A u \in Units : mode'[u] = "shelf" => mode[u] = "shelf"
    BY DEF SendDownload
  <2>2. \A s \in Stations : EnterDownload(s) \/ TryAgain(s) =>
           \A u \in Units : mode'[u] = "shelf" => mode[u] = "shelf"
    BY <2>1 DEF EnterDownload, TryAgain, Recover
  <2>3. \A s \in Stations : FlashOk(s) \/ FlashFails(s) =>
           \A u \in Units : mode'[u] = "shelf" => mode[u] = "shelf"
    BY DEF FlashOk, FlashFails, AfterReset
  <2>4. \A s \in Stations : Remove(s) \/ Insert(s) =>
           \A u \in Units : mode'[u] = "shelf" => mode[u] = "shelf"
    BY DEF Remove, Insert, Becomes, Arrivals
  <2>5. \A u \in Units : RebootEnds(u) =>
           \A v \in Units : mode'[v] = "shelf" => mode[v] = "shelf"
    BY DEF RebootEnds, Becomes
  <2>6. \A s \in Stations :
           \/ ChooseConfigured(s) \/ TakeDiscovered(s) \/ NoDownload(s) \/ BeaconSeen(s)
           \/ BeaconMissing(s) \/ OpenPort(s) \/ OpenFails(s) \/ ModuleSeen(s)
           \/ ModuleMissing(s) \/ VerifyFails(s) \/ VerifyOk(s) \/ GiveUp(s)
           \/ StopOrWait(s) \/ UnitRemoved(s) \/ UnitInserted(s) \/ BenchEmpty(s)
           => mode' = mode
    BY DEF ChooseConfigured, TakeDiscovered, NoDownload, BeaconSeen, BeaconMissing, OpenPort,
           OpenFails, ModuleSeen, ModuleMissing, VerifyFails, VerifyOk, GiveUp, StopOrWait,
           UnitRemoved, UnitInserted, BenchEmpty, RunUnit, usbVars
  <2>7. CASE UNCHANGED vars \/ CtrlC
    BY <2>7 DEF vars, usbVars, CtrlC
  <2> QED
    BY <2>2, <2>3, <2>4, <2>5, <2>6, <2>7 DEF Next, StationStep
<1>2. \A s \in Stations : slot[s] # NoUnit => mode[slot[s]] # "shelf"
  BY DEF UnitsApart
<1>3. \A s \in Stations : FlashOk(s) \/ FlashFails(s) =>
         \A u \in Units : mode[u] = "shelf" =>
            fw'[u] = fw[u] /\ \A r \in log' \ log : r.unit # u
  BY <1>2 DEF FlashOk, FlashFails, Record, At, OwnUnit
<1>4. \A s \in Stations : VerifyOk(s) \/ GiveUp(s) =>
         fw' = fw /\ \A u \in Units : mode[u] = "shelf" => \A r \in log' \ log : r.unit # u
  <2> SUFFICES ASSUME NEW s \in Stations, VerifyOk(s) \/ GiveUp(s),
                      NEW u \in Units, mode[u] = "shelf"
               PROVE  fw' = fw /\ \A r \in log' \ log : r.unit # u
    BY DEF VerifyOk, GiveUp, usbVars
  <2>1. fw' = fw /\ \A r \in log' \ log : r.unit = slot[s]
    BY DEF VerifyOk, GiveUp, Record, usbVars
  <2>2. u # NoUnit
    BY LineAssumption DEF NoUnit, Units
  <2>3. slot[s] # u
    BY <1>2, <2>2
  <2> QED
    BY <2>1, <2>3
<1>5. \A u \in Units : mode[u] = "shelf" =>
         fw'[u] = fw[u] /\ \A r \in log' \ log : r.unit # u
  <2>1. CASE \E s \in Stations : StationStep(s)
    BY <1>3, <1>4, <2>1, UnseenStep DEF StationStep
  <2>2. CASE UNCHANGED vars \/ ~ \E s \in Stations : StationStep(s)
    BY <2>2 DEF vars, usbVars, Next, Remove, Insert, RebootEnds, CtrlC
  <2> QED
    BY <2>1, <2>2
<1> QED
  BY <1>1, <1>5 DEF ShelfIsNew

LEMMA JobInvariant == Spec /\ OwnPorts => [](JobInv /\ OwnPorts)
<1>1. Init => ShelfIsNew
  BY DEF Init, ShelfIsNew
<1>2. LineInv /\ OwnPorts /\ ShelfIsNew /\ [Next]_vars => ShelfIsNew' /\ OwnPorts'
  BY ShelfStays, ConfigStays DEF OwnPorts, Alone
<1> QED
  BY <1>1, <1>2, LineInvariant, PTL DEF Spec, JobInv

LEMMA JobInit == ASSUME Init, OwnPorts PROVE Job!Init
<1>1. UnitsApart
  BY InitApart
<1>2. config.verify \in BOOLEAN
  BY LineAssumption DEF Init
<1> QED
  BY <1>1, <1>2 DEF Init, Job!Init, UnitsApart

LEMMA JobFlash ==
    ASSUME JobInv, OwnPorts, NEW s \in Stations, FlashOk(s) \/ FlashFails(s)
    PROVE  Job!Flash(s) \/ Job!FlashAndPass(s)
<1> USE DEF JobInv, LineInv
<1>1. /\ pc[s] = "flash" /\ open[s] = s /\ slot[s] # NoUnit /\ mode[slot[s]] = "download"
      /\ UNCHANGED <<config, slot, stop>>
  BY DEF FlashOk, FlashFails, At, OwnUnit
<1>2. Job!Due(s)
  BY <1>1 DEF Job!Due, Job!Passed, PassedStays, Settled, Waiting
<1>3. CASE FlashFails(s)
  <2>1. fw' = [fw EXCEPT ![slot[s]] = "partial"] /\ log' = log
    BY <1>1, <1>3 DEF FlashFails
  <2> QED
    BY <1>1, <1>2, <2>1 DEF Job!Flash
<1>4. CASE FlashOk(s)
  <2>1. fw' = [fw EXCEPT ![slot[s]] = "new"]
    BY <1>1, <1>4 DEF FlashOk
  <2>2. CASE config.verify
    <3>1. log' = log
      BY <1>4, <2>2 DEF FlashOk
    <3> QED
      BY <1>1, <1>2, <2>1, <3>1 DEF Job!Flash
  <2>3. CASE ~config.verify
    <3>1. Record(s, "pass", NoUnit)
      BY <1>4, <2>3 DEF FlashOk
    <3> QED
      BY <1>1, <1>2, <2>1, <2>3, <3>1 DEF Job!FlashAndPass, Job!Write, Record
  <2> QED
    BY <2>2, <2>3
<1> QED
  BY <1>3, <1>4

LEMMA JobRecord ==
    ASSUME JobInv, OwnPorts, NEW s \in Stations, VerifyOk(s) \/ GiveUp(s)
    PROVE  Job!Pass(s) \/ Job!Fail(s)
<1>1. CASE VerifyOk(s)
  <2>1. port[s] = s /\ config.verify /\ slot[s] # NoUnit /\ fw[slot[s]] = "new"
    BY <1>1 DEF JobInv, LineInv, OwnUnit, VerifyOk, At
  <2>2. /\ \E imei \in {slot[s]} \cup OddAnswers : Record(s, "pass", imei)
        /\ UNCHANGED <<config, slot, fw, stop>>
    BY <1>1, <2>1 DEF VerifyOk, usbVars
  <2>3. \E imei \in {slot[s]} \cup {NoUnit, OtherLine} : Job!Write(s, "pass", imei)
    BY <2>2 DEF Record, Job!Write, OddAnswers
  <2> QED
    BY <2>1, <2>2, <2>3 DEF Job!Pass
<1>2. CASE GiveUp(s)
  BY <1>2 DEF GiveUp, Record, usbVars, Job!Fail, Job!Write
<1> QED
  BY <1>1, <1>2

LEMMA JobBench ==
    ASSUME JobInv, OwnPorts, NEW s \in Stations, Remove(s) \/ Insert(s)
    PROVE  Job!Take(s) \/ Job!Place(s)
<1>1. CASE Remove(s)
  BY <1>1 DEF Remove, Job!Take
<1>2. CASE Insert(s)
  <2>1. PICK u \in Units : mode[u] = "shelf" /\ slot' = [slot EXCEPT ![s] = u]
    BY <1>2 DEF Insert
  <2>2. fw[u] = "factory" /\ \A r \in log : r.unit # u
    BY <2>1 DEF JobInv, ShelfIsNew
  <2>3. u # NoUnit
    BY LineAssumption DEF NoUnit, Units
  <2>4. \A t \in Stations : slot[t] # u
    BY <2>1, <2>3 DEF JobInv, LineInv, UnitsApart
  <2> QED
    BY <1>2, <2>1, <2>2, <2>4 DEF Insert, Job!Place
<1> QED
  BY <1>1, <1>2

\* Where stations cannot take each other's ports and a unit that has passed is not taken
\* for the next (OwnPorts), every step of the threads, the modules and the operator is a
\* step of LineJob or none that it sees: a unit is flashed on its own fixture until it
\* has passed or the line is stopped, and passes only with the whole firmware, its IMEI
\* told by itself or nobody's (station.rs:49-267, verify.rs:49-77, line.rs:101-159).
THEOREM LineIsLineJob == Spec /\ OwnPorts => IsLineJob
<1>1. ASSUME JobInv, OwnPorts, [Next]_vars PROVE [Job!Next]_(Job!jobVars)
  <2>1. CASE UNCHANGED vars \/ \E u \in Units : RebootEnds(u)
    BY <2>1 DEF vars, usbVars, RebootEnds, Job!jobVars
  <2>4. CASE CtrlC
    BY <2>4 DEF CtrlC, usbVars, Job!Next, Job!Stop
  <2>2. CASE \E s \in Stations : StationStep(s)
    <3> PICK s \in Stations : StationStep(s)
      BY <2>2
    <3>1. CASE FlashOk(s) \/ FlashFails(s)
      BY <3>1, <1>1, JobFlash DEF Job!Next
    <3>2. CASE VerifyOk(s) \/ GiveUp(s)
      BY <3>2, <1>1, JobRecord DEF Job!Next
    <3>3. CASE ~(FlashOk(s) \/ FlashFails(s) \/ VerifyOk(s) \/ GiveUp(s))
      BY <3>3, UnseenStep DEF StationStep, Job!jobVars
    <3> QED
      BY <3>1, <3>2, <3>3
  <2>3. CASE \E s \in Stations : Remove(s) \/ Insert(s)
    BY <2>3, <1>1, JobBench DEF Job!Next
  <2> QED
    BY <1>1, <2>1, <2>2, <2>3, <2>4 DEF Next
<1>2. JobInv /\ OwnPorts /\ [Next]_vars => [Job!Next]_(Job!jobVars)
  BY <1>1
<1> QED
  BY <1>2, JobInit, JobInvariant, PTL DEF Spec, IsLineJob, Job!Spec
====

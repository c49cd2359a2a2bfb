---- MODULE LineJob ----
(***************************************************************************)
(* What a line promises of the units put on its fixtures, with the ports,  *)
(* the bus, the attempts and the waits left out.  Units come to a fixture  *)
(* new and leave it for good once they have a record.  A unit is flashed   *)
(* only on a fixture, and until the line is stopped never after it has     *)
(* passed.  It passes only while it holds the whole firmware: in a line    *)
(* that verifies, in a step of its own that gives the record an IMEI which *)
(* is the unit's own or nobody's, and else together with the end of the    *)
(* flash.                                                                  *)
(***************************************************************************)
EXTENDS Naturals

CONSTANTS
    Fixtures,
    Units,
    NoUnit,     \* none of the units
    OtherLines  \* what a unit may answer in place of its IMEI: no unit's

VARIABLES
    verify,  \* UnitJob::verify
    on,      \* the unit on each fixture, or NoUnit
    holds,   \* the firmware each unit holds: "factory", "partial" or "new"
    records, \* the records written
    stopped  \* Ctrl-C: every station ends after one more round

jobVars == <<verify, on, holds, records, stopped>>

Passed(u) == \E r \in records : r.unit = u /\ r.result = "pass"

Write(f, result, imei) ==
    records' = records \cup
        {[station |-> f, unit |-> on[f], result |-> result, imei |-> imei]}

Init ==
    /\ verify \in BOOLEAN
    /\ on \in [Fixtures -> Units \cup {NoUnit}]
    /\ \A f, g \in Fixtures : on[f] = on[g] /\ on[f] # NoUnit => f = g
    /\ holds = [u \in Units |-> "factory"]
    /\ records = {}
    /\ ~stopped

\* A unit to be flashed: one that has passed only in the last round of a stopped line.
Due(f) == on[f] # NoUnit /\ (stopped \/ ~Passed(on[f]))

\* A flash ends, well or badly.
Flash(f) ==
    /\ Due(f)
    /\ \E image \in {"partial", "new"} : holds' = [holds EXCEPT ![on[f]] = image]
    /\ UNCHANGED <<verify, on, records, stopped>>

FlashAndPass(f) ==
    /\ ~verify
    /\ Due(f)
    /\ holds' = [holds EXCEPT ![on[f]] = "new"]
    /\ Write(f, "pass", NoUnit)
    /\ UNCHANGED <<verify, on, stopped>>

Pass(f) ==
    /\ verify
    /\ on[f] # NoUnit /\ holds[on[f]] = "new"
    /\ \E imei \in {on[f]} \cup OtherLines : Write(f, "pass", imei)
    /\ UNCHANGED <<verify, on, holds, stopped>>

\* Also of an empty fixture, or of a unit that has passed: a stop during the wait for
\* the next unit is followed by one more round.
Fail(f) ==
    /\ Write(f, "fail", NoUnit)
    /\ UNCHANGED <<verify, on, holds, stopped>>

Take(f) ==
    /\ on[f] # NoUnit /\ \E r \in records : r.unit = on[f]
    /\ on' = [on EXCEPT ![f] = NoUnit]
    /\ UNCHANGED <<verify, holds, records, stopped>>

Place(f) ==
    /\ on[f] = NoUnit
    /\ \E u \in Units :
          /\ holds[u] = "factory"
          /\ \A r \in records : r.unit # u
          /\ \A g \in Fixtures : on[g] # u
          /\ on' = [on EXCEPT ![f] = u]
    /\ UNCHANGED <<verify, holds, records, stopped>>

Stop ==
    /\ ~stopped
    /\ stopped' = TRUE
    /\ UNCHANGED <<verify, on, holds, records>>

Next ==
    \/ \E f \in Fixtures :
          Flash(f) \/ FlashAndPass(f) \/ Pass(f) \/ Fail(f) \/ Take(f) \/ Place(f)
    \/ Stop

Spec == Init /\ [][Next]_jobVars
====

---- MODULE Tally ----
(***************************************************************************)
(* What a line run keeps of its units (line.rs, metrics.rs, record.rs):    *)
(* counters bumped one by one by every station's thread, a JSON line per   *)
(* unit in the records file, a tail of recent records in memory, and the   *)
(* exporter's thread, which run() waits for before it sums up.  How a unit *)
(* comes to its result is the business of Line.                            *)
(*                                                                         *)
(* The process may die at any point and be started again; the file, which  *)
(* is opened for appending, is all that outlives it.  A write to it may    *)
(* fail, and nobody looks.                                                 *)
(***************************************************************************)
EXTENDS Naturals, Sequences, FiniteSets

CONSTANTS
    Stations, \* the stations' threads
    Nobody,   \* none of them
    Keep,     \* RECENT_KEEP
    Configs   \* the runs considered

Results == {"pass", "fail"}

ASSUME TallyAssumption ==
    /\ Nobody \notin Stations /\ IsFiniteSet(Stations)
    /\ Keep \in Nat \ {0}
    /\ \A c \in Configs :
          /\ c.stations \subseteq Stations
          /\ {c.continuous, c.exporter, c.ingest} \subseteq BOOLEAN
          /\ c.outcomes \subseteq [result : Results, attempts : Nat \ {0}]
          /\ {c.trouble, c.until} \subseteq Nat
          \* Two stations with one label are not caught, and share the keys of the MES.
          /\ \A s, t \in c.stations : c.label[s] = c.label[t] => s = t

VARIABLES
    config,   \* the stations, their labels and the options of the run; bounds on what
              \* goes wrong (trouble) and on when units are brought (until)
    clock,    \* the time in milliseconds, as far as it matters
    pc,       \* where each station's thread is
    rec,      \* the record each station is making
    wake,     \* when each station's pause ends
    metrics,  \* Metrics
    sink,     \* whether the records file could be opened
    holder,   \* the station that holds the sink's mutex
    file,     \* the records file: JSON pieces and line ends
    recent,   \* the records kept in memory
    stop,     \* LineConfig::stop
    main,     \* where run() is, or "down"
    exporter, \* where the exporter's thread is
    shutdown, \* its shutdown flag
    pushed,   \* all records this run has kept, for the properties
    handed,   \* all records any run has begun to write, for the properties
    trouble   \* deaths of the process and failed writes

runVars == <<pc, rec, wake, metrics, sink, holder, recent, stop, main, exporter,
             shutdown, pushed>>
fileVars == <<file, handed, trouble>>
tallyVars == <<config, clock, runVars, fileVars>>

\* What no station's thread changes.
others == <<config, sink, stop, main, exporter, shutdown>>

LineEnd == [form |-> "end"]
Piece(form, r) == [form |-> form, rec |-> r]

\* What remains of a record whose write fails half-way: it may end inside a character.
Remains(r) == {<<>>, <<Piece("torn", r)>>, <<Piece("split", r)>>}

Fresh(v) == [s \in Stations |-> v]
NoMetrics == [passed |-> 0, failed |-> 0, retries |-> 0, bytes |-> 0]
ExporterStarts == IF config.exporter THEN {"check", "ended"} ELSE {"off"}

At(s, p) == main = "stations" /\ pc[s] = p
Goto(s, p) == pc' = [pc EXCEPT ![s] = p]

----
(***************************************************************************)
(* A station's thread, from the end of run_unit on.                        *)
(***************************************************************************)
NewRecord(s, t, o) ==
    [station |-> config.label[s], ts |-> t, result |-> o.result, attempts |-> o.attempts]

\* run_unit returns; ts_ms is the time at which it was called.
UnitDone(s) ==
    /\ At(s, "unit")
    /\ \E o \in config.outcomes : rec' = [rec EXCEPT ![s] = NewRecord(s, @.ts, o)]
    /\ Goto(s, "result")
    /\ UNCHANGED <<others, clock, wake, metrics, holder, recent, pushed, fileVars>>

Counted(m, r) ==
    IF r.result = "pass" THEN [m EXCEPT !.passed = @ + 1] ELSE [m EXCEPT !.failed = @ + 1]

\* Metrics::record: each counter is one atomic addition.  bytes and flash_millis grow
\* with what was written, which for a failed unit is nothing.
CountResult(s) ==
    /\ At(s, "result")
    /\ metrics' = Counted(metrics, rec[s])
    /\ Goto(s, "retries")
    /\ UNCHANGED <<others, clock, rec, wake, holder, recent, pushed, fileVars>>

\* Mutant of CountRetries: the first attempt is taken off twice.
CountRetriesLess(s) ==
    /\ At(s, "retries")
    /\ metrics' = [metrics EXCEPT !.retries = @ + rec[s].attempts - 2]
    /\ Goto(s, "bytes")
    /\ UNCHANGED <<others, clock, rec, wake, holder, recent, pushed, fileVars>>

CountRetries(s) ==
    /\ At(s, "retries")
    /\ metrics' = [metrics EXCEPT !.retries = @ + rec[s].attempts - 1]
    /\ Goto(s, "bytes")
    /\ UNCHANGED <<others, clock, rec, wake, holder, recent, pushed, fileVars>>

CountBytes(s) ==
    /\ At(s, "bytes")
    /\ metrics' = [metrics EXCEPT !.bytes = @ + (IF rec[s].result = "pass" THEN 1 ELSE 0)]
    /\ Goto(s, IF sink THEN "sink" ELSE "push")
    /\ UNCHANGED <<others, clock, rec, wake, holder, recent, pushed, fileVars>>

\* writeln! under the mutex, the first of its two writes: the JSON.
WriteRecord(s) ==
    /\ At(s, "sink") /\ holder = Nobody
    /\ holder' = s
    /\ file' = Append(file, Piece("whole", rec[s]))
    /\ handed' = handed \cup {rec[s]}
    /\ Goto(s, "end")
    /\ UNCHANGED <<others, clock, rec, wake, metrics, recent, pushed, trouble>>

\* It fails: the line end is not written either, and the error is dropped.
WriteFails(s) ==
    /\ At(s, "sink") /\ holder = Nobody
    /\ trouble < config.trouble /\ trouble' = trouble + 1
    /\ \E left \in Remains(rec[s]) : file' = file \o left
    /\ handed' = handed \cup {rec[s]}
    /\ Goto(s, "push")
    /\ UNCHANGED <<others, clock, rec, wake, metrics, holder, recent, pushed>>

\* Mutant of WriteEnd: the line end is left out.
WriteEndNever(s) ==
    /\ At(s, "end")
    /\ holder' = Nobody
    /\ Goto(s, "push")
    /\ UNCHANGED <<others, clock, rec, wake, metrics, recent, pushed, fileVars>>

\* The second write, and the mutex is released.
WriteEnd(s) ==
    /\ At(s, "end")
    /\ \/ file' = Append(file, LineEnd) /\ UNCHANGED trouble
       \/ /\ trouble < config.trouble /\ trouble' = trouble + 1
          /\ UNCHANGED file
    /\ holder' = Nobody
    /\ Goto(s, "push")
    /\ UNCHANGED <<others, clock, rec, wake, metrics, recent, pushed, handed>>

\* Mutant of TailOf: the newest records are drained.
TailOldest(q) == IF config.continuous THEN SubSeq(q, 1, IF Len(q) > Keep THEN Keep ELSE Len(q))
                 ELSE q

\* A continuous run drains what is beyond the last Keep records.
TailOf(q) == IF config.continuous /\ Len(q) > Keep THEN SubSeq(q, Len(q) - Keep + 1, Len(q))
             ELSE q

Push(s) ==
    /\ At(s, "push")
    /\ recent' = TailOf(Append(recent, rec[s]))
    /\ pushed' = Append(pushed, rec[s])
    /\ Goto(s, "loop")
    /\ UNCHANGED <<others, clock, rec, wake, metrics, holder, fileVars>>

LoopOrBreak(s) ==
    /\ At(s, "loop")
    /\ IF ~config.continuous \/ stop
       THEN Goto(s, "done") /\ UNCHANGED wake
       ELSE Goto(s, "pause") /\ wake' = [wake EXCEPT ![s] = clock + 1]
    /\ UNCHANGED <<others, clock, rec, metrics, holder, recent, pushed, fileVars>>

\* Mutant of PauseEnds: without the 500 ms floor.
PauseEndsAtOnce(s) ==
    /\ At(s, "pause")
    /\ Goto(s, "wait")
    /\ UNCHANGED <<others, clock, rec, wake, metrics, holder, recent, pushed, fileVars>>

PauseEnds(s) ==
    /\ At(s, "pause")
    /\ clock' = IF clock < wake[s] THEN wake[s] ELSE clock
    /\ Goto(s, "wait")
    /\ UNCHANGED <<others, rec, wake, metrics, holder, recent, pushed, fileVars>>

\* wait_for_next_unit returns, and run_unit is called once more.
Begin(s) ==
    /\ rec' = [rec EXCEPT ![s].ts = clock]
    /\ Goto(s, "unit")
    /\ UNCHANGED <<others, clock, wake, metrics, holder, recent, pushed, fileVars>>

NextUnit(s) == At(s, "wait") /\ ~stop /\ clock < config.until /\ Begin(s)
WaitStopped(s) == At(s, "wait") /\ stop /\ Begin(s)

StationStep(s) ==
    \/ UnitDone(s) \/ CountResult(s) \/ CountRetries(s) \/ CountBytes(s)
    \/ WriteRecord(s) \/ WriteFails(s) \/ WriteEnd(s) \/ Push(s)
    \/ LoopOrBreak(s) \/ PauseEnds(s) \/ WaitStopped(s)

----
(***************************************************************************)
(* The exporter's thread (serve_listener) and its clients.                 *)
(***************************************************************************)
exporterRest == <<config, clock, pc, rec, wake, metrics, sink, holder, recent, stop, main,
                  shutdown, pushed, fileVars>>

\* Mutant of CheckShutdown: the flag is not looked at.
CheckShutdownNever ==
    /\ exporter = "check"
    /\ exporter' = "accept"
    /\ UNCHANGED exporterRest

CheckShutdown ==
    /\ exporter = "check"
    /\ exporter' = IF shutdown THEN "ended" ELSE "accept"
    /\ UNCHANGED exporterRest

\* No connection is there: a sleep of 50 ms.
AcceptNothing ==
    /\ exporter = "accept"
    /\ exporter' = "check"
    /\ UNCHANGED exporterRest

ClientConnects ==
    /\ exporter = "accept"
    /\ exporter' = "read"
    /\ UNCHANGED exporterRest

\* The accepted stream blocks until its client has sent something or gone away.
ClientSends ==
    /\ exporter = "read"
    /\ exporter' = "respond"
    /\ UNCHANGED exporterRest

Respond ==
    /\ exporter = "respond"
    /\ exporter' = "check"
    /\ UNCHANGED exporterRest

ExporterStep == CheckShutdown \/ AcceptNothing \/ Respond

----
(***************************************************************************)
(* run() itself, Ctrl-C, and the end of the process.                       *)
(***************************************************************************)
mainRest == <<config, clock, pc, rec, wake, metrics, sink, holder, recent, stop, pushed,
              fileVars>>

\* The scope ends once all stations have.
StationsJoined ==
    /\ main = "stations"
    /\ \A s \in config.stations : pc[s] = "done"
    /\ main' = IF config.exporter THEN "hold" ELSE "returned"
    /\ UNCHANGED <<mainRest, exporter, shutdown>>

\* The two seconds for a last scrape are over.
ShutExporter ==
    /\ main = "hold"
    /\ shutdown' = TRUE
    /\ main' = "join"
    /\ UNCHANGED <<mainRest, exporter>>

ExporterJoined ==
    /\ main = "join" /\ exporter = "ended"
    /\ main' = "returned"
    /\ UNCHANGED <<mainRest, exporter, shutdown>>

MainStep == StationsJoined \/ ShutExporter \/ ExporterJoined

CtrlC ==
    /\ config.continuous /\ main = "stations" /\ ~stop
    /\ stop' = TRUE
    /\ UNCHANGED <<config, clock, pc, rec, wake, metrics, sink, holder, recent, main,
                   exporter, shutdown, pushed, fileVars>>

\* The process dies, perhaps within a write, and its memory with it.
Crash ==
    /\ main \notin {"returned", "down"}
    /\ trouble < config.trouble /\ trouble' = trouble + 1
    /\ main' = "down"
    /\ \/ UNCHANGED <<file, handed>>
       \/ \E s \in config.stations :
             /\ At(s, "sink") /\ holder = Nobody
             /\ \E left \in Remains(rec[s]) : file' = file \o left
             /\ handed' = handed \cup {rec[s]}
    /\ pc' = Fresh("unit") /\ rec' = Fresh([ts |-> clock]) /\ wake' = Fresh(0)
    /\ metrics' = NoMetrics /\ recent' = <<>> /\ pushed' = <<>>
    /\ holder' = Nobody /\ stop' = FALSE /\ shutdown' = FALSE /\ exporter' = "off"
    /\ UNCHANGED <<config, clock, sink>>

\* The line is started again on the same records file, at a later time.
Restart ==
    /\ main = "down"
    /\ clock' = clock + 1
    /\ rec' = Fresh([ts |-> clock + 1])
    /\ sink' \in BOOLEAN
    /\ exporter' \in ExporterStarts
    /\ main' = "stations"
    /\ UNCHANGED <<config, pc, wake, metrics, holder, recent, stop, shutdown, pushed, fileVars>>

\* The records file may not open, and the exporter's address may not bind: the line
\* runs without them.
TallyInit ==
    /\ config \in Configs
    /\ clock = 0
    /\ pc = Fresh("unit")
    /\ rec = Fresh([ts |-> 0])
    /\ wake = Fresh(0)
    /\ metrics = NoMetrics
    /\ sink \in BOOLEAN
    /\ holder = Nobody
    /\ recent = <<>> /\ pushed = <<>>
    /\ stop = FALSE /\ main = "stations"
    /\ exporter \in ExporterStarts /\ shutdown = FALSE
    /\ file = <<>> /\ handed = {} /\ trouble = 0

TallyNext ==
    \/ \E s \in config.stations : StationStep(s) \/ NextUnit(s)
    \/ ExporterStep \/ ClientConnects \/ ClientSends
    \/ MainStep \/ CtrlC \/ Crash \/ Restart

----
(***************************************************************************)
(* Properties.                                                             *)
(***************************************************************************)
TallyTypeOK ==
    /\ config \in Configs
    /\ clock \in Nat
    /\ pc \in [Stations -> {"unit", "result", "retries", "bytes", "sink", "end", "push",
                            "loop", "pause", "wait", "done"}]
    /\ wake \in [Stations -> Nat]
    /\ metrics \in [{"passed", "failed", "retries", "bytes"} -> Nat]
    /\ holder \in Stations \cup {Nobody}
    /\ {sink, stop, shutdown} \subseteq BOOLEAN
    /\ main \in {"stations", "hold", "join", "returned", "down"}
    /\ exporter \in {"off", "check", "accept", "read", "respond", "ended"}
    /\ \A i \in DOMAIN file : file[i].form \in {"whole", "torn", "split", "end"}
    /\ trouble \in 0 .. config.trouble

\* The kept records of one result, and their attempts after the first, one by one.
Kept(result) == {i \in DOMAIN pushed : pushed[i].result = result}
Retried == UNION {{i} \X (2 .. pushed[i].attempts) : i \in DOMAIN pushed}

\* What run() returns agrees with itself, whatever the interleaving of the counters
\* and the kept records: the totals count every unit of the run, and the records are
\* all of them, or the last Keep of a continuous run, in the order they were kept.
SummaryAddsUp ==
    main = "returned" =>
        /\ metrics.passed = Cardinality(Kept("pass"))
        /\ metrics.failed = Cardinality(Kept("fail"))
        /\ metrics.retries = Cardinality(Retried)
        /\ metrics.bytes = metrics.passed
        /\ \E k \in 1 .. Len(pushed) + 1 :
              /\ recent = SubSeq(pushed, k, Len(pushed))
              /\ k > 1 => config.continuous /\ Len(recent) = Keep

\* A batch run, and a continuous one after Ctrl-C, comes to its summary; a scraper
\* that connects and stays silent is all that can keep it from it.
RunReturns ==
    []<>(exporter # "read") =>
        ((stop \/ ~config.continuous) ~> main \in {"returned", "down"})
====

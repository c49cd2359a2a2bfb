---- MODULE Records_proofs ----
(***************************************************************************)
(* Theorems about Records: for any number of stations and runs, any        *)
(* outcomes, and any number of deaths of the process and failed writes.    *)
(***************************************************************************)
EXTENDS Records, FiniteSetTheorems, SequenceTheorems, WellFoundedInduction, TLAPS

----
(***************************************************************************)
(* The inductive invariant.                                                *)
(***************************************************************************)

\* The records that the stations of the run can make, and what a file is made of.
LineRecords ==
    [station : {config.label[s] : s \in config.stations}, ts : Nat, result : Results,
     attempts : Nat \ {0}]
Tokens ==
    [form : {"end"}] \cup [form : {"whole", "torn", "split"}, rec : LineRecords]

\* Where a thread has a record that is not pushed yet.
Made == {"result", "retries", "bytes", "sink", "end", "push"}

TypeInv ==
    /\ TypeOK
    /\ rec \in [Stations -> [ts : Nat] \cup LineRecords]
    /\ \A s \in Stations : pc[s] \in Made => rec[s] \in LineRecords
    /\ {pushed, recent} \subseteq Seq(LineRecords)
    /\ handed \subseteq LineRecords /\ IsFiniteSet(handed)
    /\ file \in Seq(Tokens)

\* Who is at work, and the sink's mutex.
ThreadInv ==
    /\ \A s \in Stations : s \notin config.stations => pc[s] = "unit"
    /\ \A s \in Stations : holder = s <=> pc[s] = "end"
    /\ main \in {"hold", "join", "returned"} => \A s \in config.stations : pc[s] = "done"
    /\ main = "down" => \A s \in Stations : pc[s] = "unit"

\* Of the records not pushed yet: those of one result at some points of the threads, and
\* their attempts after the first.
Under(result, points) ==
    {s \in config.stations : pc[s] \in points /\ rec[s].result = result}
Underway(points) ==
    UNION {{s} \X (2 .. rec[s].attempts) : s \in {t \in config.stations : pc[t] \in points}}

AfterResult == {"retries", "bytes", "sink", "end", "push"}
AfterRetries == {"bytes", "sink", "end", "push"}
AfterBytes == {"sink", "end", "push"}

\* Each counter is ahead of the kept records by the threads that have bumped it.
CountInv ==
    /\ metrics.passed = Cardinality(Kept("pass")) + Cardinality(Under("pass", AfterResult))
    /\ metrics.failed = Cardinality(Kept("fail")) + Cardinality(Under("fail", AfterResult))
    /\ metrics.bytes = Cardinality(Kept("pass")) + Cardinality(Under("pass", AfterBytes))
    /\ metrics.retries = Cardinality(Retried) + Cardinality(Underway(AfterRetries))
    /\ IsFiniteSet(Retried) /\ IsFiniteSet(Underway(AfterRetries))

RecentInv ==
    \E k \in 1 .. Len(pushed) + 1 :
        /\ recent = SubSeq(pushed, k, Len(pushed))
        /\ k > 1 => config.continuous /\ Len(recent) = Keep

\* What is in the file was handed over, and a thread between its two writes has written
\* the last piece.
FileInv ==
    /\ \A i \in DOMAIN file : file[i].form # "end" => file[i].rec \in handed
    /\ \A s \in Stations :
          pc[s] = "end" => file # <<>> /\ file[Len(file)] = Piece("whole", rec[s])

\* How many records the next one will cost: itself when it is glued to an open line, and
\* the record of that line if it could still be read.
Debt ==
    IF holder # Nobody \/ file = <<>> \/ file[Len(file)].form = "end" THEN 0
    ELSE IF Readable(Len(file)) THEN 2 ELSE 1
LossInv == Cardinality(Lost) + Debt <= 2 * trouble

\* The key of a record is its own: every unit begins later than any record of its station.
KeyUnique == \A r, q \in handed : Mes!Key(r) = Mes!Key(q) => r = q
NotLater ==
    /\ \A r \in handed : r.ts <= clock
    /\ \A s \in Stations : rec[s].ts <= clock
OwnLabel(s) == pc[s] \in Made => rec[s].station = config.label[s]

\* When the next record of a station begins, at the earliest.
Floor(s) ==
    CASE main = "stations" /\ pc[s] \in {"unit", "result", "retries", "bytes", "sink"} ->
            rec[s].ts
      [] pc[s] = "pause" -> wake[s]
      [] pc[s] = "wait" -> clock
      [] OTHER -> clock + 1
LaterThan(s) == \A r \in handed : r.station = config.label[s] => r.ts < Floor(s)

KeyInv ==
    /\ KeyUnique /\ NotLater
    /\ \A s \in config.stations : LaterThan(s) /\ OwnLabel(s)

\* The records that are whole in the file; the ingester has all the readable ones it has
\* read past.
Whole == {r \in handed : \E i \in DOMAIN file : file[i] = Piece("whole", r)}
MesInv ==
    /\ table \cup batch \subseteq Whole
    /\ \A i \in 1 .. pos : Readable(i) => file[i].rec \in batch
    /\ ingest = "idle" => pos = 0 /\ batch = {}

RecordsInv ==
    TypeInv /\ ThreadInv /\ CountInv /\ RecentInv /\ FileInv /\ LossInv /\ KeyInv /\ MesInv

----
(***************************************************************************)
(* Facts about sets, tokens and lines.                                     *)
(***************************************************************************)

\* An element leaves a finite set, or joins it.
LEMMA CardMove ==
    ASSUME NEW S, IsFiniteSet(S), NEW T, NEW x, T \ {x} = S \ {x}
    PROVE  /\ IsFiniteSet(T)
           /\ Cardinality(S) \in Nat /\ Cardinality(T) \in Nat
           /\ Cardinality(T) = Cardinality(S) + (IF x \in T THEN 1 ELSE 0)
                                             - (IF x \in S THEN 1 ELSE 0)
<1> DEFINE R == S \ {x}
<1>1. /\ IsFiniteSet(R)
      /\ Cardinality(R) = IF x \in S THEN Cardinality(S) - 1 ELSE Cardinality(S)
  BY FS_RemoveElement
<1>2. /\ IsFiniteSet(R \cup {x})
      /\ Cardinality(R \cup {x}) = Cardinality(R) + 1
  <2>1. x \notin R
    OBVIOUS
  <2> HIDE DEF R
  <2> QED
    BY <1>1, <2>1, FS_AddElement
<1>3. T = IF x \in T THEN R \cup {x} ELSE R
  OBVIOUS
<1>4. Cardinality(S) \in Nat /\ Cardinality(R) \in Nat
  BY <1>1, FS_CardinalityType
<1> HIDE DEF R
<1>5. CASE x \in T
  <2>1. T = R \cup {x}
    BY <1>3, <1>5
  <2> QED
    BY <1>1, <1>2, <1>4, <1>5, <2>1
<1>6. CASE x \notin T
  <2>1. T = R
    BY <1>3, <1>6
  <2> QED
    BY <1>1, <1>4, <1>6, <2>1
<1> QED
  BY <1>5, <1>6

\* Attempts join a finite set that does not have them.
LEMMA CardJoin ==
    ASSUME NEW S, IsFiniteSet(S), NEW x, NEW n \in Nat \ {0},
           \A k \in 2 .. n : <<x, k>> \notin S
    PROVE  /\ IsFiniteSet(S \cup ({x} \X (2 .. n)))
           /\ Cardinality(S) \in Nat
           /\ Cardinality(S \cup ({x} \X (2 .. n))) = Cardinality(S) + n - 1
<1> DEFINE B == {x} \X (2 .. n)
<1>1. IsFiniteSet(2 .. n) /\ Cardinality(2 .. n) = n - 1
  BY FS_Interval
<1>2. IsFiniteSet({x}) /\ Cardinality({x}) = 1
  BY FS_Singleton
<1>3. IsFiniteSet(B) /\ Cardinality(B) = 1 * (n - 1)
  BY <1>1, <1>2, FS_Product
<1>4. S \cap B = {}
  OBVIOUS
<1>5. Cardinality(S) \in Nat
  BY FS_CardinalityType
<1> HIDE DEF B
<1>6. IsFiniteSet(S \cup B) /\ Cardinality(S \cup B) = Cardinality(S) + Cardinality(B) - 0
  BY <1>3, <1>4, FS_Union, FS_EmptySet
<1> QED
  BY <1>3, <1>5, <1>6 DEF B

\* A set of natural numbers that is not empty has a least one.
LEMMA LeastNat ==
    ASSUME NEW T, T \subseteq Nat, T # {}
    PROVE  \E m \in T : \A n \in T : m <= n
<1>1. PICK m \in T : \A n \in T : <<n, m>> \notin OpToRel(<, Nat)
  BY WFMin, NatLessThanWellFounded, Zenon
<1>2. \A n \in T : ~(n < m)
  BY <1>1, Zenon DEF OpToRel
<1> QED
  BY <1>2

LEMMA TokenFacts ==
    /\ LineEnd \in Tokens
    /\ \A r \in LineRecords, f \in {"whole", "torn", "split"} : Piece(f, r) \in Tokens
    /\ \A r \in LineRecords : Remains(r) \subseteq Seq(Tokens)
    /\ \A t \in Tokens : t.form \in {"whole", "torn", "split", "end"}
<1>1. /\ LineEnd \in Tokens
      /\ \A r \in LineRecords, f \in {"whole", "torn", "split"} : Piece(f, r) \in Tokens
  BY DEF Tokens, LineEnd, Piece
<1>2. \A t \in Tokens : t.form \in {"whole", "torn", "split", "end"}
  BY DEF Tokens
<1> HIDE DEF Tokens
<1>3. \A r \in LineRecords : Remains(r) \subseteq Seq(Tokens)
  BY <1>1 DEF Remains
<1> QED
  BY <1>1, <1>2, <1>3

LEMMA ConfigStays == [Next]_vars => config' = config
BY DEF Next, vars, tallyVars, TallyNext, StationStep, UnitDone, CountResult, CountRetries,
       CountBytes, WriteRecord, WriteFails, WriteEnd, Push, LoopOrBreak, PauseEnds, NextUnit,
       WaitStopped, Begin, others, ExporterStep, CheckShutdown, AcceptNothing, Respond,
       ClientConnects, ClientSends, exporterRest, MainStep, StationsJoined, ShutExporter,
       ExporterJoined, mainRest, CtrlC, Crash, Restart

\* What a configuration may be.
LEMMA ConfigFacts ==
    ASSUME TallyTypeOK
    PROVE  /\ config.stations \subseteq Stations /\ IsFiniteSet(config.stations)
           /\ config.outcomes \subseteq [result : Results, attempts : Nat \ {0}]
           /\ config.trouble \in Nat /\ Keep \in Nat \ {0}
           /\ \A s, t \in config.stations : config.label[s] = config.label[t] => s = t
           /\ config.exporter \in BOOLEAN
<1>1. config.stations \subseteq Stations /\ IsFiniteSet(Stations)
  BY TallyAssumption DEF TallyTypeOK
<1>2. IsFiniteSet(config.stations)
  BY <1>1, FS_Subset
<1> QED
  BY <1>1, <1>2, TallyAssumption DEF TallyTypeOK

LEMMA InitTypeInv == Init => TypeInv
<1> SUFFICES ASSUME Init PROVE TypeInv
  OBVIOUS
<1> USE DEF Init, TallyInit, Mes!IngestInit
<1>1. config.trouble \in Nat
  BY TallyAssumption
<1>2. TallyTypeOK
  <2>1. metrics \in [{"passed", "failed", "retries", "bytes"} -> Nat]
    BY DEF NoMetrics
  <2>2. pc \in [Stations -> {"unit", "result", "retries", "bytes", "sink", "end", "push",
                            "loop", "pause", "wait", "done"}]
    BY DEF Fresh
  <2>3. wake \in [Stations -> Nat]
    BY DEF Fresh
  <2>4. exporter \in {"off", "check", "accept", "read", "respond", "ended"}
    BY DEF ExporterStarts
  <2>5. {sink, stop, shutdown} \subseteq BOOLEAN
    OBVIOUS
  <2>6. \A i \in DOMAIN file : file[i].form \in {"whole", "torn", "split", "end"}
    OBVIOUS
  <2>7. /\ config \in Configs /\ clock \in Nat /\ holder \in Stations \cup {Nobody}
        /\ main \in {"stations", "hold", "join", "returned", "down"}
        /\ trouble \in 0 .. config.trouble
    BY <1>1
  <2> QED
    BY <2>1, <2>2, <2>3, <2>4, <2>5, <2>6, <2>7 DEF TallyTypeOK
<1>3. TypeOK
  BY <1>2 DEF TypeOK
<1>4. rec \in [Stations -> [ts : Nat] \cup LineRecords]
  BY DEF Fresh
<1>5. \A s \in Stations : pc[s] \notin Made
  BY DEF Fresh, Made
<1>6. IsFiniteSet(handed)
  BY FS_EmptySet
<1> QED
  BY <1>3, <1>4, <1>5, <1>6 DEF TypeInv

\* A thread's step changes only its own place, record and pause.
LEMMA StationFrame ==
    ASSUME TypeInv, NEW s \in config.stations, StationStep(s) \/ NextUnit(s)
    PROVE  /\ s \in Stations /\ main = "stations" /\ UNCHANGED others
           /\ pc' \in [Stations -> {"unit", "result", "retries", "bytes", "sink", "end",
                                    "push", "loop", "pause", "wait", "done"}]
           /\ pc' = [pc EXCEPT ![s] = pc'[s]]
           /\ rec' \in [Stations -> [ts : Nat] \cup LineRecords]
           /\ \A t \in Stations : t # s => rec'[t] = rec[t]
           /\ wake' \in [Stations -> Nat] /\ \A t \in Stations : t # s => wake'[t] = wake[t]
           /\ clock' \in Nat /\ clock <= clock'
<1> USE DEF At, Goto
<1>1. /\ s \in Stations /\ TallyTypeOK /\ clock \in Nat
      /\ pc \in [Stations -> {"unit", "result", "retries", "bytes", "sink", "end", "push",
                              "loop", "pause", "wait", "done"}]
      /\ rec \in [Stations -> [ts : Nat] \cup LineRecords]
      /\ wake \in [Stations -> Nat]
  BY ConfigFacts DEF TypeInv, TypeOK, TallyTypeOK
<1>2. CASE UnitDone(s)
  <2>1. PICK o \in config.outcomes : rec' = [rec EXCEPT ![s] = NewRecord(s, @.ts, o)]
    BY <1>2 DEF UnitDone
  <2>2. rec[s].ts \in Nat
    BY <1>1 DEF LineRecords
  <2>3. NewRecord(s, rec[s].ts, o) \in LineRecords
    BY <1>1, <2>2, ConfigFacts DEF NewRecord, LineRecords
  <2> QED
    BY <1>1, <1>2, <2>1, <2>3 DEF UnitDone, others
<1>3. CASE CountResult(s) \/ CountRetries(s) \/ CountBytes(s)
  BY <1>1, <1>3 DEF CountResult, CountRetries, CountBytes, others
<1>4. CASE WriteRecord(s) \/ WriteFails(s) \/ WriteEnd(s) \/ Push(s)
  <2>1. /\ UNCHANGED <<others, rec, wake, clock>>
        /\ \E p \in {"end", "push", "loop"} : Goto(s, p)
        /\ main = "stations"
    BY <1>4 DEF WriteRecord, WriteFails, WriteEnd, Push
  <2> QED
    BY <1>1, <2>1
<1>5. CASE LoopOrBreak(s) \/ PauseEnds(s)
  BY <1>1, <1>5 DEF LoopOrBreak, PauseEnds, others
<1>6. CASE Begin(s) /\ At(s, "wait")
  <2>1. [rec[s] EXCEPT !.ts = clock] \in [ts : Nat] \cup LineRecords
    BY <1>1 DEF LineRecords
  <2>2. rec' = [rec EXCEPT ![s] = [rec[s] EXCEPT !.ts = clock]]
    BY <1>6 DEF Begin
  <2> QED
    BY <1>1, <1>6, <2>1, <2>2 DEF Begin, others
<1> QED
  BY <1>2, <1>3, <1>4, <1>5, <1>6 DEF StationStep, NextUnit, WaitStopped

LEMMA StationType ==
    ASSUME TypeInv, NEW s \in config.stations, StationStep(s) \/ NextUnit(s),
           UNCHANGED mesVars
    PROVE  TypeInv'
<1> USE DEF At, Goto
<1>1. /\ TallyTypeOK /\ config' = config /\ LineRecords' = LineRecords /\ Tokens' = Tokens
      /\ s \in Stations /\ config.trouble \in Nat
  <2>1. config' = config /\ s \in Stations
    BY StationFrame DEF others
  <2>2. LineRecords' = LineRecords /\ Tokens' = Tokens
    BY <2>1 DEF LineRecords, Tokens
  <2>3. TallyTypeOK /\ config.trouble \in Nat
    BY ConfigFacts DEF TypeInv, TypeOK
  <2> QED
    BY <2>1, <2>2, <2>3
<1>2. pc[s] \in Made => rec[s] \in LineRecords
  BY <1>1 DEF TypeInv
<1>3. pc'[s] \in Made => rec'[s] \in LineRecords
  <2>1. CASE UnitDone(s)
    <3>1. PICK o \in config.outcomes : rec' = [rec EXCEPT ![s] = NewRecord(s, @.ts, o)]
      BY <2>1 DEF UnitDone
    <3>2. rec[s].ts \in Nat
      BY <1>1 DEF TypeInv, LineRecords
    <3>3. NewRecord(s, rec[s].ts, o) \in LineRecords
      BY <1>1, <3>2, ConfigFacts DEF NewRecord, LineRecords
    <3> QED
      BY <1>1, <3>1, <3>3 DEF TypeInv
  <2>2. CASE Begin(s)
    BY <1>1, <2>2 DEF TypeInv, TallyTypeOK, Begin, Made
  <2> QED
    BY <1>1, <1>2, <2>1, <2>2
    DEF TallyTypeOK, Made, StationStep, CountResult, CountRetries, CountBytes, WriteRecord,
        WriteFails, WriteEnd, Push, LoopOrBreak, PauseEnds, NextUnit, WaitStopped
<1>4. \A t \in Stations : pc'[t] \in Made => rec'[t] \in LineRecords
  BY <1>1, <1>3, StationFrame DEF TypeInv, TypeOK, TallyTypeOK
<1>5. metrics' \in [{"passed", "failed", "retries", "bytes"} -> Nat]
  <2>1. pc[s] \in Made => rec[s].attempts \in Nat \ {0}
    BY <1>2 DEF LineRecords
  <2>2. metrics \in [{"passed", "failed", "retries", "bytes"} -> Nat]
    BY <1>1 DEF TallyTypeOK
  <2>3. CASE CountResult(s)
    BY <2>2, <2>3 DEF CountResult, Counted
  <2>4. CASE CountRetries(s)
    <3>1. metrics["retries"] + rec[s].attempts - 1 \in Nat
      BY <2>1, <2>2, <2>4 DEF CountRetries, Made
    <3> QED
      BY <2>2, <2>4, <3>1 DEF CountRetries
  <2>5. CASE CountBytes(s)
    BY <2>2, <2>5 DEF CountBytes
  <2> QED
    BY <2>2, <2>3, <2>4, <2>5
    DEF StationStep, UnitDone, WriteRecord, WriteFails, WriteEnd, Push, LoopOrBreak, PauseEnds,
        NextUnit, WaitStopped, Begin
<1>6. holder' \in Stations \cup {Nobody}
  BY <1>1
  DEF TallyTypeOK, StationStep, UnitDone, CountResult, CountRetries, CountBytes, WriteRecord,
      WriteFails, WriteEnd, Push, LoopOrBreak, PauseEnds, NextUnit, WaitStopped, Begin
<1>7. file' \in Seq(Tokens) /\ Len(file') >= Len(file)
  <2> HIDE DEF TallyTypeOK
  <2>1. file \in Seq(Tokens)
    BY DEF TypeInv
  <2>2. CASE WriteRecord(s)
    BY <1>2, <2>1, <2>2, TokenFacts, AppendProperties DEF WriteRecord, Made
  <2>3. CASE WriteEnd(s)
    BY <2>1, <2>3, TokenFacts, AppendProperties DEF WriteEnd
  <2>4. CASE WriteFails(s)
    <3>1. PICK left \in Remains(rec[s]) : file' = file \o left
      BY <2>4 DEF WriteFails
    <3>2. left \in Seq(Tokens)
      BY <1>2, <2>4, TokenFacts DEF WriteFails, Made
    <3> QED
      BY <2>1, <3>1, <3>2, ConcatProperties
  <2>5. CASE UNCHANGED file
    BY <2>1, <2>5
  <2> QED
    BY <2>2, <2>3, <2>4, <2>5
    DEF StationStep, UnitDone, CountResult, CountRetries, CountBytes, Push, LoopOrBreak,
        PauseEnds, NextUnit, WaitStopped, Begin, fileVars
<1>8. trouble' \in 0 .. config.trouble
  BY <1>1
  DEF TallyTypeOK, StationStep, UnitDone, CountResult, CountRetries, CountBytes, WriteRecord,
      WriteFails, WriteEnd, Push, LoopOrBreak, PauseEnds, NextUnit, WaitStopped, Begin, fileVars
<1>9. pushed' \in Seq(LineRecords) /\ recent' \in Seq(LineRecords)
  <2>1. pushed \in Seq(LineRecords) /\ recent \in Seq(LineRecords)
    BY DEF TypeInv
  <2>2. CASE Push(s)
    <3> DEFINE q == Append(recent, rec[s])
    <3>1. rec[s] \in LineRecords
      BY <1>2, <2>2 DEF Push, Made
    <3>2. q \in Seq(LineRecords) /\ pushed' \in Seq(LineRecords)
      BY <2>1, <2>2, <3>1, AppendProperties DEF Push
    <3>3. Len(q) > Keep => SubSeq(q, Len(q) - Keep + 1, Len(q)) \in Seq(LineRecords)
      BY <1>1, <3>2, ConfigFacts, SubSeqProperties
    <3> QED
      BY <2>2, <3>2, <3>3 DEF Push, TailOf
  <2> QED
    BY <2>1, <2>2
    DEF StationStep, UnitDone, CountResult, CountRetries, CountBytes, WriteRecord, WriteFails,
        WriteEnd, LoopOrBreak, PauseEnds, NextUnit, WaitStopped, Begin
<1>10. handed' \subseteq LineRecords /\ IsFiniteSet(handed')
  <2>1. handed' = handed \/ (pc[s] = "sink" /\ handed' = handed \cup {rec[s]})
    BY DEF StationStep, UnitDone, CountResult, CountRetries, CountBytes, WriteRecord, WriteFails,
        WriteEnd, Push, LoopOrBreak, PauseEnds, NextUnit, WaitStopped, Begin, fileVars
  <2>2. IsFiniteSet(handed \cup {rec[s]})
    BY FS_AddElement DEF TypeInv
  <2> QED
    BY <1>2, <2>1, <2>2 DEF TypeInv, Made
<1>11. TallyTypeOK'
  <2>1. \A i \in DOMAIN file' : file'[i].form \in {"whole", "torn", "split", "end"}
    BY <1>7, TokenFacts
  <2> QED
    BY <1>1, <1>5, <1>6, <1>8, <2>1, StationFrame DEF TallyTypeOK, others
<1>12. TypeOK'
  BY <1>7, <1>11 DEF TypeInv, TypeOK, mesVars
<1> QED
  BY <1>1, <1>4, <1>7, <1>9, <1>10, <1>12, StationFrame DEF TypeInv

\* The exporter, run(), and Ctrl-C: the records are left alone.
Rest == ExporterStep \/ ClientConnects \/ ClientSends \/ MainStep \/ CtrlC

LEMMA RestFrame ==
    ASSUME TallyTypeOK, Rest
    PROVE  /\ UNCHANGED <<config, clock, pc, rec, wake, metrics, sink, holder, recent, pushed,
                          fileVars>>
           /\ main' \in {"stations", "hold", "join", "returned", "down"}
           /\ main' \in {"stations", "down"} => main' = main
           /\ main = "down" => main' = "down"
           /\ main = "stations" /\ main' # "stations" =>
                 \A s \in config.stations : pc[s] = "done"
           /\ {stop', shutdown'} \subseteq BOOLEAN
           /\ exporter' \in {"off", "check", "accept", "read", "respond", "ended"}
<1> USE DEF exporterRest, mainRest
<1>1. CASE ExporterStep \/ ClientConnects \/ ClientSends
  <2>1. UNCHANGED exporterRest /\ exporter \in {"check", "accept", "read", "respond"}
        /\ exporter' \in {"ended", "check", "accept", "read", "respond"}
    BY <1>1 DEF ExporterStep, CheckShutdown, AcceptNothing, Respond, ClientConnects, ClientSends
  <2> QED
    BY <2>1 DEF TallyTypeOK
<1>2. CASE MainStep
  BY <1>2 DEF TallyTypeOK, MainStep, StationsJoined, ShutExporter, ExporterJoined
<1>3. CASE CtrlC
  BY <1>3 DEF TallyTypeOK, CtrlC
<1> QED
  BY <1>1, <1>2, <1>3 DEF Rest

\* The process dies.
LEMMA CrashFrame ==
    ASSUME TypeInv, Crash
    PROVE  /\ UNCHANGED <<config, clock, sink>>
           /\ main \in {"stations", "hold", "join"} /\ main' = "down"
           /\ trouble < config.trouble /\ trouble' = trouble + 1
           /\ \A s \in Stations : pc'[s] = "unit" /\ rec'[s] = [ts |-> clock]
           /\ rec' \in [Stations -> [ts : Nat] \cup LineRecords]
           /\ pushed' = <<>> /\ recent' = <<>> /\ metrics' = NoMetrics /\ holder' = Nobody
           /\ \/ UNCHANGED <<file, handed>>
              \/ \E s \in config.stations, left \in Seq(Tokens) :
                    /\ main = "stations" /\ pc[s] = "sink" /\ holder = Nobody
                    /\ rec[s] \in LineRecords
                    /\ left \in Remains(rec[s]) /\ file' = file \o left
                    /\ handed' = handed \cup {rec[s]}
<1>1. TallyTypeOK /\ config.stations \subseteq Stations
  BY ConfigFacts DEF TypeInv, TypeOK
<1>2. \/ UNCHANGED <<file, handed>>
      \/ \E s \in config.stations, left \in Seq(Tokens) :
            /\ main = "stations" /\ pc[s] = "sink" /\ holder = Nobody
            /\ rec[s] \in LineRecords
            /\ left \in Remains(rec[s]) /\ file' = file \o left
            /\ handed' = handed \cup {rec[s]}
  <2>1. CASE UNCHANGED <<file, handed>>
    BY <2>1
  <2>2. CASE ~UNCHANGED <<file, handed>>
    <3>1. PICK s \in config.stations :
              /\ At(s, "sink") /\ holder = Nobody
              /\ \E left \in Remains(rec[s]) : file' = file \o left
              /\ handed' = handed \cup {rec[s]}
      BY <2>2 DEF Crash
    <3>2. PICK left \in Remains(rec[s]) : file' = file \o left
      BY <3>1
    <3>3. rec[s] \in LineRecords
      BY <1>1, <3>1 DEF TypeInv, At, Made
    <3>4. left \in Seq(Tokens)
      BY <3>3, TokenFacts
    <3> QED
      BY <3>1, <3>2, <3>3, <3>4 DEF At
  <2> QED
    BY <2>1, <2>2
<1>3. /\ \A s \in Stations : pc'[s] = "unit" /\ rec'[s] = [ts |-> clock]
      /\ rec' \in [Stations -> [ts : Nat] \cup LineRecords]
  BY <1>1 DEF Crash, Fresh, TallyTypeOK
<1> QED
  BY <1>1, <1>2, <1>3 DEF Crash, TallyTypeOK

LEMMA RestartFrame ==
    ASSUME TallyTypeOK, Restart
    PROVE  /\ UNCHANGED <<config, pc, wake, metrics, holder, recent, pushed, fileVars>>
           /\ main = "down" /\ main' = "stations" /\ clock' = clock + 1
           /\ \A s \in Stations : rec'[s] = [ts |-> clock + 1]
           /\ rec' \in [Stations -> [ts : Nat] \cup LineRecords]
           /\ exporter' \in {"off", "check", "accept", "read", "respond", "ended"}
BY DEF Restart, Fresh, ExporterStarts, TallyTypeOK

\* What depends on the configuration alone stays.
LEMMA SameRecords ==
    ASSUME config' = config PROVE LineRecords' = LineRecords /\ Tokens' = Tokens
BY DEF LineRecords, Tokens

LEMMA ProcessType ==
    ASSUME TypeInv, ThreadInv, Rest \/ Crash \/ Restart, UNCHANGED mesVars
    PROVE  TypeInv'
<1>1. TallyTypeOK /\ config.trouble \in Nat
  BY ConfigFacts DEF TypeInv, TypeOK
<1>2. CASE Rest
  <2>1. TallyTypeOK'
    <3>1. TallyTypeOK
      BY <1>1
    <3>2. sink \in BOOLEAN
      BY <1>1 DEF TallyTypeOK
    <3> QED
      BY <1>2, <3>1, <3>2, RestFrame DEF TallyTypeOK, fileVars
  <2>2. TypeOK'
    BY <1>1, <1>2, <2>1, RestFrame DEF TypeInv, TypeOK, mesVars, fileVars
  <2> QED
    BY <1>1, <1>2, <2>2, RestFrame, SameRecords DEF TypeInv, fileVars
<1>3. CASE Crash
  <2>1. /\ file' \in Seq(Tokens) /\ Len(file') >= Len(file)
        /\ handed' \subseteq LineRecords /\ IsFiniteSet(handed')
    <3>1. file \in Seq(Tokens) /\ handed \subseteq LineRecords /\ IsFiniteSet(handed)
      BY DEF TypeInv
    <3>2. CASE UNCHANGED <<file, handed>>
      BY <3>1, <3>2
    <3>3. CASE \E s \in config.stations, left \in Seq(Tokens) :
                 /\ rec[s] \in LineRecords /\ file' = file \o left
                 /\ handed' = handed \cup {rec[s]}
      <4> PICK s \in config.stations, left \in Seq(Tokens) :
                 /\ rec[s] \in LineRecords /\ file' = file \o left
                 /\ handed' = handed \cup {rec[s]}
        BY <3>3
      <4>1. IsFiniteSet(handed \cup {rec[s]})
        BY <3>1, FS_AddElement
      <4>2. file \o left \in Seq(Tokens) /\ Len(file \o left) = Len(file) + Len(left)
        BY <3>1, ConcatProperties
      <4> QED
        BY <3>1, <4>1, <4>2
    <3> QED
      BY <1>3, <3>2, <3>3, CrashFrame
  <2>2. TallyTypeOK'
    <3>1. metrics' \in [{"passed", "failed", "retries", "bytes"} -> Nat]
      BY <1>3 DEF Crash, NoMetrics
    <3>2. {sink', stop', shutdown'} \subseteq BOOLEAN
      BY <1>1, <1>3 DEF Crash, TallyTypeOK
    <3>3. /\ pc' \in [Stations -> {"unit"}] /\ wake' \in [Stations -> Nat]
          /\ exporter' = "off" /\ main' = "down" /\ holder' = Nobody
          /\ config' = config /\ clock' = clock
      BY <1>3 DEF Crash, Fresh
    <3>4. trouble' \in 0 .. config.trouble
      BY <1>1, <1>3, CrashFrame DEF TallyTypeOK
    <3>5. \A i \in DOMAIN file' : file'[i].form \in {"whole", "torn", "split", "end"}
      BY <2>1, TokenFacts
    <3> QED
      BY <1>1, <3>1, <3>2, <3>3, <3>4, <3>5 DEF TallyTypeOK
  <2>3. TypeOK'
    BY <2>1, <2>2 DEF TypeInv, TypeOK, mesVars
  <2>4. LineRecords' = LineRecords /\ Tokens' = Tokens
    BY <1>3, CrashFrame, SameRecords
  <2>5. pushed' \in Seq(LineRecords) /\ recent' \in Seq(LineRecords)
    BY <1>3, CrashFrame
  <2>6. \A s \in Stations : pc'[s] \notin Made
    BY <1>3, CrashFrame DEF Made
  <2> QED
    BY <1>3, <2>1, <2>3, <2>4, <2>5, <2>6, CrashFrame DEF TypeInv
<1>4. CASE Restart
  <2>1. TallyTypeOK'
    <3>1. {sink', stop', shutdown'} \subseteq BOOLEAN
      BY <1>1, <1>4 DEF Restart, TallyTypeOK
    <3> QED
      BY <1>1, <1>4, <3>1, RestartFrame DEF TallyTypeOK, fileVars
  <2>2. TypeOK'
    BY <1>1, <1>4, <2>1, RestartFrame DEF TypeInv, TypeOK, mesVars, fileVars
  <2>3. \A s \in Stations : pc'[s] \notin Made
    BY <1>1, <1>4, RestartFrame DEF ThreadInv, Made
  <2> QED
    BY <1>1, <1>4, <2>2, <2>3, RestartFrame, SameRecords DEF TypeInv, fileVars
<1> QED
  BY <1>2, <1>3, <1>4

----
(***************************************************************************)
(* The ingester.                                                           *)
(***************************************************************************)

\* The next line ends at a line end or at the last token, and no line end lies before.
LEMMA LineStopFacts ==
    ASSUME TypeInv, pos \in Nat, pos < Len(file)
    PROVE  /\ Mes!LineStop \in pos + 1 .. Len(file)
           /\ Mes!LineStop = Len(file) \/ file[Mes!LineStop].form = "end"
           /\ \A i \in pos + 1 .. Mes!LineStop - 1 : file[i].form # "end"
<1> DEFINE Stop(n) == /\ n = Len(file) \/ file[n].form = "end"
                      /\ \A i \in pos + 1 .. n - 1 : file[i].form # "end"
           T == {n \in pos + 1 .. Len(file) : n = Len(file) \/ file[n].form = "end"}
<1>1. Len(file) \in Nat
  BY DEF TypeInv
<1>2. T \subseteq Nat /\ T # {}
  BY <1>1
<1>3. PICK m \in T : \A n \in T : m <= n
  BY <1>2, LeastNat
<1>4. m \in pos + 1 .. Len(file) /\ Stop(m)
  BY <1>1, <1>3
<1> HIDE DEF T
<1>6. Mes!LineStop = CHOOSE n \in pos + 1 .. Len(file) : Stop(n)
  BY DEF Mes!LineStop
<1>7. Mes!LineStop \in pos + 1 .. Len(file) /\ Stop(Mes!LineStop)
  <2> HIDE DEF Stop
  <2> QED
    BY <1>4, <1>6
<1> QED
  BY <1>7

LEMMA MesType == ASSUME TypeInv, Mes!IngestNext, UNCHANGED tallyVars PROVE TypeInv'
<1>1. pos \in Nat /\ pos <= Len(file) /\ Len(file) \in Nat
  BY DEF TypeInv, TypeOK
<1>2. pos' \in 0 .. Len(file) /\ ingest' \in {"idle", "reading"}
  <2>1. CASE Mes!Begin \/ Mes!Commit \/ Mes!Rollback
    BY <1>1, <2>1 DEF TypeInv, TypeOK, Mes!Begin, Mes!Commit, Mes!Rollback
  <2>2. CASE Mes!ReadLine
    <3>1. pos' \in pos + 1 .. Len(file)
      BY <1>1, <2>2, LineStopFacts DEF Mes!ReadLine
    <3> QED
      BY <1>1, <2>2, <3>1 DEF TypeInv, TypeOK, Mes!ReadLine
  <2> QED
    BY <2>1, <2>2 DEF Mes!IngestNext
<1>3. TallyTypeOK'
  BY DEF TypeInv, TypeOK, TallyTypeOK, tallyVars, runVars, fileVars
<1>4. TypeOK'
  BY <1>2, <1>3 DEF TypeOK, tallyVars, fileVars
<1> QED
  BY <1>4, SameRecords DEF TypeInv, tallyVars, runVars, fileVars

----
(***************************************************************************)
(* Threads and counters.                                                   *)
(***************************************************************************)
LEMMA InitCounts == Init => ThreadInv /\ CountInv /\ RecentInv
<1> SUFFICES ASSUME Init PROVE ThreadInv /\ CountInv /\ RecentInv
  OBVIOUS
<1>1. /\ \A s \in Stations : pc[s] = "unit"
      /\ holder = Nobody /\ main = "stations"
      /\ metrics = NoMetrics /\ recent = <<>> /\ pushed = <<>>
  BY DEF Init, TallyInit, Fresh
<1>2. config.stations \subseteq Stations
  BY TallyAssumption DEF Init, TallyInit
<1>3. ThreadInv
  BY <1>1, TallyAssumption DEF ThreadInv
<1>4. /\ Kept("pass") = {} /\ Kept("fail") = {} /\ Retried = {}
      /\ Under("pass", AfterResult) = {} /\ Under("fail", AfterResult) = {}
      /\ Under("pass", AfterBytes) = {} /\ Underway(AfterRetries) = {}
  BY <1>1, <1>2 DEF Kept, Retried, Under, Underway, AfterResult, AfterRetries, AfterBytes
<1>5. Cardinality({}) = 0 /\ IsFiniteSet({})
  BY FS_EmptySet
<1>6. /\ metrics.passed = 0 /\ metrics.failed = 0 /\ metrics.retries = 0 /\ metrics.bytes = 0
      /\ 0 + 0 = 0
  BY <1>1 DEF NoMetrics
<1>7. CountInv
  BY <1>4, <1>5, <1>6, Zenon DEF CountInv
<1>8. RecentInv
  <2>1. recent = SubSeq(pushed, 1, Len(pushed)) /\ 1 \in 1 .. Len(pushed) + 1
    BY <1>1
  <2> QED
    BY <2>1 DEF RecentInv
<1> QED
  BY <1>3, <1>7, <1>8

LEMMA StationThread ==
    ASSUME TypeInv, ThreadInv, NEW s \in config.stations, StationStep(s) \/ NextUnit(s)
    PROVE  ThreadInv'
<1> USE DEF At, Goto
<1>1. /\ s \in Stations /\ UNCHANGED others /\ main = "stations"
      /\ \A t \in Stations : t # s => pc'[t] = pc[t]
      /\ pc \in [Stations -> {"unit", "result", "retries", "bytes", "sink", "end",
                              "push", "loop", "pause", "wait", "done"}]
  BY StationFrame DEF TypeInv, TypeOK, TallyTypeOK
<1>2. \A t \in Stations : holder' = t <=> pc'[t] = "end"
  <2>1. CASE WriteRecord(s) \/ WriteEnd(s)
    BY <1>1, <2>1, TallyAssumption DEF ThreadInv, WriteRecord, WriteEnd
  <2>2. CASE holder' = holder /\ pc[s] # "end" /\ pc'[s] # "end"
    BY <1>1, <2>2 DEF ThreadInv
  <2>3. \/ WriteRecord(s) \/ WriteEnd(s)
        \/ holder' = holder /\ pc[s] # "end" /\ pc'[s] # "end"
    BY <1>1
    DEF StationStep, UnitDone, CountResult, CountRetries, CountBytes, WriteFails, Push,
        LoopOrBreak, PauseEnds, NextUnit, WaitStopped, Begin
  <2> QED
    BY <2>1, <2>2, <2>3
<1> QED
  BY <1>1, <1>2 DEF ThreadInv, others

LEMMA ProcessThread ==
    ASSUME TypeInv, ThreadInv, Rest \/ Crash \/ Restart
    PROVE  ThreadInv'
<1>1. TallyTypeOK
  BY DEF TypeInv, TypeOK
<1>2. CASE Rest
  <2>1. UNCHANGED <<config, pc, holder>>
    BY <1>1, <1>2, RestFrame
  <2>2. main' \in {"hold", "join", "returned"} => \A s \in config.stations : pc[s] = "done"
    BY <1>1, <1>2, RestFrame DEF ThreadInv, TallyTypeOK
  <2>3. main' = "down" => main = "down"
    BY <1>1, <1>2, RestFrame
  <2> QED
    BY <2>1, <2>2, <2>3 DEF ThreadInv
<1>3. CASE Crash
  BY <1>3, CrashFrame, TallyAssumption DEF ThreadInv
<1>4. CASE Restart
  BY <1>1, <1>4, RestartFrame DEF ThreadInv
<1> QED
  BY <1>2, <1>3, <1>4

\* A station's step moves it into, or out of, the sets that are counted.
LEMMA UnderStep ==
    ASSUME TypeInv, NEW s \in config.stations, StationStep(s) \/ NextUnit(s),
           NEW result, NEW points
    PROVE  /\ Cardinality(Under(result, points)) \in Nat
           /\ Cardinality(Under(result, points)') =
                 Cardinality(Under(result, points))
                     + (IF pc'[s] \in points /\ rec'[s].result = result THEN 1 ELSE 0)
                     - (IF pc[s] \in points /\ rec[s].result = result THEN 1 ELSE 0)
<1> DEFINE S == Under(result, points)
           T == Under(result, points)'
<1>1. /\ config' = config /\ config.stations \subseteq Stations
      /\ IsFiniteSet(config.stations)
      /\ \A t \in Stations : t # s => pc'[t] = pc[t] /\ rec'[t] = rec[t]
  <2>1. TallyTypeOK
    BY DEF TypeInv, TypeOK
  <2> QED
    BY <2>1, StationFrame, ConfigFacts DEF others, TallyTypeOK
<1>2. IsFiniteSet(S)
  BY <1>1, FS_Subset DEF Under
<1>3. T \ {s} = S \ {s}
  BY <1>1 DEF Under
<1>4. /\ s \in S <=> pc[s] \in points /\ rec[s].result = result
      /\ s \in T <=> pc'[s] \in points /\ rec'[s].result = result
  BY <1>1 DEF Under
<1> HIDE DEF S, T
<1>5. /\ Cardinality(S) \in Nat
      /\ Cardinality(T) = Cardinality(S) + (IF s \in T THEN 1 ELSE 0)
                                         - (IF s \in S THEN 1 ELSE 0)
  BY <1>2, <1>3, CardMove
<1> QED
  BY <1>4, <1>5 DEF S, T

LEMMA UnderwayStep ==
    ASSUME TypeInv, NEW s \in config.stations, StationStep(s) \/ NextUnit(s), TypeInv',
           NEW points, points \subseteq Made, IsFiniteSet(Underway(points))
    PROVE  /\ IsFiniteSet(Underway(points)') /\ Cardinality(Underway(points)) \in Nat
           /\ pc[s] \in points => rec[s].attempts \in Nat \ {0}
           /\ pc'[s] \in points => rec'[s].attempts \in Nat \ {0}
           /\ Cardinality(Underway(points)') =
                 Cardinality(Underway(points))
                     + (IF pc'[s] \in points THEN rec'[s].attempts - 1 ELSE 0)
                     - (IF pc[s] \in points THEN rec[s].attempts - 1 ELSE 0)
<1> DEFINE R == UNION {{t} \X (2 .. rec[t].attempts) :
                          t \in {u \in config.stations \ {s} : pc[u] \in points}}
<1>1. /\ config' = config /\ config.stations \subseteq Stations /\ s \in Stations
      /\ \A t \in Stations : t # s => pc'[t] = pc[t] /\ rec'[t] = rec[t]
  <2>1. TallyTypeOK
    BY DEF TypeInv, TypeOK
  <2> QED
    BY <2>1, StationFrame, ConfigFacts DEF others, TallyTypeOK
<1>2. /\ pc[s] \in points => rec[s].attempts \in Nat \ {0}
      /\ pc'[s] \in points => rec'[s].attempts \in Nat \ {0}
  BY <1>1 DEF TypeInv, LineRecords
<1>3. Underway(points) = IF pc[s] \in points THEN R \cup ({s} \X (2 .. rec[s].attempts)) ELSE R
  BY DEF Underway
<1>4. Underway(points)' =
         IF pc'[s] \in points THEN R \cup ({s} \X (2 .. rec'[s].attempts)) ELSE R
  BY <1>1 DEF Underway
<1>5. R \subseteq Underway(points) /\ \A k \in Int : <<s, k>> \notin R
  BY DEF Underway
<1>6. IsFiniteSet(R)
  BY <1>5, FS_Subset
<1> HIDE DEF R
<1>7. Cardinality(R) \in Nat
  BY <1>6, FS_CardinalityType
<1>8. /\ Cardinality(Underway(points)) \in Nat
      /\ Cardinality(Underway(points)) =
            Cardinality(R) + (IF pc[s] \in points THEN rec[s].attempts - 1 ELSE 0)
  <2>1. CASE pc[s] \in points
    <3>1. Cardinality(R \cup ({s} \X (2 .. rec[s].attempts)))
             = Cardinality(R) + rec[s].attempts - 1
      <4>1. \A k \in 2 .. rec[s].attempts : <<s, k>> \notin R
        BY <1>2, <1>5, <2>1
      <4> QED
        BY <1>2, <1>6, <2>1, <4>1, CardJoin
    <3> QED
      BY <1>2, <1>3, <1>7, <2>1, <3>1
  <2>2. CASE pc[s] \notin points
    BY <1>3, <1>7, <2>2
  <2> QED
    BY <2>1, <2>2
<1>9. /\ IsFiniteSet(Underway(points)')
      /\ Cardinality(Underway(points)') =
            Cardinality(R) + (IF pc'[s] \in points THEN rec'[s].attempts - 1 ELSE 0)
  <2>1. CASE pc'[s] \in points
    <3>1. /\ IsFiniteSet(R \cup ({s} \X (2 .. rec'[s].attempts)))
          /\ Cardinality(R \cup ({s} \X (2 .. rec'[s].attempts)))
                = Cardinality(R) + rec'[s].attempts - 1
      <4>1. \A k \in 2 .. rec'[s].attempts : <<s, k>> \notin R
        BY <1>2, <1>5, <2>1
      <4> QED
        BY <1>2, <1>6, <2>1, <4>1, CardJoin
    <3> QED
      BY <1>2, <1>4, <1>7, <2>1, <3>1
  <2>2. CASE pc'[s] \notin points
    BY <1>4, <1>6, <1>7, <2>2
  <2> QED
    BY <2>1, <2>2
<1> QED
  BY <1>2, <1>7, <1>8, <1>9

\* One more record is kept.
LEMMA KeptGrows ==
    ASSUME NEW r \in LineRecords, pushed \in Seq(LineRecords), pushed' = Append(pushed, r),
           NEW result
    PROVE  /\ Cardinality(Kept(result)) \in Nat
           /\ Cardinality(Kept(result)') =
                 Cardinality(Kept(result)) + (IF r.result = result THEN 1 ELSE 0)
<1> DEFINE S == Kept(result)
           T == Kept(result)'
           n == Len(pushed) + 1
<1>1. IsFiniteSet(1 .. Len(pushed)) /\ S \subseteq 1 .. Len(pushed) /\ n \notin S
  <2>1. IsFiniteSet(1 .. Len(pushed))
    BY FS_Interval
  <2>2. S \subseteq 1 .. Len(pushed) /\ n \notin S
    BY DEF Kept
  <2> QED
    BY <2>1, <2>2
<1>2. IsFiniteSet(S)
  BY <1>1, FS_Subset
<1>3. T \ {n} = S \ {n} /\ (n \in T <=> r.result = result)
  BY DEF Kept
<1> HIDE DEF S, T, n
<1>4. /\ Cardinality(S) \in Nat
      /\ Cardinality(T) = Cardinality(S) + (IF n \in T THEN 1 ELSE 0)
                                         - (IF n \in S THEN 1 ELSE 0)
  BY <1>2, <1>3, CardMove
<1> QED
  BY <1>1, <1>3, <1>4 DEF S, T

LEMMA RetriedGrows ==
    ASSUME NEW r \in LineRecords, pushed \in Seq(LineRecords), pushed' = Append(pushed, r),
           IsFiniteSet(Retried)
    PROVE  /\ IsFiniteSet(Retried') /\ Cardinality(Retried) \in Nat
           /\ Cardinality(Retried') = Cardinality(Retried) + r.attempts - 1
<1> DEFINE n == Len(pushed) + 1
<1>1. r.attempts \in Nat \ {0}
  BY DEF LineRecords
<1>2. /\ DOMAIN pushed' = DOMAIN pushed \cup {n} /\ n \notin DOMAIN pushed
      /\ pushed'[n] = r /\ \A i \in DOMAIN pushed : pushed'[i] = pushed[i]
  OBVIOUS
<1>3. \A k \in 2 .. r.attempts : <<n, k>> \notin Retried
  BY <1>2 DEF Retried
<1>4. Retried' = Retried \cup ({n} \X (2 .. r.attempts))
  BY <1>2 DEF Retried
<1> QED
  BY <1>1, <1>3, <1>4, CardJoin

\* Where a thread goes.
LEMMA Moves ==
    ASSUME TypeInv, NEW s \in config.stations
    PROVE  /\ UnitDone(s) => pc[s] = "unit" /\ pc'[s] = "result"
           /\ CountResult(s) => pc[s] = "result" /\ pc'[s] = "retries"
           /\ CountRetries(s) => pc[s] = "retries" /\ pc'[s] = "bytes"
           /\ CountBytes(s) => pc[s] = "bytes" /\ pc'[s] \in {"sink", "push"}
           /\ WriteRecord(s) => pc[s] = "sink" /\ pc'[s] = "end"
           /\ WriteFails(s) => pc[s] = "sink" /\ pc'[s] = "push"
           /\ WriteEnd(s) => pc[s] = "end" /\ pc'[s] = "push"
           /\ Push(s) => pc[s] = "push" /\ pc'[s] = "loop"
           /\ LoopOrBreak(s) => pc[s] = "loop" /\ pc'[s] \in {"pause", "done"}
           /\ PauseEnds(s) => pc[s] = "pause" /\ pc'[s] = "wait"
           /\ NextUnit(s) \/ WaitStopped(s) => pc[s] = "wait" /\ pc'[s] = "unit"
<1>1. s \in Stations /\ pc \in [Stations -> {"unit", "result", "retries", "bytes", "sink",
                                 "end", "push", "loop", "pause", "wait", "done"}]
  BY ConfigFacts DEF TypeInv, TypeOK, TallyTypeOK
<1> QED
  BY <1>1
  DEF At, Goto, UnitDone, CountResult, CountRetries, CountBytes, WriteRecord, WriteFails,
      WriteEnd, Push, LoopOrBreak, PauseEnds, NextUnit, WaitStopped, Begin

LEMMA StationCount ==
    ASSUME TypeInv, TypeInv', CountInv, NEW s \in config.stations,
           StationStep(s) \/ NextUnit(s)
    PROVE  CountInv'
<1> DEFINE kept(r) == Cardinality(Kept(r))
           under(r, P) == Cardinality(Under(r, P))
           retried == Cardinality(Retried)
           underway == Cardinality(Underway(AfterRetries))
<1>1. s \in Stations /\ s \in config.stations'
  <2>1. TallyTypeOK
    BY DEF TypeInv, TypeOK
  <2> QED
    BY <2>1, StationFrame, ConfigFacts DEF others
<1>2. /\ pc[s] \in Made => rec[s] \in LineRecords /\ rec[s].result \in {"pass", "fail"}
      /\ pushed \in Seq(LineRecords)
      /\ metrics \in [{"passed", "failed", "retries", "bytes"} -> Nat]
  BY <1>1 DEF TypeInv, TypeOK, TallyTypeOK, LineRecords, Results
<1>3. \A r, P : /\ under(r, P) \in Nat
                /\ under(r, P)' = under(r, P)
                       + (IF pc'[s] \in P /\ rec'[s].result = r THEN 1 ELSE 0)
                       - (IF pc[s] \in P /\ rec[s].result = r THEN 1 ELSE 0)
  BY UnderStep
<1>4. /\ IsFiniteSet(Underway(AfterRetries)') /\ underway \in Nat
      /\ underway' = underway
             + (IF pc'[s] \in AfterRetries THEN rec'[s].attempts - 1 ELSE 0)
             - (IF pc[s] \in AfterRetries THEN rec[s].attempts - 1 ELSE 0)
      /\ pc[s] \in AfterRetries => rec[s].attempts \in Nat
      /\ pc'[s] \in AfterRetries => rec'[s].attempts \in Nat
  <2>1. AfterRetries \subseteq Made
    BY DEF AfterRetries, Made
  <2>2. IsFiniteSet(Underway(AfterRetries))
    BY DEF CountInv
  <2> QED
    BY <2>1, <2>2, UnderwayStep
<1>5. /\ metrics.passed = kept("pass") + under("pass", AfterResult)
      /\ metrics.failed = kept("fail") + under("fail", AfterResult)
      /\ metrics.bytes = kept("pass") + under("pass", AfterBytes)
      /\ metrics.retries = retried + underway
      /\ IsFiniteSet(Retried)
  BY DEF CountInv
<1>6. retried \in Nat /\ \A r : kept(r) \in Nat
  <2>1. IsFiniteSet(1 .. Len(pushed))
    BY <1>2, FS_Interval
  <2>2. \A r : Kept(r) \subseteq 1 .. Len(pushed)
    BY <1>2 DEF Kept
  <2> QED
    BY <1>5, <2>1, <2>2, FS_Subset, FS_CardinalityType
<1>7. SUFFICES /\ metrics'.passed = kept("pass")' + under("pass", AfterResult)'
               /\ metrics'.failed = kept("fail")' + under("fail", AfterResult)'
               /\ metrics'.bytes = kept("pass")' + under("pass", AfterBytes)'
               /\ metrics'.retries = retried' + underway'
               /\ IsFiniteSet(Retried')
  BY <1>4 DEF CountInv
<1>8. pushed' = pushed => /\ kept("pass")' = kept("pass") /\ kept("fail")' = kept("fail")
                          /\ Retried' = Retried
  BY DEF Kept, Retried
<1>9. \A r, P : pc[s] \notin P /\ pc'[s] \notin P => under(r, P)' = under(r, P)
  BY <1>3
<1>10. \A r, P : pc[s] \in P /\ pc'[s] \in P /\ rec'[s] = rec[s] => under(r, P)' = under(r, P)
  BY <1>3
<1>11. ~Push(s) => pushed' = pushed
  BY DEF StationStep, UnitDone, CountResult, CountRetries, CountBytes, WriteRecord, WriteFails,
      WriteEnd, LoopOrBreak, PauseEnds, NextUnit, WaitStopped, Begin
<1> HIDE DEF kept, under, retried, underway
<1>12. CASE CountResult(s)
  <2>1. /\ pc[s] = "result" /\ pc'[s] = "retries" /\ rec' = rec /\ pushed' = pushed
        /\ metrics' = Counted(metrics, rec[s])
    BY <1>12, <1>11, Moves DEF CountResult
  <2>2. rec[s].result = "pass" \/ rec[s].result = "fail"
    BY <1>2, <2>1 DEF Made
  <2>3. /\ metrics'.passed = metrics.passed + (IF rec[s].result = "pass" THEN 1 ELSE 0)
        /\ metrics'.failed = metrics.failed + (IF rec[s].result = "fail" THEN 1 ELSE 0)
        /\ metrics'.bytes = metrics.bytes /\ metrics'.retries = metrics.retries
    BY <1>2, <2>1, <2>2 DEF Counted
  <2>4. under("pass", AfterResult)'
          = under("pass", AfterResult) + (IF rec[s].result = "pass" THEN 1 ELSE 0)
    BY <1>3, <2>1 DEF AfterResult
  <2>5. under("fail", AfterResult)'
          = under("fail", AfterResult) + (IF rec[s].result = "fail" THEN 1 ELSE 0)
    BY <1>3, <2>1 DEF AfterResult
  <2>6. under("pass", AfterBytes)' = under("pass", AfterBytes)
    BY <1>9, <2>1 DEF AfterBytes
  <2>7. underway' = underway
    BY <1>4, <2>1 DEF AfterRetries
  <2>8. /\ under("pass", AfterResult) \in Nat /\ under("fail", AfterResult) \in Nat
        /\ kept("pass") \in Nat /\ kept("fail") \in Nat
    BY <1>3, <1>6
  <2>9. /\ kept("pass")' = kept("pass") /\ kept("fail")' = kept("fail")
        /\ Retried' = Retried /\ retried' = retried
    BY <1>8, <2>1 DEF retried
  <2> QED
    BY <1>5, <2>2, <2>3, <2>4, <2>5, <2>6, <2>7, <2>8, <2>9
<1>13. CASE CountRetries(s)
  <2>1. /\ pc[s] = "retries" /\ pc'[s] = "bytes" /\ rec' = rec /\ pushed' = pushed
        /\ metrics' = [metrics EXCEPT !.retries = @ + rec[s].attempts - 1]
    BY <1>13, <1>11, Moves DEF CountRetries
  <2>2. /\ metrics'.passed = metrics.passed /\ metrics'.failed = metrics.failed
        /\ metrics'.bytes = metrics.bytes
        /\ metrics'.retries = metrics.retries + rec[s].attempts - 1
    BY <1>2, <2>1
  <2>3. /\ under("pass", AfterResult)' = under("pass", AfterResult)
        /\ under("fail", AfterResult)' = under("fail", AfterResult)
    BY <1>10, <2>1 DEF AfterResult
  <2>4. under("pass", AfterBytes)' = under("pass", AfterBytes)
    BY <1>9, <2>1 DEF AfterBytes
  <2>5. underway' = underway + rec[s].attempts - 1 /\ rec[s].attempts \in Nat
    BY <1>4, <2>1 DEF AfterRetries
  <2>6. /\ kept("pass")' = kept("pass") /\ kept("fail")' = kept("fail")
        /\ Retried' = Retried /\ retried' = retried
    BY <1>8, <2>1 DEF retried
  <2> QED
    BY <1>4, <1>5, <1>6, <2>2, <2>3, <2>4, <2>5, <2>6
<1>14. CASE CountBytes(s)
  <2>1. /\ pc[s] = "bytes" /\ pc'[s] \in {"sink", "push"} /\ rec' = rec /\ pushed' = pushed
        /\ metrics' = [metrics EXCEPT !.bytes = @ + (IF rec[s].result = "pass" THEN 1 ELSE 0)]
    BY <1>14, <1>11, Moves DEF CountBytes
  <2>2. /\ metrics'.passed = metrics.passed /\ metrics'.failed = metrics.failed
        /\ metrics'.bytes = metrics.bytes + (IF rec[s].result = "pass" THEN 1 ELSE 0)
        /\ metrics'.retries = metrics.retries
    BY <1>2, <2>1
  <2>3. /\ under("pass", AfterResult)' = under("pass", AfterResult)
        /\ under("fail", AfterResult)' = under("fail", AfterResult)
    BY <1>10, <2>1 DEF AfterResult
  <2>4. under("pass", AfterBytes)'
          = under("pass", AfterBytes) + (IF rec[s].result = "pass" THEN 1 ELSE 0)
    BY <1>3, <2>1 DEF AfterBytes
  <2>5. underway' = underway
    BY <1>4, <2>1 DEF AfterRetries
  <2>6. /\ kept("pass")' = kept("pass") /\ kept("fail")' = kept("fail")
        /\ Retried' = Retried /\ retried' = retried
    BY <1>8, <2>1 DEF retried
  <2>7. kept("pass") \in Nat /\ under("pass", AfterBytes) \in Nat
    BY <1>3, <1>6
  <2> QED
    BY <1>5, <2>2, <2>3, <2>4, <2>5, <2>6, <2>7
<1>15. CASE Push(s)
  <2>1. /\ pc[s] = "push" /\ pc'[s] = "loop" /\ rec' = rec /\ metrics' = metrics
        /\ pushed' = Append(pushed, rec[s]) /\ rec[s] \in LineRecords
    BY <1>2, <1>15, Moves DEF Push, Made
  <2>2. \A r : kept(r)' = kept(r) + (IF rec[s].result = r THEN 1 ELSE 0)
    BY <1>2, <2>1, KeptGrows DEF kept
  <2>3. /\ IsFiniteSet(Retried') /\ retried' = retried + rec[s].attempts - 1
    BY <1>2, <1>5, <2>1, RetriedGrows DEF retried
  <2>4. \A r : under(r, AfterResult)' = under(r, AfterResult)
                                        - (IF rec[s].result = r THEN 1 ELSE 0)
    BY <1>3, <2>1 DEF AfterResult
  <2>5. \A r : under(r, AfterBytes)' = under(r, AfterBytes)
                                       - (IF rec[s].result = r THEN 1 ELSE 0)
    BY <1>3, <2>1 DEF AfterBytes
  <2>6. underway' = underway - (rec[s].attempts - 1) /\ rec[s].attempts \in Nat
    BY <1>4, <2>1 DEF AfterRetries
  <2>7. \A r, P : under(r, P) \in Nat
    BY <1>3
  <2>8. /\ kept("pass")' + under("pass", AfterResult)'
              = kept("pass") + under("pass", AfterResult)
        /\ kept("fail")' + under("fail", AfterResult)'
              = kept("fail") + under("fail", AfterResult)
        /\ kept("pass")' + under("pass", AfterBytes)'
              = kept("pass") + under("pass", AfterBytes)
    BY <1>6, <2>2, <2>4, <2>5, <2>7
  <2>9. retried' + underway' = retried + underway
    BY <1>4, <1>6, <2>3, <2>6
  <2> QED
    BY <1>5, <2>1, <2>3, <2>8, <2>9
<1>16. CASE WriteRecord(s) \/ WriteFails(s) \/ WriteEnd(s)
  <2>1. /\ pc[s] \in AfterBytes /\ pc'[s] \in AfterBytes /\ rec' = rec /\ metrics' = metrics
        /\ pushed' = pushed
    BY <1>16, Moves DEF WriteRecord, WriteFails, WriteEnd, AfterBytes
  <2>2. AfterBytes \subseteq AfterRetries /\ AfterBytes \subseteq AfterResult
    BY DEF AfterBytes, AfterRetries, AfterResult
  <2>3. underway' = underway
    BY <1>4, <2>1, <2>2
  <2>4. retried' = retried
    BY <1>8, <2>1 DEF retried
  <2>5. \A r : /\ under(r, AfterResult)' = under(r, AfterResult)
               /\ under(r, AfterBytes)' = under(r, AfterBytes)
    BY <1>10, <2>1, <2>2
  <2> QED
    BY <1>5, <1>8, <2>1, <2>3, <2>4, <2>5
<1>17. CASE UnitDone(s) \/ LoopOrBreak(s) \/ PauseEnds(s) \/ NextUnit(s) \/ WaitStopped(s)
  <2>1. /\ pc[s] \notin AfterResult /\ pc'[s] \notin AfterResult /\ metrics' = metrics
        /\ pushed' = pushed
    BY <1>17, Moves
    DEF UnitDone, LoopOrBreak, PauseEnds, NextUnit, WaitStopped, Begin, AfterResult
  <2>2. AfterBytes \subseteq AfterResult /\ AfterRetries \subseteq AfterResult
    BY DEF AfterBytes, AfterRetries, AfterResult
  <2>3. underway' = underway
    BY <1>4, <2>1, <2>2
  <2>4. retried' = retried
    BY <1>8, <2>1 DEF retried
  <2>5. \A r : /\ under(r, AfterResult)' = under(r, AfterResult)
               /\ under(r, AfterBytes)' = under(r, AfterBytes)
    BY <1>9, <2>1, <2>2
  <2> QED
    BY <1>5, <1>8, <2>1, <2>3, <2>4, <2>5
<1> QED
  BY <1>12, <1>13, <1>14, <1>15, <1>16, <1>17 DEF StationStep

\* No thread is past its unit, and nothing is kept: the process is not there.
LEMMA NoThreads ==
    ASSUME config.stations \subseteq Stations, \A s \in Stations : pc[s] = "unit"
    PROVE  /\ Under("pass", AfterResult) = {} /\ Under("fail", AfterResult) = {}
           /\ Under("pass", AfterBytes) = {} /\ Underway(AfterRetries) = {}
BY DEF Under, Underway, AfterResult, AfterRetries, AfterBytes

LEMMA ProcessCount ==
    ASSUME TypeInv, TypeInv', ThreadInv, CountInv, Rest \/ Crash \/ Restart \/ UNCHANGED tallyVars
    PROVE  CountInv'
<1>1. TallyTypeOK /\ config.stations \subseteq Stations
  BY ConfigFacts DEF TypeInv, TypeOK
<1>2. CASE UNCHANGED <<config, pc, rec, pushed, metrics>>
  BY <1>2 DEF CountInv, Kept, Retried, Under, Underway
<1>3. CASE Crash
  <2>1. config'.stations \subseteq Stations /\ \A s \in Stations : pc'[s] = "unit"
    BY <1>1, <1>3, CrashFrame
  <2>2. /\ Under("pass", AfterResult)' = {} /\ Under("fail", AfterResult)' = {}
        /\ Under("pass", AfterBytes)' = {} /\ Underway(AfterRetries)' = {}
    BY <2>1 DEF Under, Underway, AfterResult, AfterRetries, AfterBytes
  <2>3. pushed' = <<>> /\ metrics' = NoMetrics
    BY <1>3, CrashFrame
  <2>4. Kept("pass")' = {} /\ Kept("fail")' = {} /\ Retried' = {}
    BY <2>3 DEF Kept, Retried
  <2>5. /\ metrics'.passed = 0 /\ metrics'.failed = 0 /\ metrics'.retries = 0
        /\ metrics'.bytes = 0 /\ 0 + 0 = 0
    BY <2>3 DEF NoMetrics
  <2>6. Cardinality({}) = 0 /\ IsFiniteSet({})
    BY FS_EmptySet
  <2> QED
    BY <2>2, <2>4, <2>5, <2>6, Zenon DEF CountInv
<1>4. CASE Restart
  <2>1. UNCHANGED <<config, pc, pushed, metrics>> /\ \A s \in Stations : pc[s] = "unit"
    BY <1>1, <1>4, RestartFrame DEF ThreadInv
  <2>2. /\ Under("pass", AfterResult)' = {} /\ Under("fail", AfterResult)' = {}
        /\ Under("pass", AfterBytes)' = {} /\ Underway(AfterRetries)' = {}
    BY <1>1, <2>1 DEF Under, Underway, AfterResult, AfterRetries, AfterBytes
  <2>3. /\ Under("pass", AfterResult) = {} /\ Under("fail", AfterResult) = {}
        /\ Under("pass", AfterBytes) = {} /\ Underway(AfterRetries) = {}
    BY <1>1, <2>1, NoThreads
  <2>4. /\ Kept("pass")' = Kept("pass") /\ Kept("fail")' = Kept("fail")
        /\ Retried' = Retried
    BY <2>1 DEF Kept, Retried
  <2> QED
    BY <2>1, <2>2, <2>3, <2>4, Zenon DEF CountInv
<1> QED
  BY <1>1, <1>2, <1>3, <1>4, RestFrame DEF tallyVars, runVars

LEMMA SubSeqTwice ==
    ASSUME NEW S, NEW s \in Seq(S), NEW i \in 1 .. Len(s), NEW j \in 1 .. Len(s),
           NEW m \in 1 .. j - i + 1, NEW n \in 1 .. j - i + 1
    PROVE  SubSeq(SubSeq(s, i, j), m, n) = SubSeq(s, i + m - 1, i + n - 1)
<1> DEFINE u == SubSeq(s, i, j)
           v == SubSeq(u, m, n)
           w == SubSeq(s, i + m - 1, i + n - 1)
<1>1. /\ u \in Seq(S) /\ Len(u) = j - i + 1
      /\ \A k \in 1 .. j - i + 1 : u[k] = s[i + k - 1]
  <2>1. \A k \in i .. j : s[k] \in S
    OBVIOUS
  <2> QED
    BY <2>1, SubSeqProperties
<1>2. /\ v \in Seq(S) /\ Len(v) = IF m <= n THEN n - m + 1 ELSE 0
      /\ \A k \in 1 .. n - m + 1 : v[k] = u[m + k - 1]
  <2> HIDE DEF u
  <2>1. \A k \in m .. n : u[k] \in S
    BY <1>1
  <2> QED
    BY <1>1, <2>1, SubSeqProperties
<1>3. /\ w \in Seq(S) /\ Len(w) = IF m <= n THEN n - m + 1 ELSE 0
      /\ \A k \in 1 .. n - m + 1 : w[k] = s[i + m - 1 + k - 1]
  <2>1. \A k \in i + m - 1 .. i + n - 1 : s[k] \in S
    OBVIOUS
  <2> QED
    BY <2>1, SubSeqProperties
<1> HIDE DEF u, v, w
<1>4. \A k \in 1 .. n - m + 1 : v[k] = w[k]
  BY <1>1, <1>2, <1>3
<1> QED
  BY <1>2, <1>3, <1>4, SeqEqual DEF u, v, w

\* The tail of what is kept in memory, when a record is pushed.
LEMMA StationRecent ==
    ASSUME TypeInv, RecentInv, NEW s \in config.stations, StationStep(s) \/ NextUnit(s)
    PROVE  RecentInv'
<1>1. CASE UNCHANGED <<config, pushed, recent>>
  BY <1>1 DEF RecentInv
<1>2. CASE Push(s)
  <2> DEFINE r == rec[s]
             n == Len(pushed)
             q == Append(recent, r)
  <2>1. /\ pushed \in Seq(LineRecords) /\ recent \in Seq(LineRecords) /\ r \in LineRecords
        /\ pushed' = Append(pushed, r) /\ recent' = TailOf(q) /\ config' = config
        /\ Keep \in Nat \ {0}
    <3>1. TallyTypeOK
      BY DEF TypeInv, TypeOK
    <3> QED
      BY <1>2, <3>1, Moves, ConfigFacts DEF TypeInv, Push, Made, others
  <2>2. PICK k \in 1 .. n + 1 :
            /\ recent = SubSeq(pushed, k, n)
            /\ k > 1 => config.continuous /\ Len(recent) = Keep
    BY DEF RecentInv
  <2>3. n \in Nat /\ Len(pushed') = n + 1 /\ Len(recent) = n + 1 - k /\ Len(q) = n + 2 - k
    BY <2>1, <2>2
  <2>4. q = SubSeq(pushed', k, n + 1)
    <3>1. Len(SubSeq(pushed', k, n + 1)) = n + 2 - k
      BY <2>1, <2>2, <2>3
    <3>2. ASSUME NEW i \in 1 .. n + 2 - k PROVE q[i] = SubSeq(pushed', k, n + 1)[i]
      <4>1. SubSeq(pushed', k, n + 1)[i] = pushed'[k + i - 1]
        BY <2>2, <2>3
      <4>2. CASE i = n + 2 - k
        BY <2>1, <2>2, <2>3, <4>1, <4>2
      <4>3. CASE i < n + 2 - k
        <5>1. i \in 1 .. Len(recent) /\ k + i - 1 \in 1 .. n
          BY <2>1, <2>2, <2>3, <4>3
        <5>2. q[i] = recent[i] /\ pushed'[k + i - 1] = pushed[k + i - 1]
          BY <2>1, <5>1
        <5>3. recent[i] = pushed[k + i - 1]
          BY <2>2, <2>3, <5>1
        <5> QED
          BY <4>1, <5>2, <5>3
      <4> QED
        BY <2>2, <2>3, <4>2, <4>3
    <3>3. SubSeq(pushed', k, n + 1) \in Seq(LineRecords) /\ q \in Seq(LineRecords)
      <4>1. pushed' \in Seq(LineRecords) /\ q \in Seq(LineRecords)
        BY <2>1
      <4>2. \A i \in k .. n + 1 : pushed'[i] \in LineRecords
        BY <2>2, <2>3, <4>1
      <4> QED
        BY <2>2, <2>3, <4>1, <4>2, SubSeqProperties
    <3> HIDE DEF q
    <3> QED
      BY <2>3, <3>1, <3>2, <3>3, SeqEqual
  <2>5. CASE ~(config.continuous /\ Len(q) > Keep)
    <3>1. recent' = q
      BY <2>1, <2>5 DEF TailOf
    <3>2. k = 1
      BY <2>1, <2>2, <2>3, <2>5
    <3>3. recent' = SubSeq(pushed', 1, Len(pushed')) /\ 1 \in 1 .. Len(pushed') + 1
      BY <2>3, <2>4, <3>1, <3>2
    <3> QED
      BY <3>3 DEF RecentInv
  <2>6. CASE config.continuous /\ Len(q) > Keep
    <3> DEFINE m == n + 2 - Keep
    <3>1. recent' = SubSeq(q, Len(q) - Keep + 1, Len(q))
      BY <2>1, <2>6 DEF TailOf
    <3>2. m \in 1 .. Len(pushed') + 1 /\ m \in k .. n + 1
      BY <2>1, <2>2, <2>3, <2>6
    <3>3. Len(recent') = Keep
      BY <2>1, <2>3, <2>6, <3>1
    <3>4. recent' = SubSeq(pushed', m, n + 1)
      <4>1. pushed' \in Seq(LineRecords)
        BY <2>1
      <4>2. recent' = SubSeq(SubSeq(pushed', k, n + 1), m - k + 1, n + 2 - k)
        <5>1. Len(q) - Keep + 1 = m - k + 1 /\ Len(q) = n + 2 - k
          BY <2>1, <2>2, <2>3
        <5> HIDE DEF m, n, q
        <5> QED
          BY <2>4, <3>1, <5>1
      <4>3. /\ k \in 1 .. Len(pushed') /\ n + 1 \in 1 .. Len(pushed')
            /\ m - k + 1 \in 1 .. (n + 1) - k + 1 /\ n + 2 - k \in 1 .. (n + 1) - k + 1
        BY <2>1, <2>2, <2>3, <3>2
      <4>4. k + (m - k + 1) - 1 = m /\ k + (n + 2 - k) - 1 = n + 1
        BY <2>1, <2>2, <2>3
      <4>5. SubSeq(SubSeq(pushed', k, n + 1), m - k + 1, n + 2 - k)
              = SubSeq(pushed', k + (m - k + 1) - 1, k + (n + 2 - k) - 1)
        <5> DEFINE i == m - k + 1
                   j == n + 2 - k
        <5> HIDE DEF m, n, q, i, j
        <5>1. /\ i \in 1 .. (n + 1) - k + 1 /\ j \in 1 .. (n + 1) - k + 1
          BY <4>3 DEF i, j
        <5>2. SubSeq(SubSeq(pushed', k, n + 1), i, j) = SubSeq(pushed', k + i - 1, k + j - 1)
          BY <2>3, <4>1, <4>3, <5>1, SubSeqTwice
        <5> QED
          BY <5>2 DEF i, j
      <4> HIDE DEF m, n, q
      <4> QED
        BY <4>2, <4>4, <4>5
    <3> HIDE DEF m
    <3> QED
      BY <2>1, <2>3, <2>6, <3>2, <3>3, <3>4 DEF RecentInv
  <2> QED
    BY <2>5, <2>6
<1>3. Push(s) \/ UNCHANGED <<config, pushed, recent>>
  BY DEF StationStep, UnitDone, CountResult, CountRetries, CountBytes, WriteRecord, WriteFails,
      WriteEnd, LoopOrBreak, PauseEnds, NextUnit, WaitStopped, Begin, others
<1> QED
  BY <1>1, <1>2, <1>3

LEMMA ProcessRecent ==
    ASSUME TypeInv, RecentInv, Rest \/ Crash \/ Restart \/ UNCHANGED tallyVars
    PROVE  RecentInv'
<1>1. CASE UNCHANGED <<config, pushed, recent>>
  BY <1>1 DEF RecentInv
<1>2. CASE Crash
  <2>1. recent' = <<>> /\ pushed' = <<>>
    BY <1>2, CrashFrame
  <2>2. recent' = SubSeq(pushed', 1, Len(pushed')) /\ 1 \in 1 .. Len(pushed') + 1
    BY <2>1
  <2> QED
    BY <2>2 DEF RecentInv
<1>3. TallyTypeOK
  BY DEF TypeInv, TypeOK
<1> QED
  BY <1>1, <1>2, <1>3, RestFrame, RestartFrame DEF tallyVars, runVars

----
(***************************************************************************)
(* The file.                                                               *)
(***************************************************************************)

\* What a step may do to the file: nothing, or a piece is appended, or trouble.
Quiet == UNCHANGED <<file, handed, trouble, holder>>
Written(s) ==
    /\ pc[s] = "sink" /\ holder = Nobody /\ holder' = s
    /\ file' = Append(file, Piece("whole", rec[s])) /\ handed' = handed \cup {rec[s]}
    /\ UNCHANGED <<rec, trouble>>
Spoilt(s) ==
    /\ pc[s] = "sink" /\ holder = Nobody /\ holder' = Nobody /\ trouble' = trouble + 1
    /\ \/ UNCHANGED file
       \/ \E f \in {"torn", "split"} : file' = Append(file, Piece(f, rec[s]))
    /\ handed' = handed \cup {rec[s]}
LineEnded ==
    /\ holder # Nobody /\ holder' = Nobody
    /\ file' = Append(file, LineEnd) /\ UNCHANGED <<handed, trouble>>
LeftOpen ==
    /\ holder' = Nobody /\ trouble' = trouble + 1 /\ UNCHANGED <<file, handed>>

LEMMA RemainsAppended ==
    ASSUME file \in Seq(Tokens), NEW r \in LineRecords, NEW left \in Remains(r),
           file' = file \o left
    PROVE  \/ file' = file
           \/ \E f \in {"torn", "split"} : file' = Append(file, Piece(f, r))
<1>1. CASE left = <<>>
  BY <1>1, ConcatEmptySeq
<1>2. ASSUME NEW f \in {"torn", "split"}, left = <<Piece(f, r)>>
      PROVE  file' = Append(file, Piece(f, r))
  <2>1. Piece(f, r) \in Tokens
    BY TokenFacts
  <2> QED
    BY <1>2, <2>1, AppendIsConcat
<1> QED
  BY <1>1, <1>2 DEF Remains

LEMMA FileSteps ==
    ASSUME TypeInv, ThreadInv, [Next]_vars
    PROVE  \/ Quiet /\ \A s \in Stations : holder = s => rec'[s] = rec[s]
           \/ LineEnded \/ LeftOpen
           \/ \E s \in config.stations : Written(s) \/ Spoilt(s)
<1>1. /\ config.stations \subseteq Stations /\ Nobody \notin Stations
      /\ \A s \in Stations : pc[s] \in Made => rec[s] \in LineRecords
      /\ file \in Seq(Tokens)
      /\ \A s \in Stations : holder = s <=> pc[s] = "end"
  BY ConfigFacts, TallyAssumption DEF TypeInv, TypeOK, ThreadInv
<1>2. CASE UNCHANGED tallyVars
  BY <1>2 DEF tallyVars, runVars, fileVars, Quiet
<1>3. CASE Rest
  BY <1>3, RestFrame DEF TypeInv, TypeOK, Quiet, fileVars
<1>4. CASE Restart
  <2>1. Quiet /\ \A s \in Stations : pc[s] = "unit"
    BY <1>4, RestartFrame DEF TypeInv, TypeOK, ThreadInv, Quiet, fileVars
  <2> QED
    BY <1>1, <2>1
<1>5. CASE Crash
  <2>1. holder' = Nobody /\ trouble' = trouble + 1
    BY <1>5, CrashFrame
  <2>2. CASE UNCHANGED <<file, handed>>
    BY <2>1, <2>2 DEF LeftOpen
  <2>3. CASE ~UNCHANGED <<file, handed>>
    <3>1. PICK s \in config.stations, left \in Seq(Tokens) :
              /\ main = "stations" /\ pc[s] = "sink" /\ holder = Nobody
              /\ rec[s] \in LineRecords
              /\ left \in Remains(rec[s]) /\ file' = file \o left
              /\ handed' = handed \cup {rec[s]}
      BY <1>5, <2>3, CrashFrame
    <3>2. \/ file' = file
          \/ \E f \in {"torn", "split"} : file' = Append(file, Piece(f, rec[s]))
      BY <1>1, <3>1, RemainsAppended
    <3> QED
      BY <2>1, <3>1, <3>2 DEF Spoilt
  <2> QED
    BY <2>2, <2>3
<1>6. ASSUME NEW s \in config.stations, StationStep(s) \/ NextUnit(s)
      PROVE  \/ Quiet /\ \A t \in Stations : holder = t => rec'[t] = rec[t]
             \/ LineEnded \/ LeftOpen \/ Written(s) \/ Spoilt(s)
  <2>1. s \in Stations /\ \A t \in Stations : t # s => rec'[t] = rec[t]
    BY <1>6, StationFrame
  <2>2. CASE WriteRecord(s)
    BY <2>2 DEF WriteRecord, At, Written
  <2>3. CASE WriteFails(s)
    <3>1. rec[s] \in LineRecords
      BY <1>1, <2>1, <2>3 DEF WriteFails, At, Made
    <3>2. PICK left \in Remains(rec[s]) : file' = file \o left
      BY <2>3 DEF WriteFails
    <3>3. \/ file' = file
          \/ \E f \in {"torn", "split"} : file' = Append(file, Piece(f, rec[s]))
      BY <1>1, <3>1, <3>2, RemainsAppended
    <3> QED
      BY <2>3, <3>3 DEF WriteFails, At, Spoilt
  <2>4. CASE WriteEnd(s)
    <3>1. holder # Nobody
      BY <1>1, <2>1, <2>4 DEF WriteEnd, At
    <3> QED
      BY <2>4, <3>1 DEF WriteEnd, LineEnded, LeftOpen
  <2>5. CASE ~(WriteRecord(s) \/ WriteFails(s) \/ WriteEnd(s))
    <3>1. Quiet
      BY <1>6, <2>5
      DEF StationStep, UnitDone, CountResult, CountRetries, CountBytes, Push, LoopOrBreak,
          PauseEnds, NextUnit, WaitStopped, Begin, fileVars, Quiet
    <3>2. pc[s] # "end"
      BY <1>6, <2>5, Moves DEF StationStep
    <3> QED
      BY <1>1, <2>1, <3>1, <3>2
  <2> QED
    BY <2>2, <2>3, <2>4, <2>5
<1> QED
  BY <1>2, <1>3, <1>4, <1>5, <1>6 DEF Next, TallyNext, vars, Rest

LEMMA FileKept ==
    ASSUME TypeInv, ThreadInv, ThreadInv', FileInv, [Next]_vars
    PROVE  FileInv'
<1>1. /\ config.stations \subseteq Stations /\ Nobody \notin Stations
      /\ \A s \in Stations : pc[s] \in Made => rec[s] \in LineRecords
      /\ file \in Seq(Tokens)
      /\ \A s \in Stations : holder = s <=> pc[s] = "end"
      /\ \A s \in Stations : holder' = s <=> pc'[s] = "end"
  BY ConfigFacts, TallyAssumption DEF TypeInv, TypeOK, ThreadInv
<1>2. CASE Quiet /\ \A s \in Stations : holder = s => rec'[s] = rec[s]
  BY <1>1, <1>2 DEF FileInv, Quiet
<1>3. CASE LineEnded
  <2>1. LineEnd.form = "end"
    BY DEF LineEnd
  <2> HIDE DEF LineEnd
  <2> QED
    BY <1>1, <1>3, <2>1 DEF FileInv, LineEnded
<1>4. CASE LeftOpen
  BY <1>1, <1>4 DEF FileInv, LeftOpen
<1>5. ASSUME NEW s \in config.stations, Written(s) \/ Spoilt(s) PROVE FileInv'
  <2>1. /\ rec[s] \in LineRecords /\ s \in Stations
        /\ \A f \in {"whole", "torn", "split"} :
              Piece(f, rec[s]) \in Tokens /\ Piece(f, rec[s]).rec = rec[s]
    <3>1. rec[s] \in LineRecords /\ s \in Stations
      BY <1>1, <1>5 DEF Written, Spoilt, Made
    <3> QED
      BY <3>1, TokenFacts DEF Piece
  <2>2. CASE Written(s)
    BY <1>1, <2>1, <2>2 DEF FileInv, Written
  <2>3. CASE Spoilt(s)
    BY <1>1, <2>1, <2>3 DEF FileInv, Spoilt
  <2> QED
    BY <1>5, <2>2, <2>3
<1> QED
  BY <1>2, <1>3, <1>4, <1>5, FileSteps

\* Who can be read once a token is appended.
LEMMA ReadableAppend ==
    ASSUME file \in Seq(Tokens), NEW t \in Tokens, file' = Append(file, t),
           NEW n, n = Len(file)
    PROVE  /\ n \in Nat /\ Len(file') = n + 1 /\ file'[n + 1] = t
           /\ \A i \in 1 .. n : file'[i] = file[i]
           /\ \A i \in 1 .. n : i < n => (Readable(i)' <=> Readable(i))
           /\ n > 0 => (Readable(n)' <=> Readable(n) /\ t.form = "end")
           /\ Readable(n + 1)' <=>
                 t.form = "whole" /\ (file = <<>> \/ file[n].form = "end")
<1>1. /\ n \in Nat /\ Len(file') = n + 1
      /\ file'[n + 1] = t
      /\ \A i \in 1 .. n : file'[i] = file[i]
      /\ file = <<>> <=> n = 0
  BY EmptySeq
<1>2. ASSUME NEW i \in 1 .. n, i < n PROVE Readable(i)' <=> Readable(i)
  <2>1. /\ file'[i] = file[i] /\ file'[i + 1] = file[i + 1]
        /\ i > 1 => file'[i - 1] = file[i - 1]
        /\ i < Len(file') /\ i < Len(file)
    BY <1>1, <1>2
  <2> QED
    BY <2>1 DEF Readable
<1>3. ASSUME n > 0
      PROVE  Readable(n)' <=> Readable(n) /\ t.form = "end"
  <2>1. /\ file'[n] = file[n] /\ file'[n + 1] = t
        /\ n > 1 => file'[n - 1] = file[n - 1]
        /\ n < Len(file') /\ ~(n < Len(file))
    BY <1>1, <1>3
  <2> QED
    BY <2>1 DEF Readable
<1>4. Readable(n + 1)' <=>
         t.form = "whole" /\ (file = <<>> \/ file[n].form = "end")
  <2>1. /\ file'[n + 1] = t /\ ~(n + 1 < Len(file')) /\ (n + 1 > 1 <=> file # <<>>)
        /\ n + 1 - 1 = n /\ (n > 0 => file'[n] = file[n])
    BY <1>1
  <2> QED
    BY <1>1, <2>1 DEF Readable
<1> QED
  BY <1>1, <1>2, <1>3, <1>4

LEMMA CardSlack ==
    ASSUME NEW S, IsFiniteSet(S), NEW T, NEW x, NEW y
    PROVE  /\ Cardinality(S) \in Nat
           /\ T \subseteq S => Cardinality(T) <= Cardinality(S)
           /\ T \subseteq S \cup {x} => Cardinality(T) <= Cardinality(S) + 1
           /\ T \subseteq S \cup {x, y} => Cardinality(T) <= Cardinality(S) + 2
           /\ T \subseteq S \cup {x, y} => Cardinality(T) \in Nat
<1>1. ASSUME NEW R, IsFiniteSet(R), NEW z
      PROVE  /\ IsFiniteSet(R \cup {z}) /\ Cardinality(R \cup {z}) \in Nat
             /\ Cardinality(R) \in Nat /\ Cardinality(R \cup {z}) <= Cardinality(R) + 1
  <2>1. /\ IsFiniteSet(R \cup {z})
        /\ Cardinality(R \cup {z}) = IF z \in R THEN Cardinality(R) ELSE Cardinality(R) + 1
    BY <1>1, FS_AddElement
  <2>2. Cardinality(R) \in Nat
    BY <1>1, FS_CardinalityType
  <2>3. Cardinality(R \cup {z}) \in Nat /\ Cardinality(R \cup {z}) <= Cardinality(R) + 1
    BY <2>1, <2>2
  <2> QED
    BY <2>1, <2>2, <2>3
<1>2. /\ IsFiniteSet(S \cup {x}) /\ Cardinality(S) \in Nat
      /\ Cardinality(S \cup {x}) \in Nat /\ Cardinality(S \cup {x}) <= Cardinality(S) + 1
  BY <1>1
<1>3. /\ IsFiniteSet((S \cup {x}) \cup {y}) /\ Cardinality((S \cup {x}) \cup {y}) \in Nat
      /\ Cardinality((S \cup {x}) \cup {y}) <= Cardinality(S \cup {x}) + 1
  BY <1>1, <1>2
<1>4. S \cup {x, y} = (S \cup {x}) \cup {y}
  OBVIOUS
<1>5. IsFiniteSet(S \cup {x, y}) /\ Cardinality(S \cup {x, y}) \in Nat
      /\ Cardinality(S \cup {x, y}) <= Cardinality(S) + 2
  <2>1. Cardinality((S \cup {x}) \cup {y}) <= Cardinality(S) + 2
    BY <1>2, <1>3
  <2> QED
    BY <1>3, <1>4, <2>1
<1>6. T \subseteq S => Cardinality(T) <= Cardinality(S)
  BY FS_Subset
<1>7. T \subseteq S \cup {x} => Cardinality(T) <= Cardinality(S \cup {x})
                                /\ Cardinality(T) \in Nat
  BY <1>2, FS_Subset, FS_CardinalityType
<1>8. T \subseteq S \cup {x, y} => Cardinality(T) <= Cardinality(S \cup {x, y})
                                   /\ Cardinality(T) \in Nat
  BY <1>5, FS_Subset, FS_CardinalityType
<1> QED
  BY <1>2, <1>5, <1>6, <1>7, <1>8

\* What the end of a line, and a piece of a record, cost.
LEMMA LostByEnd ==
    ASSUME file \in Seq(Tokens), NEW t \in Tokens, file' = Append(file, t), t.form = "end",
           handed' = handed
    PROVE  Lost' \subseteq Lost
<1>1. ASSUME NEW i \in DOMAIN file, Readable(i)
      PROVE  i \in DOMAIN file' /\ Readable(i)' /\ file'[i] = file[i]
  <2>1. PICK n : n = Len(file)
    OBVIOUS
  <2> QED
    BY <1>1, <2>1, ReadableAppend
<1> QED
  BY <1>1 DEF Lost

LEMMA LostByPiece ==
    ASSUME file \in Seq(Tokens), NEW t \in Tokens, file' = Append(file, t),
           NEW r, handed' = handed \cup {r}
    PROVE  /\ Lost' \subseteq Lost \cup {r, file[Len(file)].rec}
           /\ file = <<>> \/ ~Readable(Len(file)) => Lost' \subseteq Lost \cup {r}
           /\ t = Piece("whole", r) /\ (file = <<>> \/ file[Len(file)].form = "end")
                 => Lost' \subseteq Lost
<1>1. ASSUME NEW i \in DOMAIN file, i # Len(file), Readable(i)
      PROVE  i \in DOMAIN file' /\ Readable(i)' /\ file'[i] = file[i]
  <2>1. PICK n : n = Len(file)
    OBVIOUS
  <2> QED
    BY <1>1, <2>1, ReadableAppend
<1>2. Lost' \subseteq Lost \cup {r, file[Len(file)].rec}
  BY <1>1 DEF Lost
<1>3. ASSUME file = <<>> \/ ~Readable(Len(file)), NEW i \in DOMAIN file, Readable(i)
      PROVE  i # Len(file)
  BY <1>3
<1>4. file = <<>> \/ ~Readable(Len(file)) => Lost' \subseteq Lost \cup {r}
  BY <1>1, <1>3 DEF Lost
<1>5. ASSUME t = Piece("whole", r), file = <<>> \/ file[Len(file)].form = "end"
      PROVE  Lost' \subseteq Lost
  <2>1. t.form = "whole" /\ t.rec = r
    BY <1>5 DEF Piece
  <2>2. \E i \in DOMAIN file' : Readable(i)' /\ file'[i].rec = r
    <3>1. PICK n : n = Len(file)
      OBVIOUS
    <3>2. n + 1 \in DOMAIN file' /\ Readable(n + 1)' /\ file'[n + 1].rec = r
      BY <1>5, <2>1, <3>1, ReadableAppend
    <3> QED
      BY <3>2
  <2>3. file = <<>> \/ ~Readable(Len(file))
    BY <1>5 DEF Readable
  <2> QED
    BY <1>4, <2>2, <2>3 DEF Lost
<1> QED
  BY <1>2, <1>4, <1>5

LEMMA LossKept ==
    ASSUME TypeInv, ThreadInv, LossInv, [Next]_vars
    PROVE  LossInv'
<1>1. /\ \A s \in Stations : pc[s] \in Made => rec[s] \in LineRecords
      /\ file \in Seq(Tokens) /\ trouble \in Nat
      /\ config.stations \subseteq Stations /\ Nobody \notin Stations
  <2>1. TallyTypeOK /\ config.trouble \in Nat
    BY ConfigFacts DEF TypeInv, TypeOK
  <2> QED
    BY <2>1, ConfigFacts, TallyAssumption DEF TypeInv, TallyTypeOK
<1>2. IsFiniteSet(Lost)
  BY FS_Subset DEF TypeInv, Lost
<1>3. Debt \in {0, 1, 2} /\ Debt' \in {0, 1, 2}
  BY DEF Debt
<1>4. \A T, x, y :
         /\ Cardinality(Lost) \in Nat
         /\ T \subseteq Lost => Cardinality(T) <= Cardinality(Lost)
         /\ T \subseteq Lost \cup {x} => Cardinality(T) <= Cardinality(Lost) + 1
         /\ T \subseteq Lost \cup {x, y} => Cardinality(T) <= Cardinality(Lost) + 2
         /\ T \subseteq Lost \cup {x, y} => Cardinality(T) \in Nat
  BY <1>2, CardSlack
<1>5. Cardinality(Lost) + Debt <= 2 * trouble /\ Cardinality(Lost) \in Nat
  BY <1>4 DEF LossInv
<1>6. CASE Quiet
  <2>1. Lost' = Lost /\ Debt' = Debt /\ trouble' = trouble
    BY <1>6 DEF Quiet, Lost, Debt, Readable
  <2> QED
    BY <1>5, <2>1 DEF LossInv
<1>7. CASE LineEnded
  <2>1. LineEnd \in Tokens /\ LineEnd.form = "end"
    BY TokenFacts DEF LineEnd
  <2>2. Lost' \subseteq Lost
    BY <1>1, <1>7, <2>1, LostByEnd DEF LineEnded
  <2>3. Debt' = 0 /\ trouble' = trouble
    <3>1. file'[Len(file')] = LineEnd
      BY <1>1, <1>7, <2>1 DEF LineEnded
    <3> QED
      BY <1>7, <2>1, <3>1 DEF LineEnded, Debt
  <2>4. Cardinality(Lost') <= Cardinality(Lost) /\ Cardinality(Lost') \in Nat
    BY <1>4, <2>2
  <2> QED
    BY <1>1, <1>3, <1>4, <1>5, <2>3, <2>4 DEF LossInv
<1>8. CASE LeftOpen
  <2>1. Lost' = Lost /\ trouble' = trouble + 1
    BY <1>8 DEF LeftOpen, Lost, Readable
  <2> QED
    BY <1>1, <1>3, <1>4, <1>5, <2>1 DEF LossInv
<1>9. ASSUME NEW s \in config.stations, Written(s) PROVE LossInv'
  <2> DEFINE t == Piece("whole", rec[s])
  <2>1. /\ t \in Tokens /\ s \in Stations /\ holder = Nobody /\ holder' # Nobody
        /\ trouble' = trouble /\ file' = Append(file, t) /\ handed' = handed \cup {rec[s]}
    BY <1>1, <1>9, TokenFacts DEF Written, Made
  <2>2. Debt' = 0
    BY <2>1 DEF Debt
  <2>3. /\ Lost' \subseteq Lost \cup {rec[s], file[Len(file)].rec}
        /\ file = <<>> \/ ~Readable(Len(file)) => Lost' \subseteq Lost \cup {rec[s]}
        /\ file = <<>> \/ file[Len(file)].form = "end" => Lost' \subseteq Lost
    BY <1>1, <2>1, LostByPiece
  <2>4. Cardinality(Lost') <= Cardinality(Lost) + Debt /\ Cardinality(Lost') \in Nat
    <3>1. Debt = 0 => file = <<>> \/ file[Len(file)].form = "end"
      BY <2>1 DEF Debt
    <3>2. Debt = 1 => file = <<>> \/ ~Readable(Len(file))
      BY <2>1 DEF Debt
    <3>3. Debt = 0 => Cardinality(Lost') <= Cardinality(Lost) /\ Cardinality(Lost') \in Nat
      BY <1>4, <2>3, <3>1
    <3>4. Debt = 1 => Cardinality(Lost') <= Cardinality(Lost) + 1 /\ Cardinality(Lost') \in Nat
      BY <1>4, <2>3, <3>2
    <3>5. Debt = 2 => Cardinality(Lost') <= Cardinality(Lost) + 2 /\ Cardinality(Lost') \in Nat
      BY <1>4, <2>3
    <3> QED
      BY <1>3, <1>4, <3>3, <3>4, <3>5
  <2>5. Cardinality(Lost') + Debt' <= 2 * trouble'
    BY <1>1, <1>3, <1>5, <2>1, <2>2, <2>4
  <2> QED
    BY <2>5 DEF LossInv
<1>10. ASSUME NEW s \in config.stations, Spoilt(s) PROVE LossInv'
  <2>1. /\ rec[s] \in LineRecords /\ s \in Stations /\ holder = Nobody /\ holder' = Nobody
        /\ trouble' = trouble + 1 /\ handed' = handed \cup {rec[s]}
    BY <1>1, <1>10 DEF Spoilt, Made
  <2>2. CASE file' = file
    <3>1. Lost' \subseteq Lost \cup {rec[s]} /\ Debt' = Debt
      BY <2>1, <2>2 DEF Lost, Debt, Readable
    <3>2. Cardinality(Lost') <= Cardinality(Lost) + 1 /\ Cardinality(Lost') \in Nat
      BY <1>4, <3>1
    <3>3. Cardinality(Lost') + Debt' <= 2 * trouble'
      BY <1>1, <1>3, <1>5, <2>1, <3>1, <3>2
    <3> QED
      BY <3>3 DEF LossInv
  <2>3. ASSUME NEW f \in {"torn", "split"}, file' = Append(file, Piece(f, rec[s]))
        PROVE  LossInv'
    <3> DEFINE t == Piece(f, rec[s])
    <3>1. t \in Tokens /\ t.form \in {"torn", "split"}
      BY <2>1, TokenFacts DEF Piece
    <3>2. Debt' <= 1
      <4>1. PICK n : n = Len(file)
        OBVIOUS
      <4>2. ~Readable(n + 1)' /\ Len(file') = n + 1
        BY <1>1, <2>3, <3>1, <4>1, ReadableAppend
      <4>3. ~Readable(Len(file))'
        BY <4>2 DEF Readable
      <4> QED
        BY <4>3 DEF Debt
    <3>3. /\ Lost' \subseteq Lost \cup {rec[s], file[Len(file)].rec}
          /\ file = <<>> \/ ~Readable(Len(file)) => Lost' \subseteq Lost \cup {rec[s]}
      BY <1>1, <2>1, <2>3, <3>1, LostByPiece
    <3>4. Debt # 2 => file = <<>> \/ ~Readable(Len(file)) \/ file[Len(file)].form = "end"
      BY <2>1 DEF Debt
    <3>5. file[Len(file)].form = "end" => ~Readable(Len(file))
      BY DEF Readable
    <3>6. /\ Cardinality(Lost') <= Cardinality(Lost) + 2 /\ Cardinality(Lost') \in Nat
          /\ Debt # 2 => Cardinality(Lost') <= Cardinality(Lost) + 1
      BY <1>4, <3>3, <3>4, <3>5
    <3>7. Cardinality(Lost') + Debt' <= 2 * trouble'
      BY <1>1, <1>3, <1>5, <2>1, <3>2, <3>6
    <3> QED
      BY <3>7 DEF LossInv
  <2> QED
    BY <1>10, <2>2, <2>3 DEF Spoilt
<1> QED
  BY <1>6, <1>7, <1>8, <1>9, <1>10, FileSteps

----
(***************************************************************************)
(* The keys of the records.                                                *)
(***************************************************************************)

\* What is known of the times, and of the floors.
LEMMA KeyTypes ==
    ASSUME TypeInv
    PROVE  /\ clock \in Nat /\ config.stations \subseteq Stations
           /\ \A r \in handed : r.ts \in Nat
           /\ \A s \in Stations : /\ rec[s].ts \in Nat /\ wake[s] \in Nat /\ Floor(s) \in Nat
                                  /\ pc[s] \in Made => rec[s] \in LineRecords
           /\ \A s, t \in config.stations : config.label[s] = config.label[t] => s = t
           /\ handed \subseteq LineRecords
<1>1. /\ clock \in Nat /\ config.stations \subseteq Stations
      /\ \A s, t \in config.stations : config.label[s] = config.label[t] => s = t
      /\ wake \in [Stations -> Nat]
      /\ handed \subseteq LineRecords
      /\ rec \in [Stations -> [ts : Nat] \cup LineRecords]
      /\ \A s \in Stations : pc[s] \in Made => rec[s] \in LineRecords
  BY ConfigFacts DEF TypeInv, TypeOK, TallyTypeOK
<1>2. \A r \in LineRecords : r.ts \in Nat
  BY DEF LineRecords
<1>3. \A s \in Stations : rec[s].ts \in Nat
  BY <1>1, <1>2
<1>4. \A s \in Stations : Floor(s) \in Nat
  BY <1>1, <1>3 DEF Floor
<1> QED
  BY <1>1, <1>2, <1>3, <1>4

\* A record joins those handed over, of the station it is of.
LEMMA KeyJoins ==
    ASSUME TypeInv, KeyInv, NEW s \in config.stations, pc[s] = "sink", main = "stations",
           handed' = handed \cup {rec[s]}
    PROVE  /\ KeyUnique' /\ rec[s].ts <= clock /\ rec[s].station = config.label[s]
           /\ \A r \in handed' : r.ts <= clock
           /\ \A t \in config.stations : t # s =>
                 \A r \in handed' : r.station = config.label[t] => r.ts < Floor(t)
<1>1. rec[s].ts <= clock /\ rec[s].station = config.label[s] /\ Floor(s) = rec[s].ts
  BY KeyTypes DEF KeyInv, NotLater, OwnLabel, Made, Floor
<1>2. \A r \in handed : Mes!Key(r) # Mes!Key(rec[s])
  <2> SUFFICES ASSUME NEW r \in handed, Mes!Key(r) = Mes!Key(rec[s]) PROVE FALSE
    OBVIOUS
  <2>1. r.station = config.label[s] /\ r.ts = rec[s].ts
    BY <1>1 DEF Mes!Key
  <2>2. r.ts < rec[s].ts
    BY <1>1, <2>1 DEF KeyInv, LaterThan
  <2> QED
    BY <2>1, <2>2, KeyTypes
<1>3. KeyUnique'
  <2>1. \A r, q \in handed : Mes!Key(r) = Mes!Key(q) => r = q
    BY DEF KeyInv, KeyUnique
  <2>2. \A r, q \in handed' : Mes!Key(r) = Mes!Key(q) => r = q
    BY <1>2, <2>1, Zenon
  <2> QED
    BY <2>2 DEF KeyUnique
<1>4. \A r \in handed' : r.ts <= clock
  BY <1>1 DEF KeyInv, NotLater
<1>5. ASSUME NEW t \in config.stations, t # s, NEW r \in handed', r.station = config.label[t]
      PROVE  r.ts < Floor(t)
  <2>1. r \in handed
    BY <1>1, <1>5, KeyTypes
  <2> QED
    BY <1>5, <2>1 DEF KeyInv, LaterThan
<1> QED
  BY <1>1, <1>3, <1>4, <1>5

LEMMA StationKey ==
    ASSUME TypeInv, TypeInv', KeyInv, NEW s \in config.stations, StationStep(s) \/ NextUnit(s)
    PROVE  KeyInv'
<1>1. /\ s \in Stations /\ main = "stations" /\ main' = main /\ config' = config
      /\ \A t \in Stations : t # s => pc'[t] = pc[t] /\ rec'[t] = rec[t] /\ wake'[t] = wake[t]
      /\ clock' \in Nat /\ clock <= clock' /\ clock \in Nat
      /\ rec \in [Stations -> [ts : Nat] \cup LineRecords]
      /\ wake \in [Stations -> Nat]
  <2>1. /\ s \in Stations /\ main = "stations" /\ main' = main /\ config' = config
        /\ \A t \in Stations : t # s => rec'[t] = rec[t] /\ wake'[t] = wake[t]
        /\ clock' \in Nat /\ clock <= clock'
        /\ pc' = [pc EXCEPT ![s] = pc'[s]]
    BY StationFrame DEF others
  <2>2. /\ clock \in Nat /\ DOMAIN pc = Stations
        /\ rec \in [Stations -> [ts : Nat] \cup LineRecords]
        /\ wake \in [Stations -> Nat]
    BY DEF TypeInv, TypeOK, TallyTypeOK
  <2>3. \A t \in Stations : t # s => pc'[t] = pc[t]
    BY <2>1, <2>2
  <2> QED
    BY <2>1, <2>2, <2>3
<1>2. \/ handed' = handed
      \/ /\ pc[s] = "sink" /\ pc'[s] \in {"end", "push"} /\ handed' = handed \cup {rec[s]}
         /\ UNCHANGED <<rec, clock>>
  BY Moves
  DEF StationStep, UnitDone, CountResult, CountRetries, CountBytes, WriteRecord,
      WriteFails, WriteEnd, Push, LoopOrBreak, PauseEnds, NextUnit, WaitStopped, Begin, fileVars
<1>3. rec'[s].ts = rec[s].ts \/ (pc[s] = "wait" /\ rec'[s].ts = clock /\ pc'[s] = "unit")
  <2>1. CASE UnitDone(s)
    BY <1>1, <2>1 DEF UnitDone, NewRecord
  <2>2. CASE NextUnit(s) \/ WaitStopped(s)
    <3>1. rec' = [rec EXCEPT ![s] = [rec[s] EXCEPT !.ts = clock]]
      BY <2>2 DEF NextUnit, WaitStopped, Begin
    <3>2. [rec[s] EXCEPT !.ts = clock].ts = clock
      BY <1>1 DEF LineRecords
    <3> QED
      BY <1>1, <2>2, <3>1, <3>2, Moves
  <2>3. CASE ~(UnitDone(s) \/ NextUnit(s) \/ WaitStopped(s))
    BY <2>3
    DEF StationStep, CountResult, CountRetries, CountBytes, WriteRecord,
        WriteFails, WriteEnd, Push, LoopOrBreak, PauseEnds
  <2> QED
    BY <2>1, <2>2, <2>3
<1>4. NotLater'
  <2>1. \A r \in handed' : r.ts <= clock /\ r.ts \in Nat
    BY <1>1, <1>2, KeyTypes DEF KeyInv, NotLater
  <2>2. \A t \in Stations : rec'[t].ts <= clock /\ rec'[t].ts \in Nat
    BY <1>1, <1>3, KeyTypes DEF KeyInv, NotLater
  <2> QED
    BY <1>1, <2>1, <2>2 DEF NotLater
<1>5. KeyUnique'
  BY <1>1, <1>2, KeyJoins DEF KeyInv, KeyUnique
<1>6. ASSUME NEW t \in config.stations, t # s PROVE LaterThan(t)' /\ OwnLabel(t)'
  <2>1. t \in Stations
    BY KeyTypes
  <2>2. OwnLabel(t)'
    BY <1>1, <1>6, <2>1 DEF KeyInv, OwnLabel
  <2>3. \A r \in handed' : r.station = config.label[t] => r.ts < Floor(t)
    BY <1>1, <1>2, <1>6, KeyJoins DEF KeyInv, LaterThan
  <2>4. \A r \in handed' : r.ts \in Nat
    BY <1>1, <1>2, KeyTypes
  <2>5. Floor(t) <= Floor(t)' /\ Floor(t) \in Nat /\ Floor(t)' \in Nat
    <3>1. Floor(t) \in Nat
      BY <2>1, KeyTypes
    <3>2. Floor(t)' = Floor(t) \/ (Floor(t) = clock /\ Floor(t)' = clock')
                              \/ (Floor(t) = clock + 1 /\ Floor(t)' = clock' + 1)
      BY <1>1, <1>6, <2>1 DEF Floor
    <3> QED
      BY <1>1, <3>1, <3>2
  <2>6. ASSUME NEW r \in handed', r.station = config.label[t] PROVE r.ts < Floor(t)'
    BY <2>3, <2>4, <2>5, <2>6
  <2> QED
    BY <1>1, <2>2, <2>6 DEF LaterThan
<1>7. OwnLabel(s)'
  <2>1. CASE UnitDone(s)
    BY <1>1, <2>1 DEF UnitDone, NewRecord, OwnLabel
  <2>2. CASE ~UnitDone(s)
    <3>1. pc'[s] \in Made => pc[s] \in Made /\ rec'[s] = rec[s]
      BY <2>2, Moves
      DEF StationStep, CountResult, CountRetries, CountBytes, WriteRecord,
          WriteFails, WriteEnd, Push, LoopOrBreak, PauseEnds, Made
    <3> QED
      BY <1>1, <3>1 DEF KeyInv, OwnLabel
  <2> QED
    BY <2>1, <2>2
<1>8. LaterThan(s)'
  <2>1. /\ rec[s].ts \in Nat /\ wake[s] \in Nat /\ Floor(s) \in Nat
        /\ \A r \in handed' : r.ts \in Nat
    BY <1>1, <1>2, KeyTypes
  <2>2. \A r \in handed' : r.ts <= clock
    BY <1>2, <1>1, KeyJoins DEF KeyInv, NotLater
  <2>3. CASE Floor(s)' > clock /\ Floor(s)' \in Nat
    <3>1. \A r \in handed' : r.ts < Floor(s)'
      BY <1>1, <2>1, <2>2, <2>3
    <3> QED
      BY <3>1 DEF LaterThan
  <2>4. CASE handed' = handed /\ Floor(s)' \in Nat /\ Floor(s)' >= Floor(s)
    <3>1. \A r \in handed' : r.station = config.label[s] => r.ts < Floor(s)
      BY <2>4 DEF KeyInv, LaterThan
    <3>2. ASSUME NEW r \in handed', r.station = config.label[s] PROVE r.ts < Floor(s)'
      BY <2>1, <2>4, <3>1, <3>2
    <3> QED
      BY <1>1, <3>2 DEF LaterThan
  <2>5. CASE pc'[s] \in {"end", "push", "loop", "done"}
    BY <1>1, <2>3, <2>5 DEF Floor
  <2>6. CASE pc'[s] \in {"result", "retries", "bytes", "sink"}
    <3>1. pc[s] \in {"unit", "result", "retries", "bytes"} /\ handed' = handed
      BY <1>2, <2>6, Moves DEF StationStep
    <3>2. Floor(s)' = Floor(s)
      BY <1>1, <1>3, <2>6, <3>1 DEF Floor
    <3> QED
      BY <2>1, <2>4, <3>1, <3>2
  <2>7. CASE LoopOrBreak(s) /\ pc'[s] = "pause"
    <3>1. wake'[s] = clock + 1
      <4>1. pc'[s] # "done" /\ pc \in [Stations -> {"unit", "result", "retries", "bytes", "sink",
                                 "end", "push", "loop", "pause", "wait", "done"}]
        BY <2>7 DEF TypeInv, TypeOK, TallyTypeOK
      <4>2. wake' = [wake EXCEPT ![s] = clock + 1]
        BY <1>1, <2>7, <4>1 DEF LoopOrBreak, Goto
      <4> QED
        BY <1>1, <4>2
    <3> QED
      BY <1>1, <2>3, <2>7, <3>1 DEF Floor
  <2>8. CASE PauseEnds(s)
    <3>1. /\ clock' = IF clock < wake[s] THEN wake[s] ELSE clock
          /\ handed' = handed /\ pc[s] = "pause" /\ pc'[s] = "wait"
      BY <2>8, Moves DEF PauseEnds, fileVars
    <3>2. Floor(s) = wake[s] /\ Floor(s)' = clock'
      BY <3>1 DEF Floor
    <3> QED
      BY <1>1, <2>1, <2>4, <3>1, <3>2
  <2>9. CASE NextUnit(s) \/ WaitStopped(s)
    <3>1. pc[s] = "wait" /\ pc'[s] = "unit" /\ handed' = handed
      BY <1>2, <2>9, Moves
    <3>2. Floor(s) = clock /\ Floor(s)' = rec'[s].ts
      BY <1>1, <3>1 DEF Floor
    <3>3. rec'[s].ts = clock
      <4>1. rec' = [rec EXCEPT ![s] = [rec[s] EXCEPT !.ts = clock]]
        BY <2>9 DEF NextUnit, WaitStopped, Begin
      <4>2. [rec[s] EXCEPT !.ts = clock].ts = clock
        BY <1>1 DEF LineRecords
      <4> QED
        BY <1>1, <4>1, <4>2
    <3> QED
      BY <1>1, <2>4, <3>1, <3>2, <3>3
  <2> QED
    BY <2>5, <2>6, <2>7, <2>8, <2>9, Moves DEF StationStep
<1> QED
  BY <1>1, <1>4, <1>5, <1>6, <1>7, <1>8 DEF KeyInv

LEMMA ProcessKey ==
    ASSUME TypeInv, TypeInv', ThreadInv, KeyInv,
           Rest \/ Crash \/ Restart \/ UNCHANGED tallyVars
    PROVE  KeyInv'
<1>1. TallyTypeOK /\ config.stations \subseteq Stations /\ clock \in Nat
  BY KeyTypes DEF TypeInv, TypeOK
<1>2. CASE UNCHANGED <<config, clock, pc, rec, wake, handed, main>>
  BY <1>2 DEF KeyInv, KeyUnique, NotLater, LaterThan, OwnLabel, Floor
<1>3. CASE Rest /\ main' # main
  <2>1. UNCHANGED <<config, clock, pc, rec, wake, handed>>
    BY <1>1, <1>3, RestFrame DEF fileVars
  <2>2. main # "down" /\ main' # "stations" /\ \A s \in config.stations : pc[s] = "done"
    BY <1>1, <1>3, RestFrame DEF ThreadInv, TallyTypeOK
  <2>3. \A s \in config.stations : Floor(s)' = Floor(s)
    BY <2>1, <2>2 DEF Floor
  <2> QED
    BY <2>1, <2>3 DEF KeyInv, KeyUnique, NotLater, LaterThan, OwnLabel
<1>4. CASE Crash
  <2>1. /\ UNCHANGED <<config, clock>> /\ main' = "down"
        /\ \A s \in Stations : pc'[s] = "unit" /\ rec'[s].ts = clock
    BY <1>4, CrashFrame
  <2>2. KeyUnique' /\ \A r \in handed' : r.ts <= clock
    BY <1>4, CrashFrame, KeyJoins DEF KeyInv, KeyUnique, NotLater
  <2>3. \A s \in Stations : Floor(s)' = clock + 1
    BY <2>1 DEF Floor
  <2>4. NotLater'
    BY <1>1, <2>1, <2>2 DEF NotLater
  <2>5. \A r \in handed' : r.ts < clock + 1
    <3>1. \A r \in handed' : r.ts \in Nat
      BY DEF TypeInv, LineRecords
    <3> QED
      BY <1>1, <2>2, <3>1
  <2>6. \A s \in config.stations : LaterThan(s)' /\ OwnLabel(s)'
    BY <1>1, <2>1, <2>3, <2>5 DEF LaterThan, OwnLabel, Made
  <2> QED
    BY <2>1, <2>2, <2>4, <2>6 DEF KeyInv
<1>5. CASE Restart
  <2>1. /\ UNCHANGED <<config, pc, handed>> /\ main' = "stations" /\ clock' = clock + 1
        /\ \A s \in Stations : pc[s] = "unit" /\ rec'[s].ts = clock + 1
    BY <1>1, <1>5, RestartFrame DEF ThreadInv, fileVars
  <2>2. \A s \in Stations : Floor(s)' = clock + 1
    BY <2>1 DEF Floor
  <2>3. \A r \in handed : r.ts < clock + 1 /\ r.ts \in Nat
    BY <1>1, KeyTypes DEF KeyInv, NotLater
  <2>4. NotLater'
    BY <1>1, <2>1, <2>3 DEF NotLater
  <2>5. KeyUnique'
    BY <2>1 DEF KeyInv, KeyUnique
  <2>6. \A s \in config.stations : LaterThan(s)' /\ OwnLabel(s)'
    BY <1>1, <2>1, <2>2, <2>3 DEF LaterThan, OwnLabel, Made
  <2> QED
    BY <2>1, <2>4, <2>5, <2>6 DEF KeyInv
<1> QED
  BY <1>1, <1>2, <1>3, <1>4, <1>5, RestFrame DEF tallyVars, runVars, fileVars

----
(***************************************************************************)
(* The MES.                                                                *)
(***************************************************************************)

\* Of the tokens up to the end of a line, only the first can be a readable record, and it
\* is all of the line.
LEMMA ReadableLine ==
    ASSUME TypeInv, pos < Len(file), NEW i \in pos + 1 .. Mes!LineStop, Readable(i)
    PROVE  /\ i = pos + 1 /\ i \in DOMAIN file
           /\ Mes!IsRecord(Mes!NextLine) /\ Mes!NextLine[1] = file[i]
<1>1. pos \in Nat /\ Len(file) \in Nat /\ file \in Seq(Tokens)
  BY DEF TypeInv, TypeOK
<1>2. /\ Mes!LineStop \in pos + 1 .. Len(file)
      /\ Mes!LineStop = Len(file) \/ file[Mes!LineStop].form = "end"
      /\ \A j \in pos + 1 .. Mes!LineStop - 1 : file[j].form # "end"
  BY <1>1, LineStopFacts
<1>3. i = pos + 1 /\ i \in DOMAIN file
  <2>1. i > pos + 1 => i - 1 \in pos + 1 .. Mes!LineStop - 1 /\ i > 1
    BY <1>1, <1>2
  <2>2. i \in DOMAIN file
    BY <1>1, <1>2
  <2>3. i >= pos + 1
    BY <1>1, <1>2
  <2> QED
    BY <1>1, <1>2, <2>1, <2>2, <2>3 DEF Readable
<1>4. CASE Mes!LineStop = i
  <2>1. file[i].form # "end"
    BY DEF Readable
  <2>2. Mes!NextLine = SubSeq(file, i, i)
    BY <1>3, <1>4, <2>1 DEF Mes!NextLine
  <2> QED
    BY <1>1, <1>3, <2>2 DEF Mes!IsRecord, Readable
<1>5. CASE Mes!LineStop # i
  <2>1. i < Mes!LineStop /\ i < Len(file) /\ i + 1 \in pos + 1 .. Len(file)
    BY <1>1, <1>2, <1>5
  <2>2. file[i + 1].form = "end"
    BY <2>1 DEF Readable
  <2>3. Mes!LineStop = i + 1
    BY <1>1, <1>2, <1>3, <2>1, <2>2
  <2>4. Mes!LineStop - 1 = i /\ pos + 1 = i
    BY <1>1, <1>3, <2>3
  <2>5. file[Mes!LineStop].form = "end"
    BY <2>2, <2>3
  <2>6. Mes!NextLine = SubSeq(file, i, i)
    BY <2>4, <2>5 DEF Mes!NextLine
  <2> QED
    BY <1>1, <1>3, <2>6 DEF Mes!IsRecord, Readable
<1> QED
  BY <1>3, <1>4, <1>5

\* A record read from the file is whole in it.
LEMMA ReadIsWhole ==
    ASSUME TypeInv, FileInv, pos < Len(file), Mes!IsRecord(Mes!NextLine)
    PROVE  Mes!NextLine[1].rec \in Whole
<1>1. pos \in Nat /\ Len(file) \in Nat /\ file \in Seq(Tokens)
  BY DEF TypeInv, TypeOK
<1>2. Mes!LineStop \in pos + 1 .. Len(file)
  BY <1>1, LineStopFacts
<1>3. PICK m \in Nat : m <= Len(file) /\ Mes!NextLine = SubSeq(file, pos + 1, m)
  BY <1>1, <1>2 DEF Mes!NextLine
<1>4. Mes!NextLine[1] = file[pos + 1] /\ file[pos + 1].form = "whole"
  BY <1>1, <1>3 DEF Mes!IsRecord
<1>5. pos + 1 \in DOMAIN file /\ file[pos + 1] \in Tokens
  BY <1>1
<1>6. file[pos + 1] = Piece("whole", file[pos + 1].rec)
  BY <1>4, <1>5 DEF Tokens, Piece
<1>7. file[pos + 1].rec \in handed
  BY <1>4, <1>5 DEF FileInv
<1> QED
  BY <1>4, <1>5, <1>6, <1>7 DEF Whole

\* An upsert loses nothing, as a key is of one record.
LEMMA UpsertAdds ==
    ASSUME KeyInv, NEW rows, rows \subseteq Whole, NEW r \in Whole
    PROVE  Mes!Upsert(rows, r) = rows \cup {r}
BY DEF KeyInv, KeyUnique, Whole, Mes!Upsert

LEMMA CommitAdds ==
    ASSUME KeyInv, MesInv
    PROVE  {x \in table : \A r \in batch : Mes!Key(x) # Mes!Key(r)} \cup batch
              = table \cup batch
BY DEF KeyInv, KeyUnique, MesInv, Whole

LEMMA MesKept ==
    ASSUME TypeInv, FileInv, KeyInv, MesInv, Mes!IngestNext, UNCHANGED tallyVars
    PROVE  MesInv'
<1>1. /\ UNCHANGED <<file, handed>> /\ Whole' = Whole
      /\ \A i \in Int : Readable(i)' <=> Readable(i)
  BY DEF tallyVars, fileVars, Whole, Readable
<1>2. CASE Mes!Begin
  BY <1>1, <1>2 DEF Mes!Begin, MesInv
<1>3. CASE Mes!ReadLine
  <2>1. pos < Len(file) /\ pos \in Nat /\ pos' = Mes!LineStop /\ UNCHANGED <<ingest, table>>
    BY <1>3 DEF Mes!ReadLine, TypeInv, TypeOK
  <2>2. batch' = IF Mes!IsRecord(Mes!NextLine) THEN batch \cup {Mes!NextLine[1].rec} ELSE batch
    BY <1>3, <2>1, ReadIsWhole, UpsertAdds DEF Mes!ReadLine, MesInv
  <2>3. table' \cup batch' \subseteq Whole'
    BY <1>1, <2>1, <2>2, ReadIsWhole DEF MesInv
  <2>4. ASSUME NEW i \in 1 .. pos', Readable(i) PROVE file[i].rec \in batch'
    <3>1. CASE i \in 1 .. pos
      BY <2>2, <2>4, <3>1 DEF MesInv
    <3>2. CASE i \in pos + 1 .. Mes!LineStop
      BY <2>1, <2>2, <2>4, <3>2, ReadableLine
    <3> QED
      <4>1. Mes!LineStop \in Nat
        BY <2>1, LineStopFacts DEF TypeInv
      <4> QED
        BY <2>1, <3>1, <3>2, <4>1
  <2>5. ingest' = "reading"
    BY <1>3 DEF Mes!ReadLine
  <2> QED
    BY <1>1, <2>3, <2>4, <2>5 DEF MesInv
<1>4. CASE Mes!Commit
  <2>1. table' = table \cup batch /\ ingest' = "idle" /\ pos' = 0 /\ batch' = {}
    BY <1>4, CommitAdds DEF Mes!Commit
  <2> QED
    BY <1>1, <2>1 DEF MesInv
<1>5. CASE Mes!Rollback
  BY <1>1, <1>5 DEF Mes!Rollback, MesInv
<1> QED
  BY <1>2, <1>3, <1>4, <1>5 DEF Mes!IngestNext

\* Whatever is appended, the rows stay whole in the file, and no record becomes readable
\* that has been read past.
LEMMA FileMes ==
    ASSUME TypeInv, ThreadInv, MesInv, [Next]_vars, UNCHANGED mesVars
    PROVE  MesInv'
<1>1. /\ file \in Seq(Tokens) /\ pos \in 0 .. Len(file)
      /\ config.stations \subseteq Stations
      /\ \A s \in Stations : pc[s] \in Made => rec[s] \in LineRecords
  BY KeyTypes DEF TypeInv, TypeOK
<1>2. CASE UNCHANGED file /\ handed \subseteq handed'
  <2>1. Whole \subseteq Whole' /\ \A i \in Int : Readable(i)' <=> Readable(i)
    BY <1>2 DEF Whole, Readable
  <2> QED
    BY <1>2, <2>1 DEF MesInv, mesVars
<1>3. ASSUME NEW t \in Tokens, file' = Append(file, t), handed \subseteq handed' PROVE MesInv'
  <2>1. PICK n : n = Len(file)
    OBVIOUS
  <2>2. \A i \in 1 .. n : (Readable(i)' => Readable(i)) /\ file'[i] = file[i]
    <3>1. n \in Nat
      BY <1>1, <2>1
    <3> QED
      BY <1>1, <1>3, <2>1, <3>1, ReadableAppend
  <2>3. Whole \subseteq Whole'
    BY <1>1, <1>3, <2>1, <2>2 DEF Whole
  <2>4. \A i \in 1 .. pos : i \in 1 .. n
    BY <1>1, <2>1
  <2> QED
    BY <2>2, <2>3, <2>4 DEF MesInv, mesVars
<1>4. \/ UNCHANGED file /\ handed \subseteq handed'
      \/ \E t \in Tokens : file' = Append(file, t) /\ handed \subseteq handed'
  <2>1. CASE Quiet \/ LeftOpen
    BY <2>1 DEF Quiet, LeftOpen
  <2>2. CASE LineEnded
    BY <2>2, TokenFacts DEF LineEnded
  <2>3. ASSUME NEW s \in config.stations, Written(s) \/ Spoilt(s)
        PROVE  \/ UNCHANGED file /\ handed \subseteq handed'
               \/ \E t \in Tokens : file' = Append(file, t) /\ handed \subseteq handed'
    <3>1. rec[s] \in LineRecords
      BY <1>1, <2>3 DEF Written, Spoilt, Made
    <3>2. \A f \in {"whole", "torn", "split"} : Piece(f, rec[s]) \in Tokens
      BY <3>1, TokenFacts
    <3> QED
      BY <2>3, <3>2 DEF Written, Spoilt
  <2> QED
    BY <2>1, <2>2, <2>3, FileSteps
<1> QED
  BY <1>2, <1>3, <1>4

----
(***************************************************************************)
(* The invariant, and what follows.                                        *)
(***************************************************************************)
LEMMA InitFileMes == Init => FileInv /\ LossInv /\ KeyInv /\ MesInv
<1> SUFFICES ASSUME Init PROVE FileInv /\ LossInv /\ KeyInv /\ MesInv
  OBVIOUS
<1>1. /\ \A s \in Stations : pc[s] = "unit" /\ rec[s] = [ts |-> 0]
      /\ clock = 0 /\ file = <<>> /\ handed = {} /\ trouble = 0
      /\ config.stations \subseteq Stations
      /\ ingest = "idle" /\ pos = 0 /\ batch = {} /\ table = {}
  BY TallyAssumption DEF Init, TallyInit, Fresh, Mes!IngestInit
<1>2. FileInv
  BY <1>1 DEF FileInv
<1>3. LossInv
  <2>1. Lost = {} /\ Debt = 0
    BY <1>1 DEF Lost, Debt
  <2>2. Cardinality(Lost) = 0
    BY <2>1, FS_EmptySet
  <2> QED
    BY <1>1, <2>1, <2>2 DEF LossInv
<1>4. KeyInv
  BY <1>1 DEF KeyInv, KeyUnique, NotLater, LaterThan, OwnLabel, Made
<1>5. MesInv
  BY <1>1 DEF MesInv
<1> QED
  BY <1>2, <1>3, <1>4, <1>5

LEMMA RecordsStep == RecordsInv /\ [Next]_vars => RecordsInv'
<1> SUFFICES ASSUME RecordsInv, [Next]_vars PROVE RecordsInv'
  OBVIOUS
<1> USE DEF RecordsInv
<1>1. CASE TallyNext /\ UNCHANGED mesVars
  <2>1. CASE \E s \in config.stations : StationStep(s) \/ NextUnit(s)
    <3>1. PICK s \in config.stations : StationStep(s) \/ NextUnit(s)
      BY <2>1
    <3>2. TypeInv' /\ ThreadInv'
      BY <1>1, <3>1, StationType, StationThread
    <3>3. CountInv' /\ RecentInv' /\ KeyInv'
      BY <3>1, <3>2, StationCount, StationRecent, StationKey
    <3> QED
      BY <1>1, <3>2, <3>3, FileKept, LossKept, FileMes
  <2>2. CASE Rest \/ Crash \/ Restart
    <3>1. TypeInv' /\ ThreadInv'
      BY <1>1, <2>2, ProcessType, ProcessThread
    <3>2. CountInv' /\ RecentInv' /\ KeyInv'
      BY <2>2, <3>1, ProcessCount, ProcessRecent, ProcessKey
    <3> QED
      BY <1>1, <3>1, <3>2, FileKept, LossKept, FileMes
  <2> QED
    BY <1>1, <2>1, <2>2 DEF TallyNext, Rest
<1>2. CASE Mes!IngestNext /\ UNCHANGED tallyVars
  <2>1. TypeInv'
    BY <1>2, MesType
  <2>2. ThreadInv'
    BY <1>2 DEF ThreadInv, tallyVars, runVars
  <2>3. CountInv' /\ RecentInv' /\ KeyInv'
    BY <1>2, <2>1, ProcessCount, ProcessRecent, ProcessKey
  <2> QED
    BY <1>2, <2>1, <2>2, <2>3, FileKept, LossKept, MesKept
<1>3. CASE UNCHANGED vars
  <2>1. TypeInv' /\ ThreadInv'
    BY <1>3, SameRecords
    DEF TypeInv, TypeOK, TallyTypeOK, ThreadInv, vars, tallyVars, runVars, fileVars, mesVars
  <2>2. CountInv' /\ RecentInv' /\ KeyInv'
    BY <1>3, <2>1, ProcessCount, ProcessRecent, ProcessKey DEF vars
  <2> QED
    BY <1>3, <2>1, <2>2, FileKept, LossKept, FileMes DEF vars
<1> QED
  BY <1>1, <1>2, <1>3 DEF Next

LEMMA RecordsInvariant == Spec => []RecordsInv
<1>1. Init => RecordsInv
  BY InitTypeInv, InitCounts, InitFileMes DEF RecordsInv
<1> QED
  BY <1>1, RecordsStep, PTL DEF Spec

\* The variables of the line, its file and its ingester have their types: among others,
\* the trouble stays within its bound and the reader within the file.
THEOREM TypeCorrect == Spec => []TypeOK
<1>1. RecordsInv => TypeOK
  BY DEF RecordsInv, TypeInv
<1> QED
  BY <1>1, RecordsInvariant, PTL

\* What run() returns agrees with itself: when it returns, no thread is between two of its
\* counters, so the totals count the kept records, and those in memory are the last of them.
THEOREM SummaryIsRight == Spec => []SummaryAddsUp
<1>1. RecordsInv => SummaryAddsUp
  <2> SUFFICES ASSUME RecordsInv, main = "returned" PROVE SummaryAddsUp
    BY DEF SummaryAddsUp
  <2>1. /\ \A s \in config.stations : pc[s] = "done"
        /\ metrics \in [{"passed", "failed", "retries", "bytes"} -> Nat]
    BY DEF RecordsInv, ThreadInv, TypeInv, TypeOK, TallyTypeOK
  <2>2. /\ Under("pass", AfterResult) = {} /\ Under("fail", AfterResult) = {}
        /\ Under("pass", AfterBytes) = {} /\ Underway(AfterRetries) = {}
    BY <2>1 DEF Under, Underway, AfterResult, AfterRetries, AfterBytes
  <2>3. Cardinality({}) = 0
    BY FS_EmptySet
  <2>4. /\ Cardinality(Kept("pass")) \in Nat /\ Cardinality(Kept("fail")) \in Nat
        /\ Cardinality(Retried) \in Nat
    <3>1. IsFiniteSet(1 .. Len(pushed)) /\ IsFiniteSet(Retried)
      BY FS_Interval DEF RecordsInv, TypeInv, CountInv
    <3>2. Kept("pass") \subseteq 1 .. Len(pushed) /\ Kept("fail") \subseteq 1 .. Len(pushed)
      BY DEF RecordsInv, TypeInv, Kept
    <3> QED
      BY <3>1, <3>2, FS_Subset, FS_CardinalityType
  <2>5. /\ metrics.passed = Cardinality(Kept("pass"))
        /\ metrics.failed = Cardinality(Kept("fail"))
        /\ metrics.retries = Cardinality(Retried)
        /\ metrics.bytes = metrics.passed
    BY <2>2, <2>3, <2>4 DEF RecordsInv, CountInv
  <2>6. RecentInv
    BY DEF RecordsInv
  <2> QED
    BY <2>5, <2>6 DEF SummaryAddsUp, RecentInv
<1> QED
  BY <1>1, RecordsInvariant, PTL

\* Each death of the process and each failed write costs two records of the file at most,
\* however they are interleaved with the other stations' writes.
THEOREM LossStaysBounded == Spec => []LossIsBounded
<1>1. RecordsInv => LossIsBounded
  <2> SUFFICES ASSUME RecordsInv PROVE LossIsBounded
    OBVIOUS
  <2>1. IsFiniteSet(Lost)
    BY FS_Subset DEF RecordsInv, TypeInv, Lost
  <2>2. Cardinality(Lost) \in Nat /\ Debt \in {0, 1, 2} /\ trouble \in Nat
    <3>1. Debt \in {0, 1, 2}
      BY DEF Debt
    <3>2. TallyTypeOK /\ config.trouble \in Nat
      BY ConfigFacts DEF RecordsInv, TypeInv, TypeOK
    <3> QED
      BY <2>1, <3>1, <3>2, FS_CardinalityType DEF TallyTypeOK
  <2>3. Cardinality(Lost) + Debt <= 2 * trouble
    BY DEF RecordsInv, LossInv
  <2> QED
    BY <2>2, <2>3 DEF LossIsBounded
<1> QED
  BY <1>1, RecordsInvariant, PTL

\* No row of the MES is ever overwritten or lost, and a commit brings it every record that
\* is complete: the keys are unique, because a station's next unit begins after its last
\* record and a restarted line after all of them.
THEOREM MesStaysFaithful == Spec => MesIsFaithful
<1>1. RecordsInv /\ [Next]_vars =>
         [/\ table \subseteq table'
          /\ ingest = "reading" /\ table' # table =>
                /\ \A i \in DOMAIN file : Ended(i) => file[i].rec \in table'
                /\ \A r \in table' : \E i \in DOMAIN file : file[i] = Piece("whole", r)]_vars
  <2> SUFFICES ASSUME RecordsInv, Next
               PROVE  /\ table \subseteq table'
                      /\ table' # table =>
                            /\ \A i \in DOMAIN file : Ended(i) => file[i].rec \in table'
                            /\ \A r \in table' : \E i \in DOMAIN file :
                                  file[i] = Piece("whole", r)
    OBVIOUS
  <2>1. CASE Mes!Commit
    <3>1. table' = table \cup batch /\ pos = Len(file)
      BY <2>1, CommitAdds DEF Mes!Commit, RecordsInv
    <3>2. \A i \in DOMAIN file : Ended(i) => file[i].rec \in batch
      BY <3>1 DEF RecordsInv, TypeInv, MesInv, Ended
    <3>3. \A r \in table \cup batch : \E i \in DOMAIN file : file[i] = Piece("whole", r)
      BY DEF RecordsInv, MesInv, Whole
    <3> QED
      BY <3>1, <3>2, <3>3
  <2>2. CASE table' = table
    BY <2>2
  <2> QED
    BY <2>1, <2>2 DEF Next, mesVars, Mes!IngestNext, Mes!Begin, Mes!ReadLine, Mes!Rollback
<1> QED
  BY <1>1, RecordsInvariant, PTL DEF Spec, MesIsFaithful
====

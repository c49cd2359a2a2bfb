---- MODULE Ingest ----
(***************************************************************************)
(* The MES ingester (tools/mes_ingest.py): it reads a records file from    *)
(* its beginning, makes an upsert of every line that is a record, and      *)
(* commits at the end of the file.  It may run while the line writes, may  *)
(* die, and may be run over the same file again.                           *)
(***************************************************************************)
EXTENDS Naturals, Sequences

VARIABLES
    file,   \* the records file
    ingest, \* "idle", or "reading"
    pos,    \* how many tokens of the file have been read
    batch,  \* the rows of the open transaction
    table   \* the rows of flash_event

\* A line that is one whole JSON object and nothing else.
IsRecord(line) == Len(line) = 1 /\ line[1].form = "whole"

\* A character cut in two is no text: reading fails there, outside the try.
IsText(line) == \A i \in DOMAIN line : line[i].form # "split"

\* The place of the next line end, or of the last token there is.
LineStop ==
    CHOOSE n \in pos + 1 .. Len(file) :
        /\ n = Len(file) \/ file[n].form = "end"
        /\ \A i \in pos + 1 .. n - 1 : file[i].form # "end"

NextLine ==
    SubSeq(file, pos + 1, IF file[LineStop].form = "end" THEN LineStop - 1 ELSE LineStop)

Key(r) == <<r.station, r.ts>>

\* INSERT ... ON CONFLICT (station, ts_ms) DO UPDATE, for one row.
Upsert(rows, r) == {x \in rows : Key(x) # Key(r)} \cup {r}

Begin ==
    /\ ingest = "idle"
    /\ ingest' = "reading"
    /\ UNCHANGED <<pos, batch, table>>

\* A line that is no record is skipped; the last one may have no line end yet.
ReadLine ==
    /\ ingest = "reading" /\ pos < Len(file)
    /\ IsText(NextLine)
    /\ batch' = IF IsRecord(NextLine) THEN Upsert(batch, NextLine[1].rec) ELSE batch
    /\ pos' = LineStop
    /\ UNCHANGED <<ingest, table>>

\* The end of the file: COMMIT, and psql does it.
Commit ==
    /\ ingest = "reading" /\ pos = Len(file)
    /\ table' = {x \in table : \A r \in batch : Key(x) # Key(r)} \cup batch
    /\ ingest' = "idle" /\ pos' = 0 /\ batch' = {}

\* The ingester or psql ends before that, and the transaction is rolled back: at a
\* line that is no text, or anywhere.
Rollback ==
    /\ ingest = "reading"
    /\ ingest' = "idle" /\ pos' = 0 /\ batch' = {}
    /\ UNCHANGED table

IngestInit == ingest = "idle" /\ pos = 0 /\ batch = {} /\ table = {}

IngestNext == Begin \/ ReadLine \/ Commit \/ Rollback
====

---- MODULE Records ----
(***************************************************************************)
(* A line that writes its records (Tally) and the MES ingester that reads  *)
(* them (Ingest): they meet in the records file.                           *)
(***************************************************************************)
EXTENDS Tally

VARIABLES
    ingest, \* the ingester: see Ingest
    pos,
    batch,
    table

Mes == INSTANCE Ingest

mesVars == <<ingest, pos, batch, table>>
vars == <<tallyVars, mesVars>>

Init == TallyInit /\ Mes!IngestInit

Next ==
    \/ TallyNext /\ UNCHANGED mesVars
    \/ config.ingest /\ Mes!IngestNext /\ UNCHANGED tallyVars

\* The threads run; time passes; who brings units, connects, sends, presses Ctrl-C or
\* runs the ingester may stay away, and nothing has to fail.
Spec ==
    /\ Init /\ [][Next]_vars
    /\ \A s \in Stations : WF_vars(StationStep(s) /\ UNCHANGED mesVars)
    /\ WF_vars(ExporterStep /\ UNCHANGED mesVars)
    /\ WF_vars(MainStep /\ UNCHANGED mesVars)

----
(***************************************************************************)
(* Properties.                                                             *)
(***************************************************************************)
TypeOK ==
    /\ TallyTypeOK
    /\ ingest \in {"idle", "reading"}
    /\ pos \in 0 .. Len(file)

\* A record that a reader of the file finds, and one it will find in any later file.
Readable(i) ==
    /\ file[i].form = "whole"
    /\ i > 1 => file[i - 1].form = "end"
    /\ i < Len(file) => file[i + 1].form = "end"
Ended(i) == Readable(i) /\ i < Len(file)

Lost == {r \in handed : ~\E i \in DOMAIN file : Readable(i) /\ file[i].rec = r}

\* Of the records given to the sink, each death of the process and each failed write
\* costs two at most: the one being written, and the one glued to what is left of it.
LossIsBounded == Cardinality(Lost) <= 2 * trouble

\* A row of the MES stays as it is, whatever is replayed and however often: it is
\* neither overwritten by another record nor lost.  A commit brings the table every
\* record whose line is complete by then, and no row that was not written whole.
MesIsFaithful ==
    [][/\ table \subseteq table'
       /\ ingest = "reading" /\ table' # table =>
             /\ \A i \in DOMAIN file : Ended(i) => file[i].rec \in table'
             /\ \A r \in table' : \E i \in DOMAIN file : file[i] = Piece("whole", r)]_vars
====

---- MODULE MCRecords ----
(* Small runs: who takes part, and what may go wrong. *)
EXTENDS Records

CONSTANTS A, B

Outcome(r, n) == [result |-> r, attempts |-> n]

Config(ss, cont, exp, ing, bad, till, outs) ==
    [stations |-> ss, label |-> [s \in Stations |-> s], continuous |-> cont,
     exporter |-> exp, ingest |-> ing, trouble |-> bad, until |-> till,
     outcomes |-> outs]

\* One station in a continuous run and the ingester, while writes fail or the process
\* dies; two stations with an exporter and Ctrl-C; a batch of two,
\* and of one that is restarted twice.
MCConfigs ==
    {Config({A}, TRUE, FALSE, TRUE, 1, 2, {Outcome("pass", 1), Outcome("fail", 2)}),
     Config({A, B}, TRUE, TRUE, FALSE, 0, 1, {Outcome("pass", 2), Outcome("fail", 2)}),
     Config({A, B}, FALSE, FALSE, TRUE, 1, 0, {Outcome("pass", 1)}),
     Config({A}, FALSE, FALSE, TRUE, 2, 0, {Outcome("pass", 1)})}
====

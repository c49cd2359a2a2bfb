---- MODULE MCCapture ----
(* PACs of four to eight units, and a flash of ten, for Capture. *)
EXTENDS Capture

Entry(id, address, size, offset) ==
    [id |-> id, address |-> address, size |-> size, offset |-> offset]

\* A file of a header, the rows in order, and the payload.
File(rows, payload) ==
    LET body == rows \o payload
        h == [size |-> 1 + Len(body), count |-> Len(rows), table |-> 1]
    IN  <<[size |-> h.size, count |-> h.count, table |-> h.table,
           crc1 |-> h, crc2 |-> body]>> \o body

Declares(f, size) == [f EXCEPT ![1].size = size]
Counts(f, count) == [f EXCEPT ![1].count = count]
Unsealed(f) == [f EXCEPT ![1].crc1 = [size |-> 0, count |-> 0, table |-> 0], ![1].crc2 = <<>>]

FDL1 == Entry("FDL1", 1, 1, 4)
Pair(a, b) == File(<<FDL1, a, b>>, <<"f", "a", "a", "b">>)
Good == Pair(Entry("A", 10, 2, 5), Entry("B", 12, 1, 7))

\* Partitions that share payload, have none, or lie partly or wholly outside the file.
Pairs ==
    {Pair(Entry("A", 10, m, i), Entry("B", 12, n, j)) : m, n \in 0 .. 2, i, j \in 4 .. 8}

NoLoader == File(<<Entry("A", 10, 2, 2)>>, <<"a", "a">>)
NoParts == File(<<FDL1>>, <<"f", "x", "x", "x">>)
PastFlash == File(<<FDL1, Entry("A", 18, 3, 3)>>, <<"f", "a", "a", "a">>)

Clone(f) == [kind |-> "clone", file |-> f, regions |-> <<>>]
Dump(f, rs) == [kind |-> "dump", file |-> f, regions |-> rs]
At(address, size) == [address |-> address, size |-> size]

MCCommands ==
    {Clone(f) : f \in Pairs \cup {Unsealed(Good), NoLoader, NoParts, PastFlash,
                                     Declares(Good, 7), Counts(Good, 8)}}
    \cup {Dump(f, <<>>) : f \in {Good, NoLoader, NoParts}}
    \cup {Dump(Good, <<At(10, 2), At(18, 4), At(10, 1)>>), Dump(NoParts, <<At(16, 2)>>)}

\* Nothing, and a golden PAC of another module.
MCDisks ==
    {[n \in {} |-> <<>>],
     [n \in {Golden} |-> File(SubSeq(Good, 2, 4), <<"f", "o", "o", "o">>)]}

MCFlash ==
    [a \in 10 .. 19 |-> <<"0", "1", "2", "3", "4", "5", "6", "7", "8", "9">>[a - 9]]
====

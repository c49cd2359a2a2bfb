---- MODULE MCWire ----
(* Digits below 4: flag 3, escape 2, and 2 the bit that is flipped. *)
EXTENDS Wire

Reply(t, d) == [type |-> t, data |-> d]
Exchange(r, d) == [replies |-> r, damage |-> d]

\* Data of every byte, a type of flags, a run of escapes; a reply as long as the field
\* can tell (15) and two that are longer; two replies on a line that damages a byte.
MCExchanges ==
    {Exchange(<<Reply(1, <<>>), Reply(15, <<3, 2, 1, 0>>), Reply(5, <<2, 2, 2>>)>>, 0),
     Exchange(<<Reply(7, [i \in 1 .. 15 |-> i % 4]), Reply(1, <<>>)>>, 0),
     Exchange(<<Reply(7, [i \in 1 .. 18 |-> i % 4]), Reply(7, [i \in 1 .. 16 |-> 1])>>, 0),
     Exchange(<<Reply(1, <<>>), Reply(4, <<3>>)>>, 1)}
====

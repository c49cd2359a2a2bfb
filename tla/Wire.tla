---- MODULE Wire ----
(***************************************************************************)
(* BSL frames as bytes, and the host's reader of them.  build_message puts *)
(* a message between two flags and escapes every flag and escape byte of   *)
(* it (bsl.rs); recv reads the line in pieces until find_frame_body sees a *)
(* whole frame, and throws away what it read beyond it (bsl_io.rs,         *)
(* serial.rs).                                                             *)
(*                                                                         *)
(* A byte is a digit below Base, and a field (type, length, checksum) is   *)
(* two of them: the program has Base = 256.  The device's replies are      *)
(* given; it sends them whole and in order, whether asked for or not.      *)
(***************************************************************************)
EXTENDS Integers, Sequences, FiniteSets, FiniteSetsExt

CONSTANTS
    Base,      \* the number of values of a byte: 256
    Flag,      \* FLAG: 0x7e
    Escape,    \* ESCAPE: 0x7d
    Bit,       \* the bit an escaped byte has flipped: 0x20
    Exchanges  \* what may happen: the replies the device sends, [type, data], and
               \* damage, a bound on the bytes that change on the line

Byte == 0 .. Base - 1
FieldSize == Base * Base

\* b ^ Bit.
Flip(b) == IF (b \div Bit) % 2 = 1 THEN b - Bit ELSE b + Bit

ASSUME WireAssumption ==
    /\ Base \in Nat \ {0} /\ Bit \in Nat \ {0}
    /\ {Flag, Escape} \subseteq Byte /\ Flag # Escape
    /\ \A b \in Byte : Flip(b) \in Byte
    /\ {Flip(Flag), Flip(Escape)} \cap {Flag, Escape} = {}
    /\ \A x \in Exchanges :
          /\ x.replies \in Seq([type : 0 .. FieldSize - 1, data : Seq(Byte)])
          /\ x.damage \in Nat

VARIABLES
    exchange, \* the exchange that takes place
    sent,     \* how many of its replies the device has sent
    line,     \* the bytes that were sent and not read
    pc,       \* "idle", or "recv" while the host waits for a frame
    acc,      \* recv's accumulated bytes
    got,      \* what the calls of recv returned, timeouts left out
    since,    \* replies sent before the wait began, or before the last damage
    damages   \* bytes changed on the line

vars == <<exchange, sent, line, pc, acc, got, since, damages>>

----
(***************************************************************************)
(* The codec.                                                              *)
(***************************************************************************)
Field(n) == <<(n % FieldSize) \div Base, n % Base>>
FieldAt(s, i) == s[i] * Base + s[i + 1]

\* Mutant of Escaped: escape bytes of the body are sent as they are.
EscapedFlagsOnly(b) == IF b = Flag THEN <<Escape, Flip(b)>> ELSE <<b>>

Escaped(b) == IF b \in {Flag, Escape} THEN <<Escape, Flip(b)>> ELSE <<b>>

EscapeBytes(frame) ==
    LET upTo[n \in 0 .. Len(frame)] ==
            IF n = 0 THEN <<>> ELSE upTo[n - 1] \o Escaped(frame[n])
    IN  upTo[Len(frame)]

\* What unescape has after one more byte; escape: the byte before it was an escape byte.
Unescaped(r, b) ==
    IF r.escape THEN [out |-> Append(r.out, Flip(b)), escape |-> FALSE]
    ELSE IF b = Escape THEN [out |-> r.out, escape |-> TRUE]
    ELSE [out |-> Append(r.out, b), escape |-> FALSE]

\* An escape byte at the very end stands for nothing.
Unescape(frame) ==
    LET upTo[n \in 0 .. Len(frame)] ==
            IF n = 0 THEN [out |-> <<>>, escape |-> FALSE]
            ELSE Unescaped(upTo[n - 1], frame[n])
    IN  upTo[Len(frame)].out

\* sprd_sum: the ones-complement sum of little-endian words, folded twice, swapped.
SprdSum(bytes) ==
    LET upTo[n \in 0 .. Len(bytes)] ==
            IF n = 0 THEN 0 ELSE upTo[n - 1] + bytes[n] * (IF n % 2 = 1 THEN 1 ELSE Base)
        total  == upTo[Len(bytes)]
        once   == (total \div FieldSize) + (total % FieldSize)
        folded == FieldSize - 1 - ((once + (once \div FieldSize)) % FieldSize)
    IN  (folded \div Base) + (folded % Base) * Base

\* The length field keeps the low digits of a length that does not fit it.
BuildMessage(m) ==
    LET body == Field(m.type) \o Field(Len(m.data)) \o m.data
    IN  <<Flag>> \o EscapeBytes(body \o Field(SprdSum(body))) \o <<Flag>>

Bad == [type |-> -1, data |-> <<>>]

\* parse_message: the checksum is neither used nor checked.
ParseMessage(body) ==
    IF Len(body) < 6 \/ Len(body) - 4 < FieldAt(body, 3) + 2 THEN Bad
    ELSE [type |-> FieldAt(body, 1), data |-> SubSeq(body, 5, 4 + FieldAt(body, 3))]

\* Mutant of Opening: what remains of an earlier frame is not skipped.
OpeningAtOnce(buf) ==
    {i \in DOMAIN buf : i > 1 /\ buf[1] = Flag /\ buf[i - 1] = Flag /\ buf[i] # Flag}

\* Where a body may begin: behind a flag, any run of flags being skipped.
Opening(buf) == {i \in DOMAIN buf : i > 1 /\ buf[i - 1] = Flag /\ buf[i] # Flag}

\* Where the body that begins first ends.
Closing(buf) ==
    {j \in DOMAIN buf : Opening(buf) # {} /\ buf[j] = Flag /\ j >= Min(Opening(buf))}

FrameBody(buf) == Unescape(SubSeq(buf, Min(Opening(buf)), Min(Closing(buf)) - 1))

----
(***************************************************************************)
(* The device and the line.                                                *)
(***************************************************************************)
DeviceSends ==
    /\ sent < Len(exchange.replies)
    /\ line' = line \o BuildMessage(exchange.replies[sent + 1])
    /\ sent' = sent + 1
    /\ UNCHANGED <<exchange, pc, acc, got, since, damages>>

\* A byte changes on its way.
Damage ==
    /\ damages < exchange.damage
    /\ \E i \in DOMAIN line, b \in Byte : b # line[i] /\ line' = [line EXCEPT ![i] = b]
    /\ damages' = damages + 1
    /\ since' = sent
    /\ UNCHANGED <<exchange, sent, pc, acc, got>>

----
(***************************************************************************)
(* The host.                                                               *)
(***************************************************************************)
BeginRecv ==
    /\ pc = "idle"
    /\ pc' = "recv"
    /\ acc' = <<>>
    /\ since' = sent
    /\ UNCHANGED <<exchange, sent, line, got, damages>>

\* read_some returns any part of what is there, cut anywhere.
ReadSome ==
    /\ pc = "recv"
    /\ \E n \in 1 .. Len(line) :
          LET buf == acc \o SubSeq(line, 1, n)
          IN  /\ line' = SubSeq(line, n + 1, Len(line))
              /\ IF Closing(buf) = {}
                 THEN acc' = buf /\ UNCHANGED <<pc, got>>
                 ELSE /\ got' = Append(got, ParseMessage(FrameBody(buf)))
                      /\ pc' = "idle" /\ acc' = <<>>
    /\ UNCHANGED <<exchange, sent, since, damages>>

\* The deadline of read_until passes; what was read of a frame is dropped with acc.
Timeout ==
    /\ pc = "recv"
    /\ pc' = "idle" /\ acc' = <<>>
    /\ UNCHANGED <<exchange, sent, line, got, since, damages>>

\* purge_input: what has arrived is discarded, what is on its way is not.
PurgeInput ==
    /\ pc = "idle"
    /\ \E n \in 1 .. Len(line) : line' = SubSeq(line, n + 1, Len(line))
    /\ UNCHANGED <<exchange, sent, pc, acc, got, since, damages>>

Init ==
    /\ exchange \in Exchanges
    /\ sent = 0 /\ line = <<>>
    /\ pc = "idle" /\ acc = <<>> /\ got = <<>>
    /\ since = 0 /\ damages = 0

Next == DeviceSends \/ Damage \/ BeginRecv \/ ReadSome \/ Timeout \/ PurgeInput

Spec == Init /\ [][Next]_vars

----
(***************************************************************************)
(* Properties.                                                             *)
(***************************************************************************)
TypeOK ==
    /\ exchange \in Exchanges
    /\ sent \in 0 .. Len(exchange.replies)
    /\ line \in Seq(Byte) /\ acc \in Seq(Byte)
    /\ pc \in {"idle", "recv"}
    /\ got \in Seq([type : -1 .. FieldSize - 1, data : Seq(Byte)])
    /\ since \in 0 .. sent
    /\ damages \in 0 .. exchange.damage

\* What the host can know of a reply: of data too long for the length field, the part
\* the field's low digits tell.
Heard(m) == [m EXCEPT !.data = SubSeq(@, 1, Len(@) % FieldSize)]

\* However the reads cut the line, whatever timeouts and purges dropped of it: what
\* recv returns are replies of the device, in their order, none of them twice, and
\* each byte damaged on the line is to blame for one wrong result at most.
RepliesAreGenuine ==
    \E wrong \in SUBSET DOMAIN got :
        /\ Cardinality(wrong) <= damages
        /\ \E of \in [DOMAIN got \ wrong -> 1 .. sent] :
              /\ \A i \in DOMAIN of : got[i] = Heard(exchange.replies[of[i]])
              /\ \A i, j \in DOMAIN of : i < j => of[i] < of[j]

\* A reply that is sent while the host waits ends the wait once it is read, whatever
\* remains of earlier frames lie before it on the line.
ReplyEndsTheWait == pc = "recv" /\ sent > since => line # <<>>
====

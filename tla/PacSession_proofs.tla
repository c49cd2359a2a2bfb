---- MODULE PacSession_proofs ----
(***************************************************************************)
(* Theorems about BslSession, for every plan, payload size, chunk, option  *)
(* and bound on the losses, and at the end about PacSession, for every     *)
(* PAC.  PlanAssumption and PlanOfPac, which restrict the plan to that of  *)
(* a PAC, are cited in the last two sections only.                         *)
(***************************************************************************)
EXTENDS PacSession, SequenceTheorems, FiniteSetTheorems, WellFoundedInduction, TLAPS

LEMMA SmallerLarger ==
    ASSUME NEW a \in Nat, NEW b \in Nat
    PROVE  /\ Smaller(a, b) \in Nat /\ Smaller(a, b) <= a /\ Smaller(a, b) <= b
           /\ Larger(a, b) \in Nat /\ a <= Larger(a, b) /\ b <= Larger(a, b)
BY DEF Smaller, Larger

LEMMA FunctionIsSeq ==
    ASSUME NEW S, NEW n \in Nat, NEW f \in [1 .. n -> S]
    PROVE  f \in Seq(S) /\ Len(f) = n
BY SeqDef

\* An image is a sequence of as many units as the entry's payload has.
LEMMA ImageType ==
    ASSUME NEW e \in Entries
    PROVE  /\ Image(e) \in Seq(Units) /\ Len(Image(e)) = Size[e]
           /\ \A m, n \in Nat : n <= Size[e] => SubSeq(Image(e), m + 1, n) \in Seq(Units)
<1>1. Size[e] \in Nat
  BY SizeAssumption
<1>2. \A i \in 1 .. Size[e] : Image(e)[i] \in Units
  BY <1>1 DEF Image, NvFixCrc, Payload, Units
<1>3. Image(e) \in [1 .. Size[e] -> Units]
  BY <1>1 DEF Image, NvFixCrc, Payload, Units
<1>4. Image(e) \in Seq(Units) /\ Len(Image(e)) = Size[e]
  BY <1>1, <1>3, FunctionIsSeq
<1>5. ASSUME NEW m \in Nat, NEW n \in Nat, n <= Size[e]
      PROVE  SubSeq(Image(e), m + 1, n) \in Seq(Units)
  BY <1>1, <1>2, <1>5, SubSeqProperties
<1> QED
  BY <1>4, <1>5

LEMMA FrameFields ==
    /\ Connect \in Frames /\ EndData \in Frames /\ NormalReset \in Frames
    /\ \A e \in Entries : StartData(e) \in Frames /\ EraseFlash(e) \in Frames
    /\ \A d \in Seq(Units) : MidstData(d) \in Frames
    /\ \A e \in Entries, off, n \in Nat : ReadFlash(e, off, n) \in Frames
    /\ \A f \in Frames :
          /\ f.cmd \in {"START_DATA", "ERASE_FLASH", "READ_FLASH"} => f.entry \in Entries
          /\ f.cmd = "MIDST_DATA" => f.data \in Seq(Units)
          /\ f.cmd = "READ_FLASH" => f.off \in Nat /\ f.len \in Nat
BY DEF Frames, Connect, EndData, NormalReset, StartData, EraseFlash, MidstData, ReadFlash

LEMMA ReplyFields ==
    /\ Ack \in Replies /\ Failed \in Replies /\ InvalidCmd \in Replies
    /\ \A d \in Seq(Units) : Data(d) \in Replies
    /\ \A r \in Replies : r.data \in Seq(Units)
BY DEF Replies, Ack, Failed, InvalidCmd, Data

LEMMA Suffix ==
    ASSUME NEW S, NEW s \in Seq(S), NEW m \in Nat
    PROVE  SubSeq(s, m + 1, Len(s)) \in Seq(S)
<1>1. \A i \in m + 1 .. Len(s) : s[i] \in S
  OBVIOUS
<1> QED
  BY <1>1, SubSeqProperties
LEMMA SurplusType ==
    ASSUME NEW surplus \in 0 .. Len(toHost) - 1, toHost \in Seq(Replies)
    PROVE  SubSeq(toHost, surplus + 2, Len(toHost)) \in Seq(Replies)
<1>1. surplus + 1 \in Nat /\ surplus + 2 = (surplus + 1) + 1
  OBVIOUS
<1> QED
  BY <1>1, Suffix

LEMMA EntryType == pos \in 1 .. Len(Ops) => Entry \in Entries /\ Size[Entry] \in Nat
BY OpsAssumption, SizeAssumption DEF Entry, Entries

LEMMA PieceType ==
    ASSUME NEW from \in Nat, TypeOK, pos <= Len(Ops)
    PROVE  /\ Reach(from) \in Nat /\ Reach(from) <= Size[Entry]
           /\ from < Size[Entry] => from < Reach(from)
           /\ MidstData(SubSeq(Image(Entry), from + 1, Reach(from))) \in Frames
<1>1. Entry \in Entries /\ Size[Entry] \in Nat
  BY EntryType DEF TypeOK
<1>2. chunk \in Nat \ {0}
  BY DEF TypeOK
<1>3. /\ Reach(from) \in Nat /\ Reach(from) <= Size[Entry]
      /\ from < Size[Entry] => from < Reach(from)
  BY <1>1, <1>2 DEF Reach, Smaller
<1> QED
  BY <1>1, <1>3, ImageType, FrameFields

LEMMA SendPieceType ==
    ASSUME NEW from \in Nat, TypeOK, pos <= Len(Ops), SendPiece(from)
    PROVE  toDev' \in Seq(Frames) /\ pc' \in {"MIDST_DATA", "END_DATA"}
<1>1. toDev \in Seq(Frames)
  BY DEF TypeOK
<1>2. CASE from < Size[Entry]
  <2>1. MidstData(SubSeq(Image(Entry), from + 1, Reach(from))) \in Frames
    BY PieceType
  <2> QED
    BY <1>1, <1>2, <2>1 DEF SendPiece, Send
<1>3. CASE ~(from < Size[Entry])
  BY <1>1, <1>3, FrameFields DEF SendPiece, Send
<1> QED
  BY <1>2, <1>3

LEMMA SendReadType ==
    ASSUME NEW off \in Nat, TypeOK, pos <= Len(Ops), off <= Size[Entry], SendRead(off)
    PROVE  toDev' \in Seq(Frames) /\ pc' = "READ_FLASH"
<1>1. toDev \in Seq(Frames) /\ Entry \in Entries /\ Size[Entry] \in Nat
  BY EntryType DEF TypeOK
<1>2. Smaller(ReadChunk, Size[Entry] - off) \in Nat
  BY <1>1, OptionAssumption DEF Smaller
<1>3. ReadFlash(Entry, off, Smaller(ReadChunk, Size[Entry] - off)) \in Frames
  BY <1>1, <1>2, FrameFields
<1> QED
  BY <1>1, <1>3 DEF SendRead, Send

----
(***************************************************************************)
(* Type correctness.                                                       *)
(***************************************************************************)
LEMMA HostType == TypeOK /\ (HostStep \/ PortFails) => TypeOK'
<1> SUFFICES ASSUME TypeOK, HostStep \/ PortFails PROVE TypeOK'
  OBVIOUS
<1> USE DEF hostVars, devVars
<1>1. pos <= Len(Ops) => Entry \in Entries /\ Size[Entry] \in Nat
  BY EntryType DEF TypeOK
<1>2. pc \in Awaiting => pos <= Len(Ops)
  BY DEF TypeOK
<1>3. Larger(Chunk, 1) \in Nat \ {0} /\ Larger(chunk \div 2, MinChunk) \in Nat \ {0}
  BY OptionAssumption DEF TypeOK, Larger
<1>4. TakeReply => toHost' \in Seq(Replies) /\ toHost[1] \in Replies
  BY SurplusType DEF TakeReply, TypeOK
<1>5. CASE BeginStage
  BY <1>1, <1>3, <1>5, FrameFields DEF BeginStage, TypeOK, Send, Awaiting, StageSteps
<1>6. CASE BeginErase
  BY <1>1, <1>6, FrameFields DEF BeginErase, TypeOK, Send, Awaiting
<1>7. CASE PayloadMissing
  BY <1>7 DEF PayloadMissing, TypeOK
<1>8. CASE Finish
  <2>1. toDev' \in Seq(Frames)
    <3>1. toDev \in Seq(Frames) /\ NormalReset \in Frames
      BY FrameFields DEF TypeOK
    <3>2. toDev' = Append(toDev, NormalReset) \/ toDev' = toDev
      BY <1>8 DEF Finish, Send
    <3> QED
      BY <3>1, <3>2
  <2> QED
    BY <1>8, <2>1 DEF Finish, TypeOK, Awaiting, StageSteps
<1>9. CASE AckStart
  <2>1. pos <= Len(Ops) /\ SendPiece(0)
    BY <1>2, <1>9 DEF AckStart, Replied, Awaiting, StageSteps
  <2>2. toDev' \in Seq(Frames) /\ pc' \in {"MIDST_DATA", "END_DATA"}
    BY <2>1, SendPieceType
  <2> QED
    BY <1>4, <1>9, <2>1, <2>2 DEF AckStart, Replied, TypeOK, Awaiting, StageSteps
<1>10. CASE AckMidst
  <2>1. pos <= Len(Ops) /\ SendPiece(Reach(sent)) /\ sent \in Nat
    BY <1>2, <1>10 DEF AckMidst, Replied, Awaiting, StageSteps, TypeOK
  <2>2. Reach(sent) \in Nat
    BY <2>1, PieceType
  <2>3. toDev' \in Seq(Frames) /\ pc' \in {"MIDST_DATA", "END_DATA"}
    BY <2>1, <2>2, SendPieceType
  <2> QED
    BY <1>4, <1>10, <2>1, <2>2, <2>3 DEF AckMidst, Replied, TypeOK, Awaiting, StageSteps
<1>11. CASE AckEnd
  <2>1. pos <= Len(Ops)
    BY <1>2, <1>11 DEF AckEnd, Replied, Awaiting, StageSteps
  <2>2. CASE VerifyReadback /\ Entry \in PartitionSet
    <3>1. SendRead(0) /\ back' = << >> /\ pos' = pos
      BY <1>11, <2>2 DEF AckEnd
    <3>2. toDev' \in Seq(Frames) /\ pc' = "READ_FLASH"
      BY <1>1, <2>1, <3>1, SendReadType
    <3> QED
      BY <1>4, <1>11, <2>1, <3>1, <3>2 DEF AckEnd, Replied, TypeOK, Awaiting
  <2>3. CASE ~(VerifyReadback /\ Entry \in PartitionSet)
    BY <1>4, <1>11, <2>1, <2>3 DEF AckEnd, Replied, TypeOK, Awaiting, StageSteps
  <2> QED
    BY <2>2, <2>3
<1>12. CASE AckConnect
  BY <1>1, <1>2, <1>4, <1>12, FrameFields
  DEF AckConnect, Replied, Send, TypeOK, Awaiting, StageSteps
<1>13. CASE AckErase
  BY <1>2, <1>4, <1>13 DEF AckErase, Replied, TypeOK, Awaiting, StageSteps
<1>14. CASE DataRead
  <2> DEFINE d == toHost[1].data
             all == back \o d
  <2>1. pos <= Len(Ops) /\ Size[Entry] \in Nat
    BY <1>1, <1>2, <1>14 DEF DataRead, Replied, Awaiting
  <2>2. d \in Seq(Units) /\ all \in Seq(Units) /\ Len(all) \in Nat
    <3>1. back \in Seq(Units) /\ d \in Seq(Units)
      BY <1>4, <1>14, ReplyFields DEF DataRead, Replied, TypeOK
    <3> QED
      BY <3>1
  <2>3. CASE d # << >> /\ Len(all) < Size[Entry]
    <3>1. SendRead(Len(all)) /\ back' = all /\ pos' = pos /\ outcome' = outcome
      BY <1>14, <2>3 DEF DataRead
    <3>2. toDev' \in Seq(Frames) /\ pc' = "READ_FLASH"
      BY <2>1, <2>2, <2>3, <3>1, SendReadType
    <3> HIDE DEF all
    <3> QED
      BY <1>4, <1>14, <2>1, <2>2, <3>1, <3>2 DEF DataRead, Replied, TypeOK, Awaiting
  <2>4. CASE ~(d # << >> /\ Len(all) < Size[Entry])
    <3>1. /\ back' \in Seq(Units) /\ toDev' = toDev
          /\ \/ pc' = "next" /\ pos' = pos + 1 /\ outcome' = outcome
             \/ outcome' = "err" /\ pc' = pc /\ pos' = pos
      BY <1>14, <2>2, <2>4 DEF DataRead
    <3> QED
      BY <1>4, <1>14, <2>1, <3>1 DEF DataRead, Replied, TypeOK, Awaiting, StageSteps
  <2> QED
    BY <2>3, <2>4
<1>15. CASE UnexpectedReply
  BY <1>4, <1>15 DEF UnexpectedReply, TypeOK
<1>16. CASE RetryStage
  <2>1. \A purged \in 0 .. Len(toHost) :
           SubSeq(toHost, purged + 1, Len(toHost)) \in Seq(Replies)
    BY Suffix DEF TypeOK
  <2> QED
    BY <1>2, <1>3, <1>16, <2>1, FrameFields
    DEF RetryStage, Retry, CanRetry, Send, TypeOK, Awaiting, StageSteps
<1>17. CASE TimeoutFails
  BY <1>17 DEF TimeoutFails, TypeOK
<1>18. CASE PortFails
  BY <1>18 DEF PortFails, TypeOK
<1> QED
  BY <1>5, <1>6, <1>7, <1>8, <1>9, <1>10, <1>11, <1>12, <1>13, <1>14, <1>15, <1>16,
     <1>17, <1>18 DEF HostStep

LEMMA OldType == \A e \in Entries : Old(e) \in Seq(Units)
<1> SUFFICES ASSUME NEW e \in Entries PROVE Old(e) \in Seq(Units)
  OBVIOUS
<1>1. Larger(Size[e], 1) \in Nat
  BY SizeAssumption DEF Larger
<1>2. Old(e) \in [1 .. Larger(Size[e], 1) -> Units]
  BY DEF Old, Units
<1> QED
  BY <1>1, <1>2, FunctionIsSeq

\* What is written of one entry stays, and leaves alone what it does not overlap.
LEMMA PutFacts ==
    ASSUME TypeOK, NEW e \in Entries, NEW units \in Seq(Units), Put(e, units)
    PROVE  /\ flash' \in [Entries -> Seq(Units)]
           /\ flash'[e] = units
           /\ \A f \in Entries : f # e /\ <<e, f>> \notin Overlaps => flash'[f] = flash[f]
BY OldType DEF Put, TypeOK

LEMMA EmptyType == << >> \in Seq(Units)
OBVIOUS

LEMMA DeviceType == TypeOK /\ DeviceStep => TypeOK'
<1> SUFFICES ASSUME TypeOK, DeviceStep PROVE TypeOK'
  OBVIOUS
<1> USE DEF hostVars, devVars
<1>1. toDev # << >> => toDev[1] \in Frames /\ Tail(toDev) \in Seq(Frames)
  BY DEF TypeOK
<1>2. NoWrite \notin [entry : Entries, buf : Seq(Units)]
  BY OpsAssumption DEF NoWrite
<1>3. \A r \in Replies : Append(toHost, r) \in Seq(Replies)
  BY DEF TypeOK
<1>4. CASE DevConnect
  BY <1>1, <1>3, <1>4, ReplyFields DEF DevConnect, Receive, Answer, TypeOK
<1>5. CASE DevStart
  BY <1>1, <1>3, <1>5, ReplyFields, FrameFields DEF DevStart, Receive, Answer, TypeOK
<1>6. CASE DevMidst
  <2>1. toDev # << >> /\ toDev[1].data \in Seq(Units)
    BY <1>1, <1>6, FrameFields DEF DevMidst, Receive
  <2>2. \A c \in [entry : Entries, buf : Seq(Units)] :
           [c EXCEPT !.buf = @ \o toDev[1].data] \in [entry : Entries, buf : Seq(Units)]
    <3> SUFFICES ASSUME NEW c \in [entry : Entries, buf : Seq(Units)]
                 PROVE  [c EXCEPT !.buf = c.buf \o toDev[1].data]
                          \in [entry : Entries, buf : Seq(Units)]
      OBVIOUS
    <3>1. c.buf \in Seq(Units)
      OBVIOUS
    <3>2. c.buf \o toDev[1].data \in Seq(Units)
      BY <2>1, <3>1
    <3> QED
      BY <3>2
  <2>3. cur' \in [entry : Entries, buf : Seq(Units)] \cup {NoWrite}
    BY <1>6, <2>2 DEF DevMidst, TypeOK
  <2> QED
    BY <1>1, <1>3, <1>6, <2>1, <2>3, ReplyFields DEF DevMidst, Receive, Answer, TypeOK
<1>7. CASE DevEnd
  <2>1. cur # NoWrite => cur.entry \in Entries /\ cur.buf \in Seq(Units)
    BY DEF TypeOK
  <2>2. flash' \in [Entries -> Seq(Units)]
    <3>1. CASE flash' = flash
      BY <3>1 DEF TypeOK
    <3>2. CASE cur # NoWrite /\ Put(cur.entry, cur.buf)
      BY <2>1, <3>2, PutFacts
    <3> QED
      BY <1>7, <3>1, <3>2 DEF DevEnd
  <2> QED
    BY <1>1, <1>2, <1>3, <1>7, <2>2, ReplyFields DEF DevEnd, Receive, Answer, TypeOK
<1>8. CASE DevEndBadCell
  <2>1. cur.entry \in Entries
    BY <1>8 DEF DevEndBadCell, TypeOK
  <2>2. flash' \in [Entries -> Seq(Units)]
    BY <1>8, <2>1, OldType, PutFacts DEF DevEndBadCell
  <2> QED
    BY <1>1, <1>2, <1>3, <1>8, <2>2, ReplyFields
    DEF DevEndBadCell, Receive, Answer, TypeOK
<1>9. CASE DevErase
  <2>1. toDev[1].entry \in Entries
    BY <1>1, <1>9, FrameFields DEF DevErase, Receive
  <2>2. flash' \in [Entries -> Seq(Units)]
    BY <1>9, <2>1, EmptyType, PutFacts DEF DevErase
  <2> QED
    BY <1>1, <1>3, <1>9, <2>2, ReplyFields DEF DevErase, Receive, Answer, TypeOK
<1>10. CASE DevRead
  <2> DEFINE f == toDev[1]
             held == flash[f.entry]
             upto == Smaller(f.off + f.len, Len(held))
  <2>1. /\ toDev # << >> /\ f \in Frames /\ f.cmd = "READ_FLASH"
        /\ f.entry \in Entries /\ f.off \in Nat /\ f.len \in Nat
    BY <1>1, <1>10, FrameFields DEF DevRead, Receive
  <2>2. held \in Seq(Units) /\ Len(held) \in Nat
    BY <2>1 DEF TypeOK
  <2>3. upto \in Nat /\ upto <= Len(held)
    BY <2>1, <2>2 DEF Smaller
  <2>4. \A i \in f.off + 1 .. upto : held[i] \in Units
    BY <2>1, <2>2, <2>3
  <2>5. SubSeq(held, f.off + 1, upto) \in Seq(Units)
    <3> HIDE DEF f, held, upto
    <3> QED
      BY <2>1, <2>3, <2>4, SubSeqProperties
  <2> QED
    BY <1>1, <1>3, <1>10, <2>5, ReplyFields DEF DevRead, Receive, Answer, TypeOK
<1>11. CASE DevReset
  BY <1>1, <1>11 DEF DevReset, Receive, TypeOK
<1>12. CASE DevRefuse
  BY <1>1, <1>3, <1>12, ReplyFields DEF DevRefuse, Receive, Answer, TypeOK
<1> QED
  BY <1>4, <1>5, <1>6, <1>7, <1>8, <1>9, <1>10, <1>11, <1>12 DEF DeviceStep

LEMMA InitType == Init => TypeOK
<1> SUFFICES ASSUME Init PROVE TypeOK
  OBVIOUS
<1>1. \A e \in Entries : Old(e) \in Seq(Units)
  <2> SUFFICES ASSUME NEW e \in Entries PROVE Old(e) \in Seq(Units)
    OBVIOUS
  <2>1. Larger(Size[e], 1) \in Nat
    BY SizeAssumption DEF Larger
  <2>2. Old(e) \in [1 .. Larger(Size[e], 1) -> Units]
    BY DEF Old, Units
  <2> QED
    BY <2>1, <2>2, FunctionIsSeq
<1> QED
  BY <1>1, OptionAssumption, OpsAssumption DEF Init, TypeOK, Awaiting, StageSteps

LEMMA StepType == TypeOK /\ [Next]_vars => TypeOK'
<1> SUFFICES ASSUME TypeOK, [Next]_vars PROVE TypeOK'
  OBVIOUS
<1>1. CASE LoseFrame
  BY <1>1, OptionAssumption DEF LoseFrame, TypeOK, hostVars, devVars
<1>2. CASE LoseReply
  BY <1>2, OptionAssumption DEF LoseReply, TypeOK, hostVars, devVars
<1>3. CASE Terminated \/ UNCHANGED vars
  BY <1>3 DEF Terminated, TypeOK, vars, hostVars, devVars
<1> QED
  BY <1>1, <1>2, <1>3, HostType, DeviceType DEF Next

\* Every variable keeps its type, whatever the plan and whatever goes wrong.
THEOREM TypeCorrect == Spec => []TypeOK
BY InitType, StepType, PTL DEF Spec

----
(***************************************************************************)
(* The inductive invariant of a prompt link.                               *)
(***************************************************************************)
LEMMA PrefixFacts ==
    ASSUME NEW e \in Entries
    PROVE  /\ Prefix(e, 0) = << >>
           /\ Prefix(e, Size[e]) = Image(e)
           /\ \A m, n \in Nat : m <= n /\ n <= Size[e] =>
                 Prefix(e, m) \o SubSeq(Image(e), m + 1, n) = Prefix(e, n)
<1>1. Image(e) \in Seq(Units) /\ Len(Image(e)) = Size[e] /\ Size[e] \in Nat
  BY ImageType, SizeAssumption
<1>2. Prefix(e, 0) = << >>
  BY SubSeqEmpty DEF Prefix
<1>3. Prefix(e, Size[e]) = Image(e)
  BY <1>1, SubSeqFull DEF Prefix
<1>4. ASSUME NEW m \in Nat, NEW n \in Nat, m <= n, n <= Size[e]
      PROVE  Prefix(e, m) \o SubSeq(Image(e), m + 1, n) = Prefix(e, n)
  <2>1. 1 \in 1 .. Len(Image(e)) + 1 /\ m \in 1 - 1 .. Len(Image(e))
        /\ n \in m .. Len(Image(e))
    BY <1>1, <1>4
  <2>2. SubSeq(Image(e), 1, m) \o SubSeq(Image(e), m + 1, n) = SubSeq(Image(e), 1, n)
    BY <1>1, <2>1, ConcatAdjacentSubSeq
  <2> QED
    BY <2>2 DEF Prefix
<1> QED
  BY <1>2, <1>3, <1>4

LEMMA ErasedImage == \A e \in Entries : e \in EraseSet => Image(e) = << >>
<1> SUFFICES ASSUME NEW e \in Entries, e \in EraseSet PROVE Image(e) = << >>
  OBVIOUS
<1>1. Image(e) \in Seq(Units) /\ Len(Image(e)) = 0
  BY ImageType, SizeAssumption
<1> QED
  BY <1>1

LEMMA InitInv == Init => PromptInv
<1> SUFFICES ASSUME Init PROVE PromptInv
  OBVIOUS
<1> QED
  BY InitType
  DEF Init, PromptInv, OneInFlight, RequestInFlight, StageInStep, BufferIsPrefix,
      WrittenSoFar, ResetIsLast

\* A reply leaves the link empty behind it.
LEMMA LastReply ==
    ASSUME TypeOK, OneInFlight, TakeReply
    PROVE  toDev = << >> /\ toHost # << >> /\ toHost' = << >> /\ outcome = "running"
<1>1. toDev = << >> /\ toHost # << >> /\ outcome = "running"
  BY DEF TakeReply, OneInFlight, TypeOK
<1>2. Len(toHost) = 1
  <2>1. Len(toHost) \in Nat /\ Len(toHost) # 0
    BY <1>1 DEF TypeOK
  <2>2. Len(toHost) <= 1
    BY DEF OneInFlight
  <2> QED
    BY <2>1, <2>2
<1>3. toHost' = SubSeq(toHost, 2, 1)
  BY <1>2 DEF TakeReply
<1>4. SubSeq(toHost, 2, 1) = << >>
  BY SubSeqEmpty
<1> QED
  BY <1>1, <1>3, <1>4

\* One new frame on an empty link.
LEMMA FirstFrame ==
    ASSUME NEW f, toDev = << >>, Send(f)
    PROVE  Len(toDev') = 1 /\ toDev' # << >> /\ toDev'[1] = f
BY DEF Send

\* A piece or END_DATA goes out with the device's buffer where it has to be.
LEMMA NextRequest ==
    ASSUME NEW from \in Nat, TypeOK, pos <= Len(Ops), toDev = << >>, toHost' = << >>,
           from <= Size[Entry], sent' = from, chunk' = chunk, pos' = pos,
           cur = [entry |-> Entry, buf |-> Prefix(Entry, from)], cur' = cur,
           SendPiece(from)
    PROVE  /\ OneInFlight' /\ RequestInFlight' /\ StageInStep'
           /\ pc' \in {"MIDST_DATA", "END_DATA"}
<1>1. Entry \in Entries /\ Size[Entry] \in Nat /\ Entry' = Entry
  BY EntryType DEF TypeOK, Entry
<1>2. Smaller(sent' + chunk', Size[Entry']) = Reach(from)
  BY <1>1 DEF Reach
<1>3. CASE from < Size[Entry]
  <2>1. /\ pc' = "MIDST_DATA"
        /\ Len(toDev') = 1 /\ toDev' # << >>
        /\ toDev'[1] = MidstData(SubSeq(Image(Entry), from + 1, Reach(from)))
    BY <1>3, FirstFrame DEF SendPiece
  <2>2. RequestInFlight'
    <3>1. SubSeq(Image(Entry), from + 1, Reach(from))
             = SubSeq(Image(Entry'), sent' + 1, Smaller(sent' + chunk', Size[Entry']))
      BY <1>1, <1>2
    <3>2. toDev'[1].cmd = "MIDST_DATA"
      BY <2>1 DEF MidstData
    <3>3. toDev'[1].data = SubSeq(Image(Entry), from + 1, Reach(from))
      <4>1. \A d : MidstData(d).data = d
        BY DEF MidstData
      <4> QED
        BY <2>1, <4>1
    <3>4. toDev'[1].data = SubSeq(Image(Entry), sent + 1, Reach(sent))'
      BY <3>1, <3>3 DEF Reach
    <3> QED
      BY <2>1, <3>2, <3>4 DEF RequestInFlight
  <2> QED
    BY <1>1, <1>3, <2>1, <2>2 DEF OneInFlight, StageInStep, Acked
<1>4. CASE ~(from < Size[Entry])
  <2>1. from = Size[Entry] /\ Prefix(Entry, from) = Image(Entry)
    BY <1>1, <1>4, PrefixFacts
  <2>2. /\ pc' = "END_DATA"
        /\ Len(toDev') = 1 /\ toDev' # << >> /\ toDev'[1] = EndData
    BY <1>4, FirstFrame DEF SendPiece
  <2> QED
    BY <1>1, <2>1, <2>2 DEF OneInFlight, RequestInFlight, StageInStep, Acked, EndData
<1> QED
  BY <1>3, <1>4

LEMMA HostInv == PromptLink /\ PromptInv /\ (HostStep \/ PortFails) => PromptInv'
<1> SUFFICES ASSUME PromptLink, PromptInv, HostStep \/ PortFails PROVE PromptInv'
  OBVIOUS
<1> USE DEF hostVars, devVars
<1>1. /\ TypeOK /\ OneInFlight /\ RequestInFlight /\ StageInStep
      /\ BufferIsPrefix /\ WrittenSoFar /\ ResetIsLast
  BY DEF PromptInv
<1>2. TypeOK'
  BY <1>1, HostType
<1>3. TakeReply => toDev = << >> /\ toHost # << >> /\ toHost' = << >> /\ outcome = "running"
  BY <1>1, LastReply
<1>4. pos <= Len(Ops) => Entry \in Entries /\ Size[Entry] \in Nat
  BY <1>1, EntryType DEF TypeOK
<1>5. pc \in Awaiting => pos <= Len(Ops)
  BY <1>1 DEF TypeOK
<1>6. cur' = cur => BufferIsPrefix'
  BY <1>1 DEF BufferIsPrefix
<1>7. flash' = flash /\ pos' = pos /\ pc' \in StageSteps \cup {"CONNECT", "next", "reset"}
        => WrittenSoFar'
  BY <1>1 DEF WrittenSoFar, StageSteps
<1>8. outcome' = outcome /\ outcome # "ok" /\ pc' # "reset" /\ mode' = mode => ResetIsLast'
  BY <1>1 DEF ResetIsLast
<1>9. UNCHANGED <<pc, pos, sent, chunk, back, devVars>> /\ outcome # "ok" /\ outcome' = "err"
        /\ toDev' = toDev /\ (toHost' = toHost \/ toHost' = << >>)
        /\ pc \notin {"reset"}
        => PromptInv'
  BY <1>1, <1>2, <1>6
  DEF PromptInv, OneInFlight, RequestInFlight, StageInStep, WrittenSoFar, ResetIsLast,
      Acked, Entry, Reach
<1>10. CASE BeginStage
  <2>1. /\ toDev = << >> /\ toHost = << >> /\ toHost' = << >> /\ pc' = "START_DATA"
        /\ Entry' = Entry /\ sent' = 0 /\ Send(StartData(Entry))
        /\ UNCHANGED <<pos, outcome, devVars>> /\ outcome = "running"
    BY <1>1, <1>10 DEF BeginStage, OneInFlight, Entry
  <2>2. Len(toDev') = 1 /\ toDev' # << >> /\ toDev'[1] = StartData(Entry)
    BY <2>1, FirstFrame
  <2> QED
    BY <1>2, <1>6, <1>7, <1>8, <2>1, <2>2
    DEF PromptInv, OneInFlight, RequestInFlight, StageInStep, Acked, StartData, StageSteps
<1>11. CASE BeginErase
  <2>1. /\ toDev = << >> /\ toHost = << >> /\ toHost' = << >> /\ pc' = "ERASE_FLASH"
        /\ Entry' = Entry /\ Send(EraseFlash(Entry)) /\ Entry \in EraseSet
        /\ UNCHANGED <<pos, outcome, devVars>> /\ outcome = "running"
    BY <1>1, <1>11 DEF BeginErase, OneInFlight, Entry
  <2>2. Len(toDev') = 1 /\ toDev' # << >> /\ toDev'[1] = EraseFlash(Entry)
    BY <2>1, FirstFrame
  <2>3. WrittenSoFar'
    BY <1>1, <2>1 DEF WrittenSoFar, Acked
  <2> QED
    BY <1>2, <1>6, <1>8, <2>1, <2>2, <2>3
    DEF PromptInv, OneInFlight, RequestInFlight, StageInStep, Acked, EraseFlash
<1>12. CASE PayloadMissing
  BY <1>9, <1>12 DEF PayloadMissing
<1>13. CASE Finish
  <2>1. /\ toDev = << >> /\ toHost = << >> /\ toHost' = << >> /\ pc' = "reset"
        /\ pos = Len(Ops) + 1 /\ outcome' = "ok"
        /\ UNCHANGED <<pos, devVars>>
        /\ Send(NormalReset) \/ toDev' = toDev
    BY <1>1, <1>13 DEF Finish, OneInFlight, TypeOK
  <2>2. toDev' = << >> \/ (Len(toDev') = 1 /\ toDev' # << >> /\ toDev'[1] = NormalReset)
    BY <2>1, FirstFrame
  <2> QED
    BY <1>2, <1>6, <1>7, <2>1, <2>2
    DEF PromptInv, OneInFlight, RequestInFlight, StageInStep, ResetIsLast, Acked, NormalReset
<1>14. CASE AckStart
  <2>1. /\ pc = "START_DATA" /\ TakeReply /\ Acked /\ SendPiece(0)
        /\ UNCHANGED <<pos, sent, chunk, outcome, devVars>>
    BY <1>3, <1>14 DEF AckStart, Replied, Expected, Acked
  <2>2. pos <= Len(Ops) /\ sent = 0 /\ cur = [entry |-> Entry, buf |-> Prefix(Entry, 0)]
    BY <1>1, <1>4, <1>5, <2>1, PrefixFacts DEF StageInStep, Awaiting, StageSteps
  <2>3. OneInFlight' /\ RequestInFlight' /\ StageInStep' /\ pc' \in {"MIDST_DATA", "END_DATA"}
    BY <1>1, <1>3, <1>4, <2>1, <2>2, NextRequest
  <2> QED
    BY <1>2, <1>3, <1>6, <1>7, <1>8, <2>1, <2>3 DEF PromptInv, StageSteps
<1>15. CASE AckMidst
  <2>1. /\ pc = "MIDST_DATA" /\ TakeReply /\ Acked /\ SendPiece(Reach(sent))
        /\ sent' = Reach(sent)
        /\ UNCHANGED <<pos, chunk, outcome, devVars>>
    BY <1>3, <1>15 DEF AckMidst, Replied, Expected, Acked
  <2>2. pos <= Len(Ops) /\ cur = [entry |-> Entry, buf |-> Prefix(Entry, Reach(sent))]
    BY <1>1, <1>5, <2>1 DEF StageInStep, Awaiting, StageSteps
  <2>3. Reach(sent) \in Nat /\ Reach(sent) <= Size[Entry]
    BY <1>1, <2>2, PieceType DEF TypeOK
  <2>4. OneInFlight' /\ RequestInFlight' /\ StageInStep' /\ pc' \in {"MIDST_DATA", "END_DATA"}
    BY <1>1, <1>3, <2>1, <2>2, <2>3, NextRequest
  <2> QED
    BY <1>2, <1>3, <1>6, <1>7, <1>8, <2>1, <2>4 DEF PromptInv, StageSteps
<1>16. CASE AckEnd
  <2>1. /\ pc = "END_DATA" /\ TakeReply /\ Acked /\ UNCHANGED <<outcome, devVars>>
    BY <1>3, <1>16 DEF AckEnd, Replied, Expected, Acked
  <2>2. flash[Entry] = Image(Entry) /\ pos <= Len(Ops) /\ pos \in Nat
    BY <1>1, <1>5, <2>1 DEF StageInStep, Awaiting, StageSteps, TypeOK
  <2>3. CASE VerifyReadback /\ Entry \in PartitionSet
    <3>1. /\ pc' = "READ_FLASH" /\ pos' = pos /\ Entry' = Entry
          /\ Send(ReadFlash(Entry, 0, Smaller(ReadChunk, Size[Entry] - 0)))
      BY <1>16, <2>3 DEF AckEnd, SendRead, Entry
    <3>2. Len(toDev') = 1 /\ toDev' # << >> /\ toDev'[1].cmd = "READ_FLASH"
      BY <1>3, <2>1, <3>1, FirstFrame DEF ReadFlash
    <3>3. WrittenSoFar'
      BY <1>1, <2>1, <2>2, <3>1 DEF WrittenSoFar
    <3> QED
      BY <1>2, <1>3, <1>6, <1>8, <2>1, <3>1, <3>2, <3>3
      DEF PromptInv, OneInFlight, RequestInFlight, StageInStep
  <2>4. CASE ~(VerifyReadback /\ Entry \in PartitionSet)
    <3>1. pc' = "next" /\ pos' = pos + 1 /\ toDev' = << >> /\ toHost' = << >>
      BY <1>3, <1>16, <2>1, <2>4 DEF AckEnd
    <3>2. WrittenSoFar'
      BY <1>1, <2>1, <2>2, <3>1 DEF WrittenSoFar, Entry
    <3> QED
      BY <1>2, <1>3, <1>6, <1>8, <2>1, <3>1, <3>2
      DEF PromptInv, OneInFlight, RequestInFlight, StageInStep
  <2> QED
    BY <2>3, <2>4
<1>17. CASE AckConnect
  <2>1. /\ pc = "CONNECT" /\ TakeReply /\ sent' = sent /\ pc' = "START_DATA"
        /\ Send(StartData(Entry)) /\ Entry' = Entry
        /\ UNCHANGED <<pos, outcome, devVars>>
    BY <1>17 DEF AckConnect, Replied, Entry
  <2>2. Len(toDev') = 1 /\ toDev' # << >> /\ toDev'[1] = StartData(Entry) /\ sent = 0
    BY <1>1, <1>3, <2>1, FirstFrame DEF StageInStep
  <2> QED
    BY <1>2, <1>3, <1>6, <1>7, <1>8, <2>1, <2>2
    DEF PromptInv, OneInFlight, RequestInFlight, StageInStep, Acked, StartData, StageSteps
<1>18. CASE AckErase
  <2>1. /\ pc = "ERASE_FLASH" /\ TakeReply /\ Acked /\ pc' = "next" /\ pos' = pos + 1
        /\ UNCHANGED <<outcome, toDev, devVars>>
    BY <1>3, <1>18 DEF AckErase, Replied, Expected, Acked
  <2>2. flash[Entry] = Image(Entry) /\ pos \in Nat
    BY <1>1, <2>1 DEF WrittenSoFar, TypeOK
  <2>3. WrittenSoFar'
    BY <1>1, <2>1, <2>2 DEF WrittenSoFar, Entry
  <2> QED
    BY <1>2, <1>3, <1>6, <1>8, <2>1, <2>3
    DEF PromptInv, OneInFlight, RequestInFlight, StageInStep
<1>19. CASE DataRead
  <2>1. /\ pc = "READ_FLASH" /\ TakeReply /\ UNCHANGED devVars
        /\ flash[Entry] = Image(Entry) /\ pos \in Nat
    BY <1>1, <1>19 DEF DataRead, Replied, WrittenSoFar, TypeOK
  <2>2. CASE toHost[1].data # << >> /\ Len(back \o toHost[1].data) < Size[Entry]
    <3>1. /\ pc' = "READ_FLASH" /\ pos' = pos /\ Entry' = Entry /\ outcome' = outcome
          /\ \E off, n : Send(ReadFlash(Entry, off, n))
      BY <1>19, <2>2 DEF DataRead, SendRead, Entry
    <3>2. Len(toDev') = 1 /\ toDev' # << >> /\ toDev'[1].cmd = "READ_FLASH"
      BY <1>3, <2>1, <3>1, FirstFrame DEF ReadFlash
    <3>3. WrittenSoFar'
      BY <1>1, <2>1, <3>1 DEF WrittenSoFar
    <3> QED
      BY <1>2, <1>3, <1>6, <1>8, <2>1, <3>1, <3>2, <3>3
      DEF PromptInv, OneInFlight, RequestInFlight, StageInStep
  <2>3. CASE ~(toHost[1].data # << >> /\ Len(back \o toHost[1].data) < Size[Entry])
    <3>1. CASE pc' = "next" /\ pos' = pos + 1 /\ outcome' = outcome /\ toDev' = toDev
      <4>1. WrittenSoFar'
        BY <1>1, <2>1, <3>1 DEF WrittenSoFar, Entry
      <4> QED
        BY <1>2, <1>3, <1>6, <1>8, <2>1, <3>1, <4>1
        DEF PromptInv, OneInFlight, RequestInFlight, StageInStep
    <3>2. CASE outcome' = "err" /\ UNCHANGED <<pc, pos, toDev>>
      <4>1. WrittenSoFar' /\ ResetIsLast'
        BY <1>1, <1>3, <2>1, <3>2 DEF WrittenSoFar, ResetIsLast, Entry
      <4> QED
        BY <1>2, <1>3, <1>6, <2>1, <3>2, <4>1
        DEF PromptInv, OneInFlight, RequestInFlight, StageInStep
    <3> QED
      BY <1>19, <2>3, <3>1, <3>2 DEF DataRead
  <2> QED
    BY <2>2, <2>3
<1>20. CASE UnexpectedReply
  BY <1>3, <1>9, <1>20 DEF UnexpectedReply, Awaiting, StageSteps
<1>21. CASE RetryStage
  <2>1. /\ toDev = << >> /\ toHost = << >> /\ outcome = "running"
        /\ pc' = "CONNECT" /\ sent' = 0 /\ Send(Connect) /\ UNCHANGED <<pos, outcome, devVars>>
    BY <1>21 DEF RetryStage, Retry, TimedOut, PromptLink
  <2>2. toHost' = << >>
    <3>1. PICK purged \in 0 .. 0 : toHost' = SubSeq(toHost, purged + 1, 0)
      BY <1>21, <2>1 DEF RetryStage, Retry
    <3> QED
      BY <3>1, SubSeqEmpty
  <2>3. Len(toDev') = 1 /\ toDev' # << >> /\ toDev'[1] = Connect
    BY <2>1, FirstFrame
  <2> QED
    BY <1>2, <1>6, <1>7, <1>8, <2>1, <2>2, <2>3
    DEF PromptInv, OneInFlight, RequestInFlight, StageInStep, Connect
<1>22. CASE TimeoutFails
  BY <1>9, <1>22 DEF TimeoutFails, TimedOut, Awaiting, StageSteps
<1>23. CASE PortFails
  BY <1>1, <1>9, <1>23 DEF PortFails, ResetIsLast
<1> QED
  BY <1>10, <1>11, <1>12, <1>13, <1>14, <1>15, <1>16, <1>17, <1>18, <1>19, <1>20, <1>21,
     <1>22, <1>23 DEF HostStep

\* A device step consumes the one frame under way; its answer is all that remains.
LEMMA OnlyRequest ==
    ASSUME TypeOK, OneInFlight, NEW cmd, Receive(cmd)
    PROVE  /\ toDev # << >> /\ toDev' = << >> /\ toHost = << >>
           /\ toDev[1].cmd = cmd /\ mode = "fdl2"
           /\ UNCHANGED <<pc, pos, sent, chunk, back, outcome>>
           /\ \A r : Answer(r) => Len(toHost') = 1 /\ toHost'[1] = r
<1>1. /\ toDev # << >> /\ toDev' = Tail(toDev) /\ toDev[1].cmd = cmd /\ mode = "fdl2"
      /\ UNCHANGED <<pc, pos, sent, chunk, back, outcome>>
  BY DEF Receive, hostVars
<1>2. Len(toDev) = 1 /\ toHost = << >>
  BY <1>1 DEF OneInFlight
<1>3. toDev' = << >>
  BY <1>1, <1>2 DEF TypeOK
<1>4. \A r : Answer(r) => Len(toHost') = 1 /\ toHost'[1] = r
  BY <1>2 DEF Answer
<1> QED
  BY <1>1, <1>2, <1>3, <1>4

\* An answer to a command that leaves the stage's bookkeeping alone.
LEMMA AnsweredInv ==
    ASSUME TypeOK, TypeOK', PromptInv, pc \in Awaiting,
           toDev' = << >>, Len(toHost') = 1,
           UNCHANGED <<pc, pos, sent, chunk, back, outcome, mode>>
    PROVE  /\ OneInFlight' /\ RequestInFlight' /\ ResetIsLast'
           /\ (cur' = cur => BufferIsPrefix')
           /\ (flash' = flash /\ pc # "ERASE_FLASH" => WrittenSoFar')
           /\ (pc \in {"CONNECT", "ERASE_FLASH", "READ_FLASH"} => StageInStep')
<1>1. /\ OneInFlight /\ RequestInFlight /\ StageInStep
      /\ BufferIsPrefix /\ WrittenSoFar /\ ResetIsLast
  BY DEF PromptInv
<1>2. OneInFlight' /\ RequestInFlight'
  BY DEF OneInFlight, RequestInFlight, Awaiting, StageSteps
<1>3. ResetIsLast' /\ (cur' = cur => BufferIsPrefix')
  BY <1>1 DEF ResetIsLast, BufferIsPrefix
<1>4. flash' = flash /\ pc # "ERASE_FLASH" => WrittenSoFar'
  BY <1>1 DEF WrittenSoFar, Entry
<1>5. pc \in {"CONNECT", "ERASE_FLASH", "READ_FLASH"} => StageInStep'
  BY <1>1 DEF StageInStep
<1> QED
  BY <1>2, <1>3, <1>4, <1>5

LEMMA DeviceInv == PromptLink /\ PromptInv /\ DeviceStep => PromptInv'
<1> SUFFICES ASSUME PromptLink, PromptInv, DeviceStep PROVE PromptInv'
  OBVIOUS
<1> USE DEF devVars
<1>1. /\ TypeOK /\ OneInFlight /\ RequestInFlight /\ StageInStep
      /\ BufferIsPrefix /\ WrittenSoFar /\ ResetIsLast
  BY DEF PromptInv
<1>2. TypeOK'
  BY <1>1, DeviceType
<1>3. pos <= Len(Ops) => Entry \in Entries /\ Size[Entry] \in Nat
  BY <1>1, EntryType DEF TypeOK
<1>4. pc \in Awaiting => pos <= Len(Ops)
  BY <1>1 DEF TypeOK
<1>5. ASSUME NEW cmd, Receive(cmd), cmd # "NORMAL_RESET"
      PROVE  pc = cmd /\ pc \in Awaiting
  <2>1. toDev # << >> /\ toDev[1].cmd = cmd /\ toHost = << >>
    BY <1>1, <1>5, OnlyRequest
  <2>2. pc # "reset" /\ pc = cmd
    BY <1>1, <1>5, <2>1 DEF RequestInFlight
  <2>3. pc # "next"
    BY <1>1, <2>1 DEF OneInFlight
  <2> QED
    BY <1>1, <2>2, <2>3 DEF TypeOK
<1>6. \A i \in 1 .. pos - 1 :
        pos <= Len(Ops) =>
            Ops[i] # Entry /\ (Kept(Ops[i]) => <<Entry, Ops[i]>> \notin Overlaps)
  BY <1>1, OpsAssumption DEF TypeOK, Entry, Kept
<1>7. Ack.rep = "ACK" /\ Failed.rep = "OPERATION_FAILED"
  BY DEF Ack, Failed
<1>8. CASE DevConnect
  <2>1. Receive("CONNECT") /\ Answer(Ack) /\ UNCHANGED <<cur, flash, mode>>
    BY <1>8 DEF DevConnect
  <2>2. /\ toDev' = << >> /\ Len(toHost') = 1 /\ pc = "CONNECT" /\ pc \in Awaiting
        /\ UNCHANGED <<pc, pos, sent, chunk, back, outcome>>
    BY <1>1, <1>5, <2>1, OnlyRequest
  <2> QED
    BY <1>1, <1>2, <2>1, <2>2, AnsweredInv DEF PromptInv
<1>9. CASE DevStart
  <2>1. /\ Receive("START_DATA") /\ Answer(Ack) /\ UNCHANGED <<flash, mode>>
        /\ cur' = [entry |-> toDev[1].entry, buf |-> << >>]
    BY <1>9 DEF DevStart
  <2>2. /\ toDev' = << >> /\ Len(toHost') = 1 /\ pc = "START_DATA" /\ pc \in Awaiting
        /\ UNCHANGED <<pc, pos, sent, chunk, back, outcome>> /\ toDev # << >>
    BY <1>1, <1>5, <2>1, OnlyRequest
  <2>3. cur' = [entry |-> Entry, buf |-> << >>] /\ Entry' = Entry
    BY <1>1, <2>1, <2>2 DEF RequestInFlight, Entry
  <2>4. StageInStep'
    BY <1>1, <2>2, <2>3 DEF StageInStep, Acked
  <2>5. BufferIsPrefix'
    <3>1. Entry \in Entries /\ Size[Entry] \in Nat /\ Prefix(Entry, 0) = << >>
      BY <1>3, <1>4, <2>2, PrefixFacts
    <3> QED
      BY <2>3, <3>1 DEF BufferIsPrefix
  <2> QED
    BY <1>1, <1>2, <2>1, <2>2, <2>4, <2>5, AnsweredInv DEF PromptInv
<1>10. CASE DevMidst
  <2>1. /\ Receive("MIDST_DATA") /\ Answer(Ack) /\ UNCHANGED <<flash, mode>>
        /\ cur' = IF cur = NoWrite THEN NoWrite
                  ELSE [cur EXCEPT !.buf = @ \o toDev[1].data]
    BY <1>10 DEF DevMidst
  <2>2. /\ toDev' = << >> /\ Len(toHost') = 1 /\ pc = "MIDST_DATA" /\ pc \in Awaiting
        /\ UNCHANGED <<pc, pos, sent, chunk, back, outcome>> /\ toDev # << >>
    BY <1>1, <1>5, <2>1, OnlyRequest
  <2>3. /\ Entry \in Entries /\ Size[Entry] \in Nat /\ sent \in Nat /\ sent < Size[Entry]
        /\ Reach(sent) \in Nat /\ Reach(sent) <= Size[Entry] /\ sent < Reach(sent)
    BY <1>1, <1>3, <1>4, <2>2, PieceType DEF StageInStep, TypeOK
  <2>4. /\ cur = [entry |-> Entry, buf |-> Prefix(Entry, sent)]
        /\ toDev[1].data = SubSeq(Image(Entry), sent + 1, Reach(sent))
    BY <1>1, <2>2 DEF StageInStep, RequestInFlight
  <2>5. cur # NoWrite
    BY <2>3, <2>4, OpsAssumption DEF NoWrite
  <2>6. Prefix(Entry, sent) \o toDev[1].data = Prefix(Entry, Reach(sent))
    <3> DEFINE e == Entry
               m == sent
               n == Reach(sent)
    <3>1. e \in Entries /\ m \in Nat /\ n \in Nat /\ m <= n /\ n <= Size[e]
      BY <2>3
    <3>2. Prefix(e, m) \o SubSeq(Image(e), m + 1, n) = Prefix(e, n)
      <4> HIDE DEF e, m, n
      <4> QED
        BY <3>1, PrefixFacts
    <3> QED
      BY <2>4, <3>2
  <2>7. cur' = [entry |-> Entry, buf |-> Prefix(Entry, Reach(sent))]
    <3>1. cur' = [entry |-> Entry, buf |-> Prefix(Entry, sent) \o toDev[1].data]
      BY <2>1, <2>4, <2>5
    <3> QED
      BY <2>6, <3>1
  <2>8. StageInStep'
    <3>1. Entry' = Entry /\ Smaller(sent' + chunk', Size[Entry']) = Reach(sent)
      BY <2>2 DEF Entry, Reach
    <3>2. Reach(sent)' = Reach(sent)
      BY <3>1 DEF Reach
    <3> QED
      BY <1>1, <2>2, <2>3, <2>7, <3>1, <3>2 DEF StageInStep, Acked
  <2>9. BufferIsPrefix'
    BY <2>3, <2>7 DEF BufferIsPrefix
  <2> QED
    BY <1>1, <1>2, <2>1, <2>2, <2>8, <2>9, AnsweredInv DEF PromptInv
<1>11. CASE DevEnd
  <2>1. Receive("END_DATA") /\ cur' = NoWrite /\ mode' = mode
    BY <1>11 DEF DevEnd
  <2>2. /\ toDev' = << >> /\ pc = "END_DATA" /\ pc \in Awaiting
        /\ UNCHANGED <<pc, pos, sent, chunk, back, outcome>> /\ toDev # << >>
        /\ \A r : Answer(r) => Len(toHost') = 1 /\ toHost'[1] = r
    BY <1>1, <1>5, <2>1, OnlyRequest
  <2>3. Entry \in Entries /\ cur = [entry |-> Entry, buf |-> Image(Entry)] /\ Entry' = Entry
    BY <1>1, <1>3, <1>4, <2>2 DEF StageInStep, Entry
  <2>4. cur # NoWrite /\ ~NvCrcWrong
    BY <2>3, OpsAssumption DEF NoWrite, NvCrcWrong, Image
  <2>5. /\ Put(Entry, Image(Entry))
        /\ Len(toHost') = 1 /\ toHost'[1] = Ack
    BY <1>11, <2>2, <2>3, <2>4 DEF DevEnd
  <2>6. /\ flash'[Entry] = Image(Entry)
        /\ \A e \in Entries : e # Entry /\ <<Entry, e>> \notin Overlaps => flash'[e] = flash[e]
    BY <1>1, <2>3, <2>5, ImageType, PutFacts
  <2>7. StageInStep'
    BY <1>1, <2>2, <2>3, <2>6 DEF StageInStep
  <2>8. WrittenSoFar'
    <3>1. \A i \in 1 .. pos - 1 :
            /\ Ops[i] \in Entries /\ Ops[i] # Entry
            /\ Kept(Ops[i]) => <<Entry, Ops[i]>> \notin Overlaps
      BY <1>1, <1>4, <1>6, <2>2 DEF Entries, TypeOK
    <3> QED
      BY <1>1, <2>2, <2>6, <3>1 DEF WrittenSoFar
  <2>9. BufferIsPrefix'
    BY <2>1 DEF BufferIsPrefix
  <2> QED
    BY <1>1, <1>2, <2>1, <2>2, <2>5, <2>7, <2>8, <2>9, AnsweredInv DEF PromptInv
<1>12. CASE DevEndBadCell
  BY <1>12 DEF DevEndBadCell, PromptLink
<1>13. CASE DevErase
  <2>1. /\ Receive("ERASE_FLASH") /\ Answer(Ack) /\ UNCHANGED <<cur, mode>>
        /\ Put(toDev[1].entry, << >>)
    BY <1>13 DEF DevErase
  <2>2. /\ toDev' = << >> /\ Len(toHost') = 1 /\ pc = "ERASE_FLASH" /\ pc \in Awaiting
        /\ UNCHANGED <<pc, pos, sent, chunk, back, outcome>> /\ toDev # << >>
    BY <1>1, <1>5, <2>1, OnlyRequest
  <2>3. Entry \in Entries /\ toDev[1].entry = Entry /\ Image(Entry) = << >> /\ Entry' = Entry
    BY <1>1, <1>3, <1>4, <2>2, ErasedImage DEF RequestInFlight, WrittenSoFar, Entry
  <2>4. /\ flash'[Entry] = Image(Entry)
        /\ \A e \in Entries : e # Entry /\ <<Entry, e>> \notin Overlaps => flash'[e] = flash[e]
    BY <1>1, <2>1, <2>3, EmptyType, PutFacts
  <2>5. WrittenSoFar'
    <3>1. \A i \in 1 .. pos - 1 :
            /\ Ops[i] \in Entries /\ Ops[i] # Entry
            /\ Kept(Ops[i]) => <<Entry, Ops[i]>> \notin Overlaps
      BY <1>1, <1>4, <1>6, <2>2 DEF Entries, TypeOK
    <3> QED
      BY <1>1, <2>2, <2>3, <2>4, <3>1 DEF WrittenSoFar
  <2> QED
    BY <1>1, <1>2, <2>1, <2>2, <2>5, AnsweredInv DEF PromptInv
<1>14. CASE DevRead
  <2>1. /\ Receive("READ_FLASH") /\ UNCHANGED <<cur, flash, mode>> /\ \E r : Answer(r)
    BY <1>14 DEF DevRead
  <2>2. /\ toDev' = << >> /\ Len(toHost') = 1 /\ pc = "READ_FLASH" /\ pc \in Awaiting
        /\ UNCHANGED <<pc, pos, sent, chunk, back, outcome>>
    BY <1>1, <1>5, <2>1, OnlyRequest
  <2> QED
    BY <1>1, <1>2, <2>1, <2>2, AnsweredInv DEF PromptInv
<1>15. CASE DevReset
  <2>1. Receive("NORMAL_RESET") /\ mode' = "booted" /\ UNCHANGED <<cur, flash, toHost>>
    BY <1>15 DEF DevReset
  <2>2. /\ toDev' = << >> /\ toHost' = << >> /\ toDev # << >> /\ toDev[1].cmd = "NORMAL_RESET"
        /\ UNCHANGED <<pc, pos, sent, chunk, back, outcome>>
    BY <1>1, <2>1, OnlyRequest
  <2>3. pc = "reset"
    BY <1>1, <2>2 DEF RequestInFlight, TypeOK, Awaiting, StageSteps
  <2> QED
    BY <1>1, <1>2, <2>1, <2>2, <2>3
    DEF PromptInv, OneInFlight, RequestInFlight, StageInStep, BufferIsPrefix, WrittenSoFar,
        ResetIsLast
<1>16. CASE DevRefuse
  <2> DEFINE cmd == toDev[1].cmd
  <2>1. Receive(cmd) /\ cmd # "NORMAL_RESET" /\ Answer(Failed) /\ UNCHANGED <<cur, flash, mode>>
    BY <1>16 DEF DevRefuse
  <2>2. /\ toDev' = << >> /\ Len(toHost') = 1 /\ toHost'[1] = Failed /\ pc \in Awaiting
        /\ UNCHANGED <<pc, pos, sent, chunk, back, outcome>>
    <3> HIDE DEF cmd
    <3> QED
      BY <1>1, <1>5, <2>1, OnlyRequest
  <2>3. ~Acked' /\ Entry' = Entry
    BY <1>7, <2>2 DEF Acked, Entry
  <2>4. WrittenSoFar' /\ StageInStep'
    BY <1>1, <2>1, <2>2, <2>3 DEF WrittenSoFar, StageInStep
  <2> QED
    BY <1>1, <1>2, <2>1, <2>2, <2>4, AnsweredInv DEF PromptInv
<1> QED
  BY <1>8, <1>9, <1>10, <1>11, <1>12, <1>13, <1>14, <1>15, <1>16 DEF DeviceStep

LEMMA StepInv == PromptLink /\ PromptInv /\ [Next]_vars => PromptInv'
<1> SUFFICES ASSUME PromptLink, PromptInv, [Next]_vars PROVE PromptInv'
  OBVIOUS
<1> USE DEF hostVars, devVars
<1>1. /\ TypeOK /\ OneInFlight /\ RequestInFlight /\ StageInStep
      /\ BufferIsPrefix /\ WrittenSoFar /\ ResetIsLast
  BY DEF PromptInv
<1>2. TypeOK'
  BY <1>1, StepType
<1>3. CASE LoseFrame
  <2>1. /\ toDev' = << >> /\ UNCHANGED <<pc, pos, sent, chunk, back, outcome, toHost>>
        /\ UNCHANGED <<cur, flash, mode>>
    BY <1>1, <1>3 DEF LoseFrame, OneInFlight, TypeOK
  <2> QED
    BY <1>1, <1>2, <2>1
    DEF PromptInv, OneInFlight, RequestInFlight, StageInStep, BufferIsPrefix, WrittenSoFar,
        ResetIsLast, Acked, Entry, Reach
<1>4. CASE LoseReply
  <2>1. /\ toHost' = << >> /\ UNCHANGED <<pc, pos, sent, chunk, back, outcome, toDev>>
        /\ UNCHANGED <<cur, flash, mode>>
    BY <1>1, <1>4 DEF LoseReply, OneInFlight, TypeOK
  <2> QED
    BY <1>1, <1>2, <2>1
    DEF PromptInv, OneInFlight, RequestInFlight, StageInStep, BufferIsPrefix, WrittenSoFar,
        ResetIsLast, Acked, Entry, Reach
<1>5. CASE Terminated \/ UNCHANGED vars
  BY <1>1, <1>2, <1>5
  DEF Terminated, vars, PromptInv, OneInFlight, RequestInFlight, StageInStep, BufferIsPrefix,
      WrittenSoFar, ResetIsLast, Acked, Entry, Reach
<1> QED
  BY <1>3, <1>4, <1>5, HostInv, DeviceInv DEF Next

\* On a prompt link host and device stay in step.
THEOREM PromptInvariant == PromptLink => (Spec => []PromptInv)
<1> SUFFICES ASSUME PromptLink PROVE Spec => []PromptInv
  OBVIOUS
<1>1. Init => PromptInv
  BY InitInv
<1>2. PromptInv /\ [Next]_vars => PromptInv'
  BY StepInv
<1> QED
  BY <1>1, <1>2, PTL DEF Spec

LEMMA WrittenHolds ==
    ASSUME TypeOK, NEW e \in Entries, flash[e] = Image(e)
    PROVE  Holds(e)
<1>1. CASE e \in EraseSet
  BY <1>1, ErasedImage DEF Holds
<1>2. CASE e \notin EraseSet
  BY <1>2, PrefixFacts, ImageType, SizeAssumption DEF Holds, Prefix
<1> QED
  BY <1>1, <1>2

LEMMA ResetAllWritten ==
    ASSUME PromptInv, pc = "reset"
    PROVE  AllWritten /\ \A e \in Entries : Kept(e) => Holds(e)
<1>1. TypeOK /\ WrittenSoFar /\ pos = Len(Ops) + 1
  BY DEF PromptInv, ResetIsLast
<1>2. AllWritten
  <2> SUFFICES ASSUME NEW i \in DOMAIN Ops, Kept(Ops[i])
               PROVE  flash[Ops[i]] = Image(Ops[i])
    BY DEF AllWritten
  <2>1. i \in 1 .. pos - 1
    BY <1>1, OpsAssumption
  <2> QED
    BY <1>1, <2>1 DEF WrittenSoFar
<1>3. \A e \in Entries : Kept(e) => flash[e] = Image(e)
  BY <1>2 DEF AllWritten, Entries
<1> QED
  BY <1>1, <1>2, <1>3, WrittenHolds

\* On a prompt link Ok means that everything the job asked for is in the flash,
\* whatever was lost, refused or retried on the way.
THEOREM OkIsFlashed == PromptLink => (Spec => []OkMeansFlashed)
<1>1. PromptInv => OkMeansFlashed
  BY ResetAllWritten DEF OkMeansFlashed, PromptInv, ResetIsLast
<1> QED
  BY <1>1, PromptInvariant, PTL

\* On a prompt link only a completely flashed module is rebooted.
THEOREM BootIsFlashed == PromptLink => (Spec => []BootsOnlyFlashed)
<1>1. PromptInv => BootsOnlyFlashed
  BY ResetAllWritten DEF BootsOnlyFlashed, PromptInv, ResetIsLast
<1> QED
  BY <1>1, PromptInvariant, PTL

\* On a prompt link a restarted stage never leaves a gap or a repetition in the
\* device's buffer.
THEOREM BufferPrefix == PromptLink => (Spec => []BufferIsPrefix)
<1>1. PromptInv => BufferIsPrefix
  BY DEF PromptInv
<1> QED
  BY <1>1, PromptInvariant, PTL

----
(***************************************************************************)
(* The session implements the flash job.                                   *)
(***************************************************************************)
Good == [e \in Entries |-> Holds(e)]

LEMMA GoodType == Good \in [Entries -> BOOLEAN] /\ \A e \in Entries : Good[e] = Holds(e)
<1>1. \A e \in Entries : Holds(e) \in BOOLEAN
  BY DEF Holds
<1> QED
  BY <1>1 DEF Good

LEMMA InitRefines == Init => Job!Init
<1> SUFFICES ASSUME Init PROVE Job!Init
  OBVIOUS
<1>1. pos - 1 = 0 /\ outcome = "running" /\ (mode = "booted") = FALSE
  BY DEF Init
<1>2. Good \in [Job!Entries -> BOOLEAN]
  BY GoodType DEF Job!Entries, Entries
<1> QED
  BY <1>1, <1>2 DEF Job!Init, Good

\* What a step may do to the flash, the host's position, the outcome and the mode:
\* rewrite the current entry, confirm what the flash holds, succeed after the last, fail,
\* reboot after success, or nothing.
Rewrites ==
    /\ pos <= Len(Ops) /\ outcome # "ok"
    /\ UNCHANGED <<pos, outcome, mode>>
    /\ \A e \in Entries : e # Entry /\ <<Entry, e>> \notin Overlaps => flash'[e] = flash[e]

Confirms ==
    /\ pos <= Len(Ops) /\ outcome = "running" /\ pos' = pos + 1
    /\ flash[Entry] = Image(Entry)
    /\ UNCHANGED <<outcome, mode, flash>>

Succeeds ==
    /\ pos = Len(Ops) + 1 /\ outcome = "running" /\ outcome' = "ok"
    /\ UNCHANGED <<pos, mode, flash>>

Fails ==
    /\ outcome = "running" /\ outcome' = "err"
    /\ UNCHANGED <<pos, mode, flash>>

Reboots ==
    /\ outcome = "ok" /\ mode' = "booted"
    /\ UNCHANGED <<pos, outcome, flash>>

Stutters == UNCHANGED <<pos, outcome, mode, flash>>

LEMMA StepShape ==
    PromptLink /\ PromptInv /\ [Next]_vars
        => Rewrites \/ Confirms \/ Succeeds \/ Fails \/ Reboots \/ Stutters
<1> SUFFICES ASSUME PromptLink, PromptInv, [Next]_vars
             PROVE  Rewrites \/ Confirms \/ Succeeds \/ Fails \/ Reboots \/ Stutters
  OBVIOUS
<1> USE DEF hostVars, devVars
<1>1. /\ TypeOK /\ OneInFlight /\ RequestInFlight /\ StageInStep /\ WrittenSoFar /\ ResetIsLast
  BY DEF PromptInv
<1>2. pc \in Awaiting => pos <= Len(Ops)
  BY <1>1 DEF TypeOK
<1>3. CASE BeginStage \/ BeginErase \/ AckStart \/ AckMidst \/ AckConnect \/ RetryStage
  BY <1>3 DEF BeginStage, BeginErase, AckStart, AckMidst, AckConnect, RetryStage, Retry, Stutters
<1>4. CASE PayloadMissing \/ UnexpectedReply \/ TimeoutFails \/ PortFails
  BY <1>2, <1>4
  DEF PayloadMissing, UnexpectedReply, TimeoutFails, PortFails, TimedOut, TakeReply, Fails
<1>5. CASE Finish
  BY <1>1, <1>5 DEF Finish, Succeeds, TypeOK
<1>6. CASE AckEnd
  <2>1. pc = "END_DATA" /\ Acked
    BY <1>6 DEF AckEnd, Replied, TakeReply, Expected, Acked
  <2>2. flash[Entry] = Image(Entry)
    BY <1>1, <2>1 DEF StageInStep
  <2> QED
    BY <1>2, <1>6, <2>2
    DEF AckEnd, Replied, TakeReply, Awaiting, StageSteps, SendRead, Confirms, Stutters
<1>7. CASE AckErase
  <2>1. pc = "ERASE_FLASH" /\ Acked
    BY <1>7 DEF AckErase, Replied, TakeReply, Expected, Acked
  <2>2. flash[Entry] = Image(Entry)
    BY <1>1, <2>1 DEF WrittenSoFar
  <2> QED
    BY <1>2, <1>7, <2>2 DEF AckErase, Replied, TakeReply, Awaiting, Confirms
<1>8. CASE DataRead
  <2>1. flash[Entry] = Image(Entry)
    BY <1>1, <1>8 DEF DataRead, Replied, WrittenSoFar
  <2> QED
    BY <1>2, <1>8, <2>1
    DEF DataRead, Replied, TakeReply, Awaiting, SendRead, Confirms, Fails, Stutters
<1>9. CASE DevConnect \/ DevStart \/ DevMidst \/ DevRead \/ DevRefuse
  BY <1>9 DEF DevConnect, DevStart, DevMidst, DevRead, DevRefuse, Receive, Stutters
<1>10. CASE DevEnd
  <2>1. Receive("END_DATA") /\ UNCHANGED mode
    BY <1>10 DEF DevEnd
  <2>2. /\ toDev # << >> /\ toDev[1].cmd = "END_DATA"
        /\ UNCHANGED <<pc, pos, sent, chunk, back, outcome>>
    BY <1>1, <2>1, OnlyRequest
  <2>3. pc = "END_DATA" /\ outcome # "ok" /\ pos <= Len(Ops)
    BY <1>1, <1>2, <2>2 DEF RequestInFlight, ResetIsLast, Awaiting, StageSteps
  <2>4. cur.entry = Entry /\ Entry \in Entries
    BY <1>1, <2>2, <2>3, EntryType DEF StageInStep, TypeOK
  <2>5. \A e \in Entries : e # Entry /\ <<Entry, e>> \notin Overlaps => flash'[e] = flash[e]
    BY <1>1, <1>10, <2>4, PutFacts DEF DevEnd, TypeOK
  <2> QED
    BY <2>1, <2>2, <2>3, <2>5 DEF Rewrites
<1>11. CASE DevEndBadCell
  BY <1>11 DEF DevEndBadCell, PromptLink
<1>12. CASE DevErase
  <2>1. Receive("ERASE_FLASH") /\ UNCHANGED mode
    BY <1>12 DEF DevErase
  <2>2. /\ toDev # << >> /\ toDev[1].cmd = "ERASE_FLASH"
        /\ UNCHANGED <<pc, pos, sent, chunk, back, outcome>>
    BY <1>1, <2>1, OnlyRequest
  <2>3. pc = "ERASE_FLASH" /\ outcome # "ok" /\ pos <= Len(Ops) /\ toDev[1].entry = Entry
    BY <1>1, <1>2, <2>2 DEF RequestInFlight, ResetIsLast, Awaiting
  <2>4. \A e \in Entries : e # Entry /\ <<Entry, e>> \notin Overlaps => flash'[e] = flash[e]
    <3>1. Entry \in Entries
      BY <1>1, <2>3, EntryType DEF TypeOK
    <3>2. Put(Entry, << >>)
      BY <1>12, <2>3 DEF DevErase
    <3> QED
      BY <1>1, <3>1, <3>2, EmptyType, PutFacts
  <2> QED
    BY <2>1, <2>2, <2>3, <2>4 DEF Rewrites
<1>13. CASE DevReset
  <2>1. Receive("NORMAL_RESET") /\ mode' = "booted" /\ UNCHANGED flash
    BY <1>13 DEF DevReset
  <2>2. /\ toDev # << >> /\ toDev[1].cmd = "NORMAL_RESET"
        /\ UNCHANGED <<pc, pos, sent, chunk, back, outcome>>
    BY <1>1, <2>1, OnlyRequest
  <2>3. outcome = "ok"
    BY <1>1, <2>2 DEF RequestInFlight, TypeOK, Awaiting, StageSteps, ResetIsLast
  <2> QED
    BY <2>1, <2>2, <2>3 DEF Reboots
<1>14. CASE LoseFrame \/ LoseReply \/ Terminated \/ UNCHANGED vars
  BY <1>14 DEF LoseFrame, LoseReply, Terminated, vars, Stutters
<1> QED
  BY <1>3, <1>4, <1>5, <1>6, <1>7, <1>8, <1>9, <1>10, <1>11, <1>12, <1>13, <1>14
  DEF Next, HostStep, DeviceStep

LEMMA StepRefines ==
    PromptLink /\ PromptInv /\ PromptInv' /\ [Next]_vars => [Job!Next]_(Job!jobVars)
<1> SUFFICES ASSUME PromptLink, PromptInv, PromptInv', [Next]_vars
             PROVE  [Job!Next]_(Job!jobVars)
  OBVIOUS
<1>1. TypeOK /\ TypeOK' /\ WrittenSoFar' /\ pos \in Nat \ {0} /\ Len(Ops) \in Nat
  BY OpsAssumption DEF PromptInv, TypeOK
<1>2. pos <= Len(Ops) => Entry \in Entries /\ Ops[pos - 1 + 1] = Entry
  BY <1>1, EntryType DEF TypeOK, Entry
<1>3. /\ Good \in [Entries -> BOOLEAN] /\ \A e \in Entries : Good[e] = Holds(e)
      /\ Good' \in [Entries -> BOOLEAN] /\ \A e \in Entries : Good'[e] = Holds(e)'
  <2>1. \A e \in Entries : Holds(e)' \in BOOLEAN
    BY DEF Holds
  <2> QED
    BY <2>1, GoodType DEF Good
<1>4. \A e \in Entries : flash'[e] = flash[e] => Good'[e] = Good[e]
  BY <1>3 DEF Holds
<1>5. flash' = flash => Good' = Good
  BY <1>3, <1>4
<1>6. CASE Rewrites
  <2>1. Job!Entries = Entries /\ Job!Current = Entry
    BY <1>1, <1>2, <1>6 DEF Rewrites, Job!Entries, Entries, Job!Current
  <2>2. \A e \in Entries \ {Entry} : <<Entry, e>> \notin Overlaps => Good'[e] = Good[e]
    BY <1>4, <1>6 DEF Rewrites
  <2>3. Job!Write
    <3>1. /\ pos - 1 < Len(Ops) /\ (pos - 1)' = pos - 1
          /\ (mode = "booted")' = (mode = "booted")
      BY <1>1, <1>6 DEF Rewrites
    <3> QED
      BY <1>3, <1>6, <2>1, <2>2, <3>1 DEF Rewrites, Job!Write, Good
  <2> QED
    BY <2>3 DEF Job!Next
<1>7. CASE Confirms
  <2>1. Good[Job!Current]
    BY <1>1, <1>2, <1>3, <1>7, WrittenHolds DEF Confirms, Job!Current
  <2>2. Job!Confirm
    BY <1>1, <1>5, <1>7, <2>1 DEF Confirms, Job!Confirm, Good
  <2> QED
    BY <2>2 DEF Job!Next
<1>8. CASE Succeeds
  BY <1>1, <1>5, <1>8 DEF Succeeds, Job!Succeed, Job!Next, Good
<1>9. CASE Fails
  BY <1>1, <1>5, <1>9 DEF Fails, Job!Fail, Job!Next, Good
<1>10. CASE Reboots
  BY <1>5, <1>10 DEF Reboots, Job!Reboot, Job!Next, Good
<1>11. CASE Stutters
  BY <1>5, <1>11 DEF Stutters, Job!jobVars, Good
<1> QED
  BY <1>6, <1>7, <1>8, <1>9, <1>10, <1>11, StepShape

\* On a prompt link the session, with its chunks, retries, refusals and losses, is
\* the simple flash job its caller sees.
THEOREM SessionIsFlashJob == PromptLink => (Spec => IsFlashJob)
<1> SUFFICES ASSUME PromptLink PROVE Spec => IsFlashJob
  OBVIOUS
<1>1. Init => Job!Init
  BY InitRefines
<1>2. PromptInv /\ PromptInv' /\ [Next]_vars => [Job!Next]_(Job!jobVars)
  BY StepRefines
<1>3. Spec => []PromptInv
  BY PromptInvariant
<1> QED
  BY <1>1, <1>2, <1>3, PTL DEF Spec, IsFlashJob, Job!Spec

----
(***************************************************************************)
(* The read-back.  The link may be late and the flash bad: what the host   *)
(* believes of the device is then worth nothing until it has read.         *)
(***************************************************************************)

\* The partitions that have been read back.
ReadBack == {Ops[i] : i \in 1 .. pos - 1} \cap PartitionSet

NoAck == \A i \in DOMAIN toHost : toHost[i].rep # "ACK"
LastAck == \A i \in DOMAIN toHost : toHost[i].rep = "ACK" => i = Len(toHost)

\* Before a START_DATA of the current stage has reached the device, the host cannot
\* have come past it: nobody has sent an ACK that it could take for another.
BeforeStart ==
    /\ pc \notin {"MIDST_DATA", "END_DATA", "READ_FLASH"}
    /\ \A i \in DOMAIN toDev : toDev[i].cmd # "END_DATA"
    /\ pc = "next" => toDev = << >> /\ toHost = << >>
    /\ pc = "START_DATA" => toDev \in {<< >>, <<StartData(Entry)>>} /\ NoAck
    /\ pc = "CONNECT" =>
          \/ toDev = << >> /\ LastAck
          \/ toDev \in {<<Connect>>, <<StartData(Entry), Connect>>} /\ NoAck
    /\ pc = "ERASE_FLASH" =>
          \/ toDev = << >> /\ LastAck
          \/ toDev = <<EraseFlash(Entry)>> /\ NoAck

\* The device never holds a write to a partition that has been read back when an
\* END_DATA can reach it, and no frame under way begins or erases one.
WritesAreSafe == cur # NoWrite /\ cur.entry \in ReadBack => BeforeStart
SafeFrame(f) ==
    /\ f.cmd = "START_DATA" => f.entry \notin ReadBack
    /\ f.cmd = "ERASE_FLASH" => f.entry \in EraseSet
FramesAreSafe == \A i \in DOMAIN toDev : SafeFrame(toDev[i])

\* What the reply d says of the flash, after what has been read of it.
Continues(d) ==
    \E m \in Len(back) .. Len(flash[Entry]) :
        d = SubSeq(flash[Entry], Len(back) + 1, m)

NoReads ==
    /\ \A i \in DOMAIN toDev : toDev[i].cmd # "READ_FLASH"
    /\ \A i \in DOMAIN toHost : toHost[i].rep # "READ_FLASH"

\* A read is the last of what was sent, and its reply the last of what is answered.
ReadInOrder ==
    /\ pc # "READ_FLASH" => NoReads
    /\ pc = "READ_FLASH" =>
          /\ Entry \in PartitionSet
          /\ \A i \in DOMAIN toDev :
                toDev[i].cmd = "READ_FLASH" =>
                    i = Len(toDev) /\ toDev[i].entry = Entry /\ toDev[i].off = Len(back)
          /\ \A i \in DOMAIN toHost :
                toHost[i].rep = "READ_FLASH" =>
                    i = Len(toHost) /\ toDev = << >> /\ Continues(toHost[i].data)
          /\ back # << >> =>
                /\ \A i \in DOMAIN toDev : toDev[i].cmd = "READ_FLASH"
                /\ Len(back) <= Len(flash[Entry])
                /\ back = SubSeq(flash[Entry], 1, Len(back))

HostInOrder ==
    /\ outcome = "ok" <=> pc = "reset"
    /\ outcome = "ok" => pos = Len(Ops) + 1
    /\ pc = "ERASE_FLASH" => Entry \in EraseSet

\* What a read-back has seen is there, as long as nothing that overlaps it is written.
Held(e) == Kept(e) => Holds(e)

ReadBackInv ==
    outcome # "err" =>
        /\ HostInOrder /\ WritesAreSafe /\ FramesAreSafe /\ ReadInOrder
        /\ \A e \in ReadBack : Held(e)
LEMMA ReadBackFacts ==
    ASSUME TypeOK
    PROVE  /\ pos <= Len(Ops) => Entry \in Entries /\ Size[Entry] \in Nat /\ Entry \notin ReadBack
           /\ ReadBack \subseteq Entries \cap PartitionSet /\ ReadBack \cap EraseSet = {}
           /\ pos' = pos => ReadBack' = ReadBack /\ Entry' = Entry
           /\ pos' = pos + 1 /\ pos <= Len(Ops) =>
                 ReadBack' = ReadBack \cup ({Entry} \cap PartitionSet)
<1>1. pos \in Nat /\ pos > 0 /\ pos <= Len(Ops) + 1 /\ Len(Ops) \in Nat
  BY OpsAssumption DEF TypeOK
<1>2. \A i \in 1 .. Len(Ops) : i \in DOMAIN Ops
  BY OpsAssumption
<1>3. pos <= Len(Ops) => Entry \in Entries /\ Size[Entry] \in Nat
  BY <1>1, EntryType
<1>4. pos <= Len(Ops) => Entry \notin ReadBack
  <2> SUFFICES ASSUME pos <= Len(Ops), Entry \in ReadBack PROVE FALSE
    OBVIOUS
  <2>1. PICK i \in 1 .. pos - 1 : Ops[i] = Ops[pos]
    BY DEF ReadBack, Entry
  <2>2. i \in DOMAIN Ops /\ pos \in DOMAIN Ops /\ i # pos
    BY <1>1, <1>2
  <2> QED
    BY <2>1, <2>2, OpsAssumption
<1>5. ReadBack \subseteq Entries \cap PartitionSet
  BY <1>1, <1>2 DEF ReadBack, Entries
<1>6. ReadBack \cap EraseSet = {}
  BY OpsAssumption DEF ReadBack
<1>7. pos' = pos => ReadBack' = ReadBack /\ Entry' = Entry
  BY DEF ReadBack, Entry
<1>8. ASSUME pos' = pos + 1
      PROVE  ReadBack' = ReadBack \cup ({Entry} \cap PartitionSet)
  <2>1. 1 .. pos' - 1 = 1 .. pos - 1 \cup {pos}
    BY <1>1, <1>8
  <2> QED
    BY <2>1 DEF ReadBack, Entry
<1> QED
  BY <1>3, <1>4, <1>5, <1>6, <1>7, <1>8

\* What a new frame makes of the queue.
LEMMA SendFacts ==
    ASSUME TypeOK, NEW f, Send(f)
    PROVE  /\ Len(toDev') = Len(toDev) + 1 /\ toDev' # << >>
           /\ toDev = << >> => toDev' = <<f>>
           /\ \A i \in DOMAIN toDev' : \/ i \in DOMAIN toDev /\ toDev'[i] = toDev[i]
                                       \/ i = Len(toDev') /\ toDev'[i] = f
<1>1. toDev \in Seq(Frames) /\ toDev' = Append(toDev, f) /\ Len(toDev) \in Nat
  BY DEF TypeOK, Send
<1>2. /\ Len(toDev') = Len(toDev) + 1 /\ DOMAIN toDev' = 1 .. Len(toDev) + 1
      /\ DOMAIN toDev = 1 .. Len(toDev)
  BY <1>1
<1>3. toDev' # << >>
  BY <1>1, <1>2
<1>4. toDev = << >> => toDev' = <<f>>
  BY <1>1
<1>5. ASSUME NEW i \in 1 .. Len(toDev) + 1
      PROVE  \/ i \in 1 .. Len(toDev) /\ toDev'[i] = toDev[i]
             \/ i = Len(toDev) + 1 /\ toDev'[i] = f
  BY <1>1
<1> QED
  BY <1>2, <1>3, <1>4, <1>5

LEMMA SafeSend ==
    ASSUME TypeOK, FramesAreSafe, NEW f, SafeFrame(f), pos' = pos, Send(f)
    PROVE  FramesAreSafe'
<1>1. ReadBack' = ReadBack
  BY ReadBackFacts
<1> QED
  BY <1>1, SendFacts DEF FramesAreSafe, SafeFrame

LEMMA SuffixFacts ==
    ASSUME NEW S, NEW s \in Seq(S), NEW m \in 0 .. Len(s)
    PROVE  /\ Len(SubSeq(s, m + 1, Len(s))) = Len(s) - m
           /\ \A i \in 1 .. Len(s) - m :
                 /\ i + m \in 1 .. Len(s) /\ (i + m = Len(s) <=> i = Len(s) - m)
                 /\ SubSeq(s, m + 1, Len(s))[i] = s[i + m]
<1>1. PICK n \in Nat : n = Len(s)
  OBVIOUS
<1>2. m \in Nat /\ m <= n
  BY <1>1
<1>3. \A k \in m + 1 .. n : s[k] \in S
  BY <1>1, <1>2
<1>4. /\ Len(SubSeq(s, m + 1, n)) = IF m + 1 <= n THEN n - (m + 1) + 1 ELSE 0
      /\ \A i \in 1 .. n - (m + 1) + 1 : SubSeq(s, m + 1, n)[i] = s[m + 1 + i - 1]
  <2>1. m + 1 \in Int /\ n \in Int
    BY <1>2
  <2> HIDE <1>1, <1>2
  <2> QED
    BY <1>3, <2>1, SubSeqProperties
<1>5. n - (m + 1) + 1 = n - m /\ (m + 1 <= n \/ n - m = 0)
  BY <1>2
<1>6. Len(SubSeq(s, m + 1, n)) = n - m
  BY <1>4, <1>5
<1>7. ASSUME NEW i \in 1 .. n - m
      PROVE  /\ i + m \in 1 .. n /\ (i + m = n <=> i = n - m)
             /\ SubSeq(s, m + 1, n)[i] = s[i + m]
  <2>1. m + 1 + i - 1 = i + m
    BY <1>2
  <2>2. SubSeq(s, m + 1, n)[i] = s[m + 1 + i - 1]
    BY <1>4, <1>5
  <2>3. i + m \in 1 .. n /\ (i + m = n <=> i = n - m)
    BY <1>2
  <2> QED
    BY <2>1, <2>2, <2>3
<1> QED
  BY <1>1, <1>6, <1>7

\* Replies only leave at the front: taken, purged or lost.
LEMMA RepliesLeave ==
    ASSUME toHost \in Seq(Replies), NEW m \in 0 .. Len(toHost),
           toHost' = SubSeq(toHost, m + 1, Len(toHost)), toHost' \in Seq(Replies)
    PROVE  /\ Len(toHost') = Len(toHost) - m
           /\ \A i \in DOMAIN toHost' :
                 /\ i + m \in DOMAIN toHost /\ toHost'[i] = toHost[i + m]
                 /\ i + m = Len(toHost) <=> i = Len(toHost')
           /\ NoAck => NoAck'
           /\ LastAck => LastAck'
<1>1. DOMAIN toHost = 1 .. Len(toHost) /\ DOMAIN toHost' = 1 .. Len(toHost')
  OBVIOUS
<1>2. /\ Len(toHost') = Len(toHost) - m
      /\ \A i \in 1 .. Len(toHost) - m :
            /\ i + m \in 1 .. Len(toHost) /\ (i + m = Len(toHost) <=> i = Len(toHost) - m)
            /\ toHost'[i] = toHost[i + m]
  BY SuffixFacts
<1>3. \A i \in DOMAIN toHost' :
          /\ i + m \in DOMAIN toHost /\ toHost'[i] = toHost[i + m]
          /\ i + m = Len(toHost) <=> i = Len(toHost')
  BY <1>1, <1>2
<1>4. NoAck => NoAck'
  BY <1>3 DEF NoAck
<1>5. LastAck => LastAck'
  BY <1>3 DEF LastAck
<1> QED
  BY <1>2, <1>3, <1>4, <1>5

LEMMA TakeLeaves ==
    ASSUME TypeOK, TakeReply
    PROVE  /\ 1 \in DOMAIN toHost
           /\ \E m \in 1 .. Len(toHost) : toHost' = SubSeq(toHost, m + 1, Len(toHost))
<1>1. toHost \in Seq(Replies) /\ toHost # << >>
  BY DEF TypeOK, TakeReply
<1>2. Len(toHost) \in Nat /\ Len(toHost) > 0 /\ DOMAIN toHost = 1 .. Len(toHost)
  BY <1>1
<1>3. PICK surplus \in 0 .. Len(toHost) - 1 : toHost' = SubSeq(toHost, surplus + 2, Len(toHost))
  BY DEF TakeReply
<1>4. surplus + 1 \in 1 .. Len(toHost) /\ (surplus + 1) + 1 = surplus + 2
  BY <1>2
<1>5. PICK m \in 1 .. Len(toHost) : m = surplus + 1
  BY <1>4
<1>6. m + 1 = surplus + 2
  BY <1>2, <1>4, <1>5
<1>7. toHost' = SubSeq(toHost, m + 1, Len(toHost))
  BY <1>3, <1>6, Zenon
<1>8. 1 \in DOMAIN toHost
  BY <1>2
<1> QED
  BY <1>7, <1>8

\* The last reply taken leaves none behind.
LEMMA TakeLast ==
    ASSUME TypeOK, TypeOK', TakeReply, Len(toHost) = 1
    PROVE  toHost' = << >>
<1>1. PICK m \in 1 .. Len(toHost) : toHost' = SubSeq(toHost, m + 1, Len(toHost))
  BY TakeLeaves
<1>2. toHost \in Seq(Replies) /\ toHost' \in Seq(Replies) /\ m \in 0 .. Len(toHost) /\ m = 1
  BY <1>1 DEF TypeOK
<1>3. Len(toHost') = 1 - 1
  BY <1>1, <1>2, RepliesLeave
<1> QED
  BY <1>2, <1>3

\* Nothing but a read brings READ_FLASH onto the link.
LEMMA StillNoReads ==
    ASSUME TypeOK, TypeOK', NoReads,
           \/ toDev' = toDev
           \/ \E f \in Frames : f.cmd # "READ_FLASH" /\ Send(f),
           \E m \in 0 .. Len(toHost) : toHost' = SubSeq(toHost, m + 1, Len(toHost))
    PROVE  NoReads'
<1>1. \A i \in DOMAIN toDev' : toDev'[i].cmd # "READ_FLASH"
  <2>1. CASE toDev' = toDev
    BY <2>1 DEF NoReads
  <2>2. ASSUME NEW f \in Frames, f.cmd # "READ_FLASH", Send(f)
        PROVE  \A i \in DOMAIN toDev' : toDev'[i].cmd # "READ_FLASH"
    BY <2>2, SendFacts DEF NoReads
  <2> QED
    BY <2>1, <2>2
<1>2. \A i \in DOMAIN toHost' : toHost'[i].rep # "READ_FLASH"
  <2>1. PICK m \in 0 .. Len(toHost) : toHost' = SubSeq(toHost, m + 1, Len(toHost))
    OBVIOUS
  <2>2. toHost \in Seq(Replies) /\ toHost' \in Seq(Replies)
    BY DEF TypeOK
  <2> QED
    BY <2>1, <2>2, RepliesLeave DEF NoReads
<1> QED
  BY <1>1, <1>2 DEF NoReads

LEMMA SameReplies ==
    ASSUME TypeOK, toHost' = toHost
    PROVE  \E m \in 0 .. Len(toHost) : toHost' = SubSeq(toHost, m + 1, Len(toHost))
<1>1. toHost \in Seq(Replies) /\ Len(toHost) \in Nat
  BY DEF TypeOK
<1>2. SubSeq(toHost, 1, Len(toHost)) = toHost
  BY <1>1, SubSeqFull
<1>3. 0 \in 0 .. Len(toHost) /\ 0 + 1 = 1
  BY <1>1
<1> QED
  BY <1>2, <1>3

LEMMA StillHeld ==
    ASSUME TypeOK, flash' = flash, ReadBack' = ReadBack, \A e \in ReadBack : Held(e)
    PROVE  \A e \in ReadBack' : Held(e)'
BY DEF Held, Holds

\* The frames that the host sends, and their names.
LEMMA FrameNames ==
    /\ \A e : /\ StartData(e).cmd = "START_DATA" /\ StartData(e).entry = e
              /\ EraseFlash(e).cmd = "ERASE_FLASH" /\ EraseFlash(e).entry = e
    /\ \A d : MidstData(d).cmd = "MIDST_DATA"
    /\ EndData.cmd = "END_DATA" /\ Connect.cmd = "CONNECT"
    /\ NormalReset.cmd = "NORMAL_RESET"
    /\ \A e, off, n : /\ ReadFlash(e, off, n).cmd = "READ_FLASH"
                      /\ ReadFlash(e, off, n).entry = e /\ ReadFlash(e, off, n).off = off
BY DEF StartData, EraseFlash, MidstData, EndData, Connect, NormalReset, ReadFlash

----
LEMMA StageSends ==
    ASSUME VerifyReadback, TypeOK, TypeOK', ReadBackInv,
           BeginStage \/ BeginErase \/ Finish
    PROVE  ReadBackInv'
<1>1. /\ outcome = "running" /\ pc = "next" /\ HostInOrder /\ WritesAreSafe /\ FramesAreSafe
      /\ ReadInOrder /\ NoReads /\ \A e \in ReadBack : Held(e)
      /\ toHost' = toHost /\ pos' = pos /\ cur' = cur /\ flash' = flash /\ back' = back
  BY DEF BeginStage, BeginErase, Finish, ReadBackInv, ReadInOrder, hostVars, devVars
<1>2. /\ ReadBack' = ReadBack /\ Entry' = Entry
      /\ pos <= Len(Ops) => Entry \in Entries /\ Entry \notin ReadBack
  BY <1>1, ReadBackFacts
<1>3. cur # NoWrite /\ cur.entry \in ReadBack => toDev = << >> /\ toHost = << >>
  BY <1>1 DEF WritesAreSafe, BeforeStart
<1>4. \E m \in 0 .. Len(toHost) : toHost' = SubSeq(toHost, m + 1, Len(toHost))
  BY <1>1, SameReplies
<1>5. \A e \in ReadBack' : Held(e)'
  BY <1>1, <1>2, StillHeld
<1>6. NoAck' \/ toHost # << >>
  BY <1>1 DEF NoAck
<1>7. CASE BeginStage
  <2>1. pc' = "START_DATA" /\ outcome' = "running" /\ pos <= Len(Ops) /\ Send(StartData(Entry))
    BY <1>1, <1>7 DEF BeginStage
  <2>2. SafeFrame(StartData(Entry)) /\ StartData(Entry) \in Frames
    BY <1>2, <2>1, FrameNames, FrameFields DEF SafeFrame
  <2>3. FramesAreSafe'
    BY <1>1, <2>1, <2>2, SafeSend
  <2>4. NoReads'
    BY <1>1, <1>4, <2>1, <2>2, FrameNames, StillNoReads
  <2>5. ReadInOrder'
    BY <2>1, <2>4 DEF ReadInOrder
  <2>6. ASSUME toDev = << >>, toHost = << >> PROVE BeforeStart'
    <3>1. toDev' = <<StartData(Entry)>> /\ NoAck'
      BY <1>6, <2>1, <2>6, SendFacts
    <3>2. \A i \in DOMAIN toDev' : toDev'[i].cmd = "START_DATA"
      BY <3>1, FrameNames
    <3> QED
      BY <1>2, <2>1, <3>1, <3>2 DEF BeforeStart
  <2>7. WritesAreSafe'
    BY <1>1, <1>2, <1>3, <2>6 DEF WritesAreSafe
  <2>8. HostInOrder'
    BY <2>1 DEF HostInOrder
  <2> QED
    BY <1>5, <2>3, <2>5, <2>7, <2>8 DEF ReadBackInv
<1>8. CASE BeginErase
  <2>1. /\ pc' = "ERASE_FLASH" /\ outcome' = "running" /\ pos <= Len(Ops) /\ Entry \in EraseSet
        /\ Send(EraseFlash(Entry))
    BY <1>1, <1>8 DEF BeginErase
  <2>2. SafeFrame(EraseFlash(Entry)) /\ EraseFlash(Entry) \in Frames
    BY <1>2, <2>1, FrameNames, FrameFields DEF SafeFrame
  <2>3. FramesAreSafe'
    BY <1>1, <2>1, <2>2, SafeSend
  <2>4. NoReads'
    BY <1>1, <1>4, <2>1, <2>2, FrameNames, StillNoReads
  <2>5. ReadInOrder'
    BY <2>1, <2>4 DEF ReadInOrder
  <2>6. ASSUME toDev = << >>, toHost = << >> PROVE BeforeStart'
    <3>1. toDev' = <<EraseFlash(Entry)>> /\ NoAck'
      BY <1>6, <2>1, <2>6, SendFacts
    <3>2. \A i \in DOMAIN toDev' : toDev'[i].cmd = "ERASE_FLASH"
      BY <3>1, FrameNames
    <3> QED
      BY <1>2, <2>1, <3>1, <3>2 DEF BeforeStart
  <2>7. WritesAreSafe'
    BY <1>1, <1>2, <1>3, <2>6 DEF WritesAreSafe
  <2>8. HostInOrder'
    BY <1>2, <2>1 DEF HostInOrder
  <2> QED
    BY <1>5, <2>3, <2>5, <2>7, <2>8 DEF ReadBackInv
<1>9. CASE Finish
  <2>1. pc' = "reset" /\ outcome' = "ok" /\ pos > Len(Ops)
    BY <1>9 DEF Finish
  <2>2. SafeFrame(NormalReset) /\ NormalReset \in Frames
    BY FrameNames, FrameFields DEF SafeFrame
  <2>3. toDev' = toDev \/ Send(NormalReset)
    BY <1>9 DEF Finish
  <2>4. FramesAreSafe'
    <3>1. CASE toDev' = toDev
      BY <1>1, <1>2, <3>1 DEF FramesAreSafe, SafeFrame
    <3>2. CASE Send(NormalReset)
      BY <1>1, <2>2, <3>2, SafeSend
    <3> QED
      BY <2>3, <3>1, <3>2
  <2>5. NoReads'
    BY <1>1, <1>4, <2>2, <2>3, FrameNames, StillNoReads
  <2>6. ReadInOrder'
    BY <2>1, <2>5 DEF ReadInOrder
  <2>7. ASSUME toDev = << >>, toHost = << >> PROVE BeforeStart'
    <3>1. toDev' = << >> \/ toDev' = <<NormalReset>>
      BY <2>3, <2>7, SendFacts
    <3>2. \A i \in DOMAIN toDev' : toDev'[i].cmd # "END_DATA"
      BY <3>1, FrameNames
    <3> QED
      BY <2>1, <3>2 DEF BeforeStart
  <2>8. WritesAreSafe'
    BY <1>1, <1>2, <1>3, <2>7 DEF WritesAreSafe
  <2>9. HostInOrder'
    <3>1. pos \in Nat /\ pos <= Len(Ops) + 1 /\ Len(Ops) \in Nat
      BY OpsAssumption DEF TypeOK
    <3>2. pos = Len(Ops) + 1
      BY <2>1, <3>1
    <3> QED
      BY <1>1, <2>1, <3>2 DEF HostInOrder
  <2> QED
    BY <1>5, <2>4, <2>6, <2>8, <2>9 DEF ReadBackInv
<1> QED
  BY <1>7, <1>8, <1>9

\* An ACK is taken in the course of a stage: the device holds no write to a partition
\* that has been read back.
LEMMA PastStart ==
    ASSUME ReadBackInv, TypeOK, outcome = "running", TakeReply,
           (pc = "START_DATA" /\ toHost[1].rep = "ACK") \/ pc \in {"MIDST_DATA", "END_DATA"}
    PROVE  ~(cur # NoWrite /\ cur.entry \in ReadBack)
<1>1. 1 \in DOMAIN toHost
  BY TakeLeaves
<1> QED
  BY <1>1 DEF ReadBackInv, WritesAreSafe, BeforeStart, NoAck

\* What remains of an acknowledged step when it sends f and stays on its entry.
LEMMA StageGoesOn ==
    ASSUME TypeOK, TypeOK', ReadBackInv, outcome = "running", pc # "READ_FLASH",
           TakeReply \/ toHost' = toHost,
           NEW f \in Frames, SafeFrame(f), f.cmd # "READ_FLASH", Send(f),
           pc' \in StageSteps, outcome' = outcome,
           pos' = pos /\ cur' = cur /\ flash' = flash,
           ~(cur # NoWrite /\ cur.entry \in ReadBack) \/ BeforeStart'
    PROVE  ReadBackInv'
<1>1. /\ HostInOrder /\ WritesAreSafe /\ FramesAreSafe /\ NoReads
      /\ \A e \in ReadBack : Held(e)
  BY DEF ReadBackInv, ReadInOrder
<1>2. ReadBack' = ReadBack /\ Entry' = Entry
  BY ReadBackFacts
<1>3. \E m \in 0 .. Len(toHost) : toHost' = SubSeq(toHost, m + 1, Len(toHost))
  <2>1. \A m \in 1 .. Len(toHost) : m \in 0 .. Len(toHost)
    OBVIOUS
  <2> QED
    BY <2>1, TakeLeaves, SameReplies
<1>4. NoReads'
  BY <1>1, <1>3, StillNoReads
<1>5. ReadInOrder'
  BY <1>4 DEF ReadInOrder, StageSteps
<1>6. FramesAreSafe'
  BY <1>1, SafeSend
<1>7. \A e \in ReadBack' : Held(e)'
  BY <1>1, <1>2, StillHeld
<1>8. HostInOrder'
  BY <1>1 DEF HostInOrder, StageSteps
<1>9. WritesAreSafe'
  BY <1>2 DEF WritesAreSafe
<1> QED
  BY <1>5, <1>6, <1>7, <1>8, <1>9 DEF ReadBackInv

LEMMA AppendTwo ==
    ASSUME NEW a, NEW b
    PROVE  Append(<< >>, b) = <<b>> /\ Append(<<a>>, b) = <<a, b>>
<1>1. << >> \in Seq({a, b}) /\ <<a>> \in Seq({a, b})
  OBVIOUS
<1>2. Append(<<a>>, b) \in Seq({a, b}) /\ Len(Append(<<a>>, b)) = 2
  BY <1>1
<1>3. Append(<<a>>, b)[1] = a /\ Append(<<a>>, b)[2] = b
  BY <1>1
<1>4. <<a, b>> \in Seq({a, b}) /\ Len(<<a, b>>) = 2 /\ <<a, b>>[1] = a /\ <<a, b>>[2] = b
  OBVIOUS
<1>5. \A i \in 1 .. 2 : Append(<<a>>, b)[i] = <<a, b>>[i]
  BY <1>3, <1>4
<1>6. Append(<<a>>, b) = <<a, b>>
  BY <1>2, <1>4, <1>5, SeqEqual
<1> QED
  BY <1>1, <1>6

LEMMA StageAcked ==
    ASSUME VerifyReadback, TypeOK, TypeOK', ReadBackInv,
           AckStart \/ AckMidst \/ AckConnect \/ RetryStage
    PROVE  ReadBackInv'
<1>1. /\ outcome = "running" /\ pc \in StageSteps \cup {"CONNECT"} /\ pc # "READ_FLASH"
      /\ pos' = pos /\ cur' = cur /\ flash' = flash /\ outcome' = outcome
      /\ pos <= Len(Ops)
  BY DEF AckStart, AckMidst, AckConnect, RetryStage, Retry, CanRetry, TimedOut, Replied,
         TakeReply, StageSteps, Awaiting, hostVars, devVars, TypeOK
<1>2. ReadBack' = ReadBack /\ Entry' = Entry /\ Entry \in Entries /\ Entry \notin ReadBack
  BY <1>1, ReadBackFacts
<1>3. SafeFrame(EndData) /\ SafeFrame(Connect) /\ EndData \in Frames /\ Connect \in Frames
  BY FrameNames, FrameFields DEF SafeFrame
<1>4. ASSUME NEW from \in Nat, SendPiece(from), TakeReply,
             ~(cur # NoWrite /\ cur.entry \in ReadBack)
      PROVE  ReadBackInv'
  <2>1. CASE from < Size[Entry]
    <3> DEFINE f == MidstData(SubSeq(Image(Entry), from + 1, Reach(from)))
    <3>1. pc' = "MIDST_DATA" /\ Send(f)
      BY <1>4, <2>1 DEF SendPiece
    <3>2. f \in Frames
      BY <1>1, <1>4, PieceType
    <3>3. f.cmd = "MIDST_DATA"
      BY FrameNames
    <3> HIDE DEF f
    <3> QED
      BY <1>1, <1>4, <3>1, <3>2, <3>3, StageGoesOn DEF SafeFrame, StageSteps
  <2>2. CASE ~(from < Size[Entry])
    BY <1>1, <1>3, <1>4, <2>2, StageGoesOn, FrameNames DEF SendPiece, StageSteps
  <2> QED
    BY <2>1, <2>2
<1>5. CASE AckStart
  <2>1. TakeReply /\ SendPiece(0) /\ pc = "START_DATA" /\ toHost[1].rep = "ACK"
    BY <1>5 DEF AckStart, Replied, Expected
  <2> QED
    BY <1>1, <1>4, <2>1, PastStart
<1>6. CASE AckMidst
  <2>1. TakeReply /\ SendPiece(Reach(sent)) /\ pc = "MIDST_DATA"
    BY <1>6 DEF AckMidst, Replied
  <2>2. Reach(sent) \in Nat
    BY <1>1, PieceType DEF TypeOK
  <2> QED
    BY <1>1, <1>4, <2>1, <2>2, PastStart
<1>7. CASE AckConnect
  <2>1. /\ TakeReply /\ pc = "CONNECT" /\ toHost[1].rep = "ACK"
        /\ pc' = "START_DATA" /\ Send(StartData(Entry))
    BY <1>7 DEF AckConnect, Replied, Expected
  <2>2. SafeFrame(StartData(Entry)) /\ StartData(Entry) \in Frames
    BY <1>2, FrameNames, FrameFields DEF SafeFrame
  <2>3. ASSUME cur # NoWrite, cur.entry \in ReadBack PROVE BeforeStart'
    <3>1. BeforeStart
      BY <1>1, <2>3 DEF ReadBackInv, WritesAreSafe
    <3>2. 1 \in DOMAIN toHost
      BY <2>1, TakeLeaves
    <3>3. toDev = << >> /\ LastAck
      BY <2>1, <3>1, <3>2 DEF BeforeStart, NoAck
    <3>4. toHost' = << >>
      BY <2>1, <3>2, <3>3, TakeLast DEF LastAck
    <3>5. toDev' = <<StartData(Entry)>>
      BY <2>1, <3>3, SendFacts
    <3>6. \A i \in DOMAIN toDev' : toDev'[i].cmd = "START_DATA"
      BY <3>5, FrameNames
    <3>7. NoAck'
      BY <3>4 DEF NoAck
    <3> QED
      BY <1>2, <2>1, <3>5, <3>6, <3>7 DEF BeforeStart
  <2> QED
    BY <1>1, <2>1, <2>2, <2>3, StageGoesOn, FrameNames DEF StageSteps
<1>8. CASE RetryStage
  <2>1. /\ pc \in StageSteps /\ pc' = "CONNECT" /\ Send(Connect)
        /\ \E m \in 0 .. Len(toHost) : toHost' = SubSeq(toHost, m + 1, Len(toHost))
    BY <1>8 DEF RetryStage, Retry, CanRetry
  <2>2. /\ HostInOrder /\ WritesAreSafe /\ FramesAreSafe /\ NoReads
        /\ \A e \in ReadBack : Held(e)
    BY <1>1 DEF ReadBackInv, ReadInOrder
  <2>3. ReadInOrder'
    <3>1. NoReads'
      BY <1>3, <2>1, <2>2, FrameNames, StillNoReads
    <3> QED
      BY <2>1, <3>1 DEF ReadInOrder
  <2>4. FramesAreSafe'
    BY <1>1, <1>3, <2>1, <2>2, SafeSend
  <2>5. \A e \in ReadBack' : Held(e)'
    BY <1>1, <1>2, <2>2, StillHeld
  <2>6. HostInOrder'
    BY <1>1, <2>1, <2>2 DEF HostInOrder, StageSteps
  <2>7. ASSUME cur # NoWrite, cur.entry \in ReadBack PROVE BeforeStart'
    <3>1. BeforeStart
      BY <2>2, <2>7 DEF WritesAreSafe
    <3>2. toDev \in {<< >>, <<StartData(Entry)>>} /\ NoAck
      BY <2>1, <3>1 DEF BeforeStart, StageSteps
    <3>3. NoAck'
      <4>1. toHost \in Seq(Replies) /\ toHost' \in Seq(Replies)
        BY DEF TypeOK
      <4> QED
        BY <2>1, <3>2, <4>1, RepliesLeave
    <3>4. toDev' = Append(toDev, Connect)
      BY <2>1 DEF Send
    <3>5. toDev' \in {<<Connect>>, <<StartData(Entry), Connect>>}
      BY <3>2, <3>4, AppendTwo
    <3>6. \A i \in DOMAIN toDev' : toDev'[i].cmd # "END_DATA"
      BY <3>5, FrameNames
    <3> QED
      BY <1>2, <2>1, <3>3, <3>5, <3>6 DEF BeforeStart
  <2>8. WritesAreSafe'
    BY <1>1, <1>2, <2>7 DEF WritesAreSafe
  <2> QED
    BY <2>3, <2>4, <2>5, <2>6, <2>8 DEF ReadBackInv
<1> QED
  BY <1>5, <1>6, <1>7, <1>8

LEMMA EntryEnds ==
    ASSUME VerifyReadback, TypeOK, TypeOK', ReadBackInv, AckEnd \/ AckErase
    PROVE  ReadBackInv'
<1>1. /\ outcome = "running" /\ outcome' = outcome /\ cur' = cur /\ flash' = flash
      /\ pc \in {"END_DATA", "ERASE_FLASH"} /\ pos <= Len(Ops)
      /\ TakeReply /\ toHost[1].rep = "ACK"
  BY DEF AckEnd, AckErase, Replied, Expected, TakeReply, devVars, TypeOK, Awaiting, StageSteps
<1>2. /\ HostInOrder /\ WritesAreSafe /\ FramesAreSafe /\ NoReads
      /\ \A e \in ReadBack : Held(e)
  BY <1>1 DEF ReadBackInv, ReadInOrder
<1>3. \E m \in 0 .. Len(toHost) : toHost' = SubSeq(toHost, m + 1, Len(toHost))
  <2>1. \A m \in 1 .. Len(toHost) : m \in 0 .. Len(toHost)
    OBVIOUS
  <2> QED
    BY <1>1, <2>1, TakeLeaves
<1>4. ASSUME toDev' = toDev, pos' = pos + 1, pc' = "next", Entry \notin PartitionSet,
             cur # NoWrite /\ cur.entry \in ReadBack => toDev = << >> /\ toHost' = << >>
      PROVE  ReadBackInv'
  <2>1. ReadBack' = ReadBack
    BY <1>1, <1>4, ReadBackFacts
  <2>2. ReadInOrder'
    <3>1. NoReads'
      BY <1>2, <1>3, <1>4, StillNoReads
    <3> QED
      BY <1>4, <3>1 DEF ReadInOrder
  <2>3. FramesAreSafe'
    BY <1>2, <1>4, <2>1 DEF FramesAreSafe, SafeFrame
  <2>4. \A e \in ReadBack' : Held(e)'
    BY <1>1, <1>2, <2>1, StillHeld
  <2>5. HostInOrder'
    BY <1>1, <1>4 DEF HostInOrder
  <2>6. WritesAreSafe'
    BY <1>1, <1>4, <2>1 DEF WritesAreSafe, BeforeStart
  <2> QED
    BY <2>2, <2>3, <2>4, <2>5, <2>6 DEF ReadBackInv
<1>5. CASE AckErase
  <2>1. toDev' = toDev /\ pos' = pos + 1 /\ pc' = "next" /\ pc = "ERASE_FLASH"
    BY <1>5 DEF AckErase, Replied
  <2>2. Entry \notin PartitionSet
    BY <1>2, <2>1, OpsAssumption DEF HostInOrder
  <2>3. ASSUME cur # NoWrite, cur.entry \in ReadBack PROVE toDev = << >> /\ toHost' = << >>
    <3>1. BeforeStart
      BY <1>2, <2>3 DEF WritesAreSafe
    <3>2. 1 \in DOMAIN toHost
      BY <1>1, TakeLeaves
    <3>3. toDev = << >> /\ LastAck
      BY <1>1, <2>1, <3>1, <3>2 DEF BeforeStart, NoAck
    <3> QED
      BY <1>1, <3>2, <3>3, TakeLast DEF LastAck
  <2> QED
    BY <1>4, <2>1, <2>2, <2>3
<1>6. CASE AckEnd
  <2>1. pc = "END_DATA"
    BY <1>6 DEF AckEnd, Replied
  <2>2. ~(cur # NoWrite /\ cur.entry \in ReadBack)
    BY <1>1, <2>1, PastStart
  <2>3. CASE Entry \notin PartitionSet
    BY <1>4, <1>6, <2>2, <2>3 DEF AckEnd
  <2>4. CASE Entry \in PartitionSet
    <3> DEFINE f == ReadFlash(Entry, 0, Smaller(ReadChunk, Size[Entry] - 0))
    <3>1. pc' = "READ_FLASH" /\ Send(f) /\ back' = << >> /\ pos' = pos
      BY <1>6, <2>4 DEF AckEnd, SendRead
    <3>2. f.cmd = "READ_FLASH" /\ f.entry = Entry /\ f.off = 0
      BY FrameNames
    <3> HIDE DEF f
    <3>3. ReadBack' = ReadBack /\ Entry' = Entry
      BY <3>1, ReadBackFacts
    <3>4. FramesAreSafe'
      BY <1>2, <3>1, <3>2, SafeSend DEF SafeFrame
    <3>5. \A i \in DOMAIN toDev' :
             toDev'[i].cmd = "READ_FLASH" => i = Len(toDev') /\ toDev'[i] = f
      BY <1>2, <3>1, SendFacts DEF NoReads
    <3>6. \A i \in DOMAIN toHost' : toHost'[i].rep # "READ_FLASH"
      <4>1. toHost \in Seq(Replies) /\ toHost' \in Seq(Replies)
        BY DEF TypeOK
      <4> QED
        BY <1>2, <1>3, <4>1, RepliesLeave DEF NoReads
    <3>7. Len(back') = 0
      BY <3>1
    <3>8. ReadInOrder'
      BY <2>4, <3>1, <3>2, <3>3, <3>5, <3>6, <3>7 DEF ReadInOrder
    <3>9. \A e \in ReadBack' : Held(e)'
      BY <1>1, <1>2, <3>3, StillHeld
    <3>10. HostInOrder'
      BY <1>1, <3>1 DEF HostInOrder
    <3>11. WritesAreSafe'
      BY <1>1, <2>2, <3>3 DEF WritesAreSafe
    <3> QED
      BY <3>4, <3>8, <3>9, <3>10, <3>11 DEF ReadBackInv
  <2> QED
    BY <2>3, <2>4
<1> QED
  BY <1>5, <1>6

\* The partition compares equal, so it is held, or the read goes on behind what has
\* been read of it.
LEMMA ReadAnswered ==
    ASSUME VerifyReadback, TypeOK, TypeOK', ReadBackInv, DataRead, outcome' # "err"
    PROVE  ReadBackInv'
<1> DEFINE d == toHost[1].data
           all == back \o d
<1>1. /\ outcome = "running" /\ pc = "READ_FLASH" /\ pos <= Len(Ops) /\ outcome' = "running"
      /\ cur' = cur /\ flash' = flash
      /\ TakeReply /\ toHost[1].rep = "READ_FLASH" /\ 1 \in DOMAIN toHost
  BY TakeLeaves
  DEF DataRead, Replied, Expected, TakeReply, devVars, TypeOK, Awaiting
<1>2. /\ HostInOrder /\ WritesAreSafe /\ ReadInOrder /\ \A e \in ReadBack : Held(e)
  BY <1>1 DEF ReadBackInv
<1>3. Entry \in Entries /\ Entry \in PartitionSet /\ Entry \notin EraseSet /\ Size[Entry] \in Nat
  BY <1>1, <1>2, ReadBackFacts, OpsAssumption DEF ReadInOrder
<1>4. Len(toHost) = 1 /\ toDev = << >> /\ Continues(d)
  BY <1>1, <1>2 DEF ReadInOrder
<1>5. toHost' = << >>
  BY <1>1, <1>4, TakeLast
<1>6. ~(cur # NoWrite /\ cur.entry \in ReadBack)
  BY <1>1, <1>2 DEF WritesAreSafe, BeforeStart
<1>7. PICK m \in Len(back) .. Len(flash[Entry]) : d = SubSeq(flash[Entry], Len(back) + 1, m)
  BY <1>4 DEF Continues
<1>8. flash[Entry] \in Seq(Units) /\ back \in Seq(Units) /\ Len(back) \in Nat
      /\ Len(flash[Entry]) \in Nat /\ m \in Nat /\ m <= Len(flash[Entry]) /\ Len(back) <= m
  <2>1. flash[Entry] \in Seq(Units) /\ back \in Seq(Units)
    BY <1>1, <1>3 DEF TypeOK
  <2> QED
    BY <1>7, <2>1
<1>9. back = SubSeq(flash[Entry], 1, Len(back))
  <2>1. CASE back = << >>
    BY <2>1, SubSeqEmpty
  <2>2. CASE back # << >>
    BY <1>1, <1>2, <2>2 DEF ReadInOrder
  <2> QED
    BY <2>1, <2>2
<1>10. all = SubSeq(flash[Entry], 1, m) /\ Len(all) = m
  <2>1. PICK n \in Nat : n = Len(back)
    BY <1>8
  <2>2. 1 \in 1 .. Len(flash[Entry]) + 1 /\ n \in 1 - 1 .. Len(flash[Entry])
        /\ m \in n .. Len(flash[Entry])
    BY <1>8, <2>1
  <2>3. SubSeq(flash[Entry], 1, n) \o SubSeq(flash[Entry], n + 1, m) = SubSeq(flash[Entry], 1, m)
    BY <1>8, <2>2, ConcatAdjacentSubSeq
  <2>4. all = SubSeq(flash[Entry], 1, m)
    BY <1>7, <1>9, <2>1, <2>3
  <2>5. \A i \in 1 .. m : flash[Entry][i] \in Units
    BY <1>8
  <2>6. Len(SubSeq(flash[Entry], 1, m)) = m
    <3>1. Len(SubSeq(flash[Entry], 1, m)) = IF 1 <= m THEN m - 1 + 1 ELSE 0
      BY <1>8, <2>5, SubSeqProperties
    <3> QED
      BY <1>8, <3>1
  <2> QED
    BY <2>4, <2>6
<1>11. \/ /\ SendRead(Len(all)) /\ back' = all /\ pos' = pos
          /\ back' # << >>
       \/ /\ all = Image(Entry) /\ pc' = "next" /\ pos' = pos + 1 /\ toDev' = toDev
  <2>1. CASE d # << >> /\ Len(all) < Size[Entry]
    <3>1. SendRead(Len(all)) /\ back' = all /\ pos' = pos
      BY <2>1 DEF DataRead
    <3>2. all # << >>
      <4>1. d \in Seq(Units)
        <5>1. toHost[1] \in Replies
          BY <1>1 DEF TypeOK
        <5> QED
          BY <5>1, ReplyFields
      <4> QED
        BY <1>8, <2>1, <4>1
    <3> QED
      BY <3>1, <3>2
  <2>2. CASE ~(d # << >> /\ Len(all) < Size[Entry])
    BY <1>1, <2>2 DEF DataRead
  <2> QED
    BY <2>1, <2>2
<1> HIDE DEF d, all
<1>12. CASE SendRead(Len(all)) /\ back' = all /\ pos' = pos /\ back' # << >>
  <2> DEFINE f == ReadFlash(Entry, Len(all), Smaller(ReadChunk, Size[Entry] - Len(all)))
  <2>1. pc' = "READ_FLASH" /\ Send(f)
    BY <1>12 DEF SendRead
  <2>2. f.cmd = "READ_FLASH" /\ f.entry = Entry /\ f.off = Len(all)
    BY FrameNames
  <2> HIDE DEF f
  <2>3. ReadBack' = ReadBack /\ Entry' = Entry
    BY <1>12, ReadBackFacts
  <2>4. toDev' = <<f>>
    BY <1>4, <2>1, SendFacts
  <2>5. Len(toDev') = 1 /\ \A i \in DOMAIN toDev' : i = 1 /\ toDev'[i] = f
    BY <2>4
  <2>6. FramesAreSafe'
    BY <2>2, <2>5 DEF FramesAreSafe, SafeFrame
  <2>7. \A i \in DOMAIN toHost' : FALSE
    BY <1>5
  <2>8. Len(back') = m /\ back' = SubSeq(flash'[Entry'], 1, Len(back'))
    BY <1>1, <1>10, <1>12, <2>3
  <2>9. Len(back') <= Len(flash'[Entry'])
    BY <1>1, <1>8, <2>3, <2>8
  <2>10. toDev'[1] = f
    BY <2>4
  <2>11. ReadInOrder'
    BY <1>3, <1>10, <1>12, <2>1, <2>2, <2>3, <2>5, <2>7, <2>8, <2>9 DEF ReadInOrder
  <2>12. \A e \in ReadBack' : Held(e)'
    BY <1>1, <1>2, <2>3, StillHeld
  <2>13. HostInOrder'
    BY <1>1, <2>1 DEF HostInOrder
  <2>14. WritesAreSafe'
    BY <1>1, <1>6, <2>3 DEF WritesAreSafe
  <2> QED
    BY <2>6, <2>11, <2>12, <2>13, <2>14 DEF ReadBackInv
<1>13. CASE all = Image(Entry) /\ pc' = "next" /\ pos' = pos + 1 /\ toDev' = toDev
  <2>1. ReadBack' \subseteq ReadBack \cup {Entry}
    BY <1>1, <1>13, ReadBackFacts
  <2>2. Held(Entry)
    <3>1. m = Size[Entry]
      BY <1>3, <1>10, <1>13, ImageType
    <3> QED
      BY <1>3, <1>8, <1>10, <1>13, <3>1 DEF Held, Holds
  <2>3. \A e \in ReadBack' : Held(e)'
    BY <1>1, <1>2, <2>1, <2>2 DEF Held, Holds
  <2>4. toDev' = << >>
    BY <1>4, <1>13
  <2>5. FramesAreSafe' /\ NoReads'
    BY <1>5, <2>4 DEF FramesAreSafe, NoReads
  <2>6. ReadInOrder'
    BY <1>13, <2>5 DEF ReadInOrder
  <2>7. HostInOrder'
    BY <1>1, <1>13 DEF HostInOrder
  <2>8. BeforeStart'
    BY <1>5, <1>13, <2>4 DEF BeforeStart
  <2>9. WritesAreSafe'
    BY <2>8 DEF WritesAreSafe
  <2> QED
    BY <2>3, <2>5, <2>6, <2>7, <2>9 DEF ReadBackInv
<1> QED
  BY <1>11, <1>12, <1>13

----
\* What is left of the queue when its first frame is received or lost.
LEMMA FramesLeave ==
    ASSUME TypeOK, toDev # << >>, toDev' = Tail(toDev)
    PROVE  /\ 1 \in DOMAIN toDev
           /\ \A i \in DOMAIN toDev' :
                 /\ i + 1 \in DOMAIN toDev /\ toDev'[i] = toDev[i + 1]
                 /\ i + 1 = Len(toDev) => i = Len(toDev')
           /\ Len(toDev) = 1 => toDev' = << >>
           /\ \A a, b : /\ toDev = <<a>> => toDev' = << >>
                        /\ toDev = <<a, b>> => toDev' = <<b>>
<1>1. toDev \in Seq(Frames) /\ Len(toDev) \in Nat /\ Len(toDev) # 0
  BY DEF TypeOK
<1>2. /\ toDev' \in Seq(Frames) /\ Len(toDev') = Len(toDev) - 1
      /\ \A i \in 1 .. Len(toDev') : toDev'[i] = toDev[i + 1]
  BY <1>1, HeadTailProperties
<1>3. DOMAIN toDev = 1 .. Len(toDev) /\ DOMAIN toDev' = 1 .. Len(toDev) - 1
  BY <1>1, <1>2
<1>4. 1 \in DOMAIN toDev
  BY <1>1, <1>3
<1>5. ASSUME NEW i \in DOMAIN toDev'
      PROVE  /\ i + 1 \in DOMAIN toDev /\ toDev'[i] = toDev[i + 1]
             /\ i + 1 = Len(toDev) => i = Len(toDev')
  <2>1. i \in 1 .. Len(toDev')
    BY <1>2, <1>3, <1>5
  <2>2. i \in Int
    BY <2>1
  <2>3. toDev'[i] = toDev[i + 1]
    BY <1>2, <2>1
  <2>4. i + 1 \in 1 .. Len(toDev) /\ (i + 1 = Len(toDev) => i = Len(toDev'))
    BY <1>1, <1>2, <2>1, <2>2
  <2> QED
    BY <1>3, <2>3, <2>4
<1>6. Len(toDev) = 1 => toDev' = << >>
  BY <1>2
<1>7. ASSUME NEW a, NEW b, toDev = <<a>> PROVE toDev' = << >>
  BY <1>6, <1>7
<1>8. ASSUME NEW a, NEW b, toDev = <<a, b>> PROVE toDev' = <<b>>
  <2>1. Len(toDev) = 2 /\ toDev[2] = b
    BY <1>8
  <2>2. Len(toDev') = 1 /\ toDev'[1] = b
    BY <1>2, <2>1
  <2>3. b \in Frames
    <3>1. 2 \in DOMAIN toDev
      BY <1>1, <1>3, <2>1
    <3>2. toDev[2] \in Frames
      BY <1>1, <3>1
    <3> QED
      BY <2>1, <3>2
  <2>4. <<b>> \in Seq(Frames) /\ Len(<<b>>) = 1 /\ <<b>>[1] = b
    BY <2>3
  <2>5. \A i \in 1 .. Len(toDev') : toDev'[i] = <<b>>[i]
    BY <2>2, <2>4
  <2> QED
    BY <1>2, <2>2, <2>4, <2>5, SeqEqual
<1> QED
  BY <1>4, <1>5, <1>6, <1>7, <1>8

LEMMA AnswerFacts ==
    ASSUME TypeOK, NEW r, Answer(r)
    PROVE  /\ \A i \in DOMAIN toHost' : \/ i \in DOMAIN toHost /\ toHost'[i] = toHost[i]
                                        \/ i = Len(toHost') /\ toHost'[i] = r
           /\ NoAck => LastAck'
           /\ NoAck /\ r.rep # "ACK" => NoAck'
<1>1. toHost \in Seq(Replies) /\ toHost' = Append(toHost, r) /\ Len(toHost) \in Nat
  BY DEF TypeOK, Answer
<1>2. /\ Len(toHost') = Len(toHost) + 1 /\ DOMAIN toHost' = 1 .. Len(toHost) + 1
      /\ DOMAIN toHost = 1 .. Len(toHost)
  BY <1>1
<1>3. ASSUME NEW i \in 1 .. Len(toHost) + 1
      PROVE  \/ i \in 1 .. Len(toHost) /\ toHost'[i] = toHost[i]
             \/ i = Len(toHost) + 1 /\ toHost'[i] = r
  BY <1>1
<1>4. NoAck => LastAck'
  BY <1>2, <1>3 DEF NoAck, LastAck
<1>5. NoAck /\ r.rep # "ACK" => NoAck'
  BY <1>2, <1>3 DEF NoAck
<1> QED
  BY <1>2, <1>3, <1>4, <1>5

\* While no START_DATA has reached the device, none does in this step.
LEMMA StillBeforeStart ==
    ASSUME TypeOK, BeforeStart, toDev # << >>, toDev' = Tail(toDev), pc' = pc, pos' = pos,
           \/ toHost' = toHost
           \/ \E r \in Replies : Answer(r) /\ (r.rep = "ACK" => toDev[1].cmd # "START_DATA")
    PROVE  BeforeStart'
<1>1. Entry' = Entry
  BY ReadBackFacts
<1>2. \A i \in DOMAIN toDev' : toDev'[i].cmd # "END_DATA"
  BY FramesLeave DEF BeforeStart
<1>3. NoAck => LastAck
  BY DEF NoAck, LastAck
<1>4. NoAck => LastAck'
  <2>1. CASE toHost' = toHost
    BY <1>3, <2>1 DEF LastAck
  <2> QED
    BY <2>1, AnswerFacts
<1>5. toDev[1].cmd = "START_DATA" /\ NoAck => NoAck'
  <2>1. CASE toHost' = toHost
    BY <2>1 DEF NoAck
  <2> QED
    BY <2>1, AnswerFacts
<1>6. CASE pc = "START_DATA"
  <2>1. toDev = <<StartData(Entry)>> /\ NoAck
    BY <1>6 DEF BeforeStart
  <2>2. toDev[1].cmd = "START_DATA"
    BY <2>1, FrameNames
  <2>3. toDev' = << >>
    BY <2>1, FramesLeave
  <2> QED
    BY <1>2, <1>5, <1>6, <2>1, <2>2, <2>3 DEF BeforeStart
<1>7. CASE pc = "CONNECT"
  <2>1. NoAck /\ toDev \in {<<Connect>>, <<StartData(Entry), Connect>>}
    BY <1>7 DEF BeforeStart
  <2>2. CASE toDev = <<Connect>>
    <3>1. toDev' = << >>
      BY <2>2, FramesLeave
    <3> QED
      BY <1>2, <1>4, <1>7, <2>1, <3>1 DEF BeforeStart
  <2>3. CASE toDev = <<StartData(Entry), Connect>>
    <3>1. toDev' = <<Connect>>
      BY <2>3, FramesLeave
    <3>2. toDev[1] = StartData(Entry)
      BY <2>3
    <3>3. NoAck'
      BY <1>5, <2>1, <3>2, FrameNames
    <3> QED
      BY <1>1, <1>2, <1>7, <3>1, <3>3 DEF BeforeStart
  <2> QED
    BY <2>1, <2>2, <2>3
<1>8. CASE pc = "ERASE_FLASH"
  <2>1. toDev = <<EraseFlash(Entry)>> /\ NoAck
    BY <1>8 DEF BeforeStart
  <2>2. toDev' = << >>
    BY <2>1, FramesLeave
  <2> QED
    BY <1>2, <1>4, <1>8, <2>1, <2>2 DEF BeforeStart
<1>9. CASE pc = "reset"
  BY <1>2, <1>9 DEF BeforeStart
<1>10. pc # "next"
  BY DEF BeforeStart
<1> QED
  BY <1>6, <1>7, <1>8, <1>9, <1>10 DEF BeforeStart, TypeOK, Awaiting, StageSteps

\* The first frame is gone, with or without an answer.
LEMMA LinkMoves ==
    ASSUME VerifyReadback, TypeOK, TypeOK', ReadBackInv, outcome # "err",
           toDev # << >>, toDev' = Tail(toDev), UNCHANGED hostVars,
           cur' # NoWrite /\ cur'.entry \in ReadBack => cur # NoWrite /\ cur.entry \in ReadBack,
           \/ flash' = flash
           \/ toDev[1].cmd # "READ_FLASH" /\ \A e \in ReadBack : Kept(e) => flash'[e] = flash[e],
           \/ toHost' = toHost
           \/ \E r \in Replies :
                 /\ Answer(r)
                 /\ r.rep = "ACK" /\ toDev[1].cmd = "START_DATA" =>
                       ~(cur' # NoWrite /\ cur'.entry \in ReadBack)
                 /\ r.rep = "READ_FLASH" =>
                       pc = "READ_FLASH" /\ toDev[1].cmd = "READ_FLASH" /\ Continues(r.data)
    PROVE  ReadBackInv'
<1>1. /\ HostInOrder /\ WritesAreSafe /\ FramesAreSafe /\ ReadInOrder
      /\ \A e \in ReadBack : Held(e)
  BY DEF ReadBackInv
<1>2. pc' = pc /\ pos' = pos /\ outcome' = outcome /\ back' = back
  BY DEF hostVars
<1>3. ReadBack' = ReadBack /\ Entry' = Entry
  BY <1>2, ReadBackFacts
<1>4. 1 \in DOMAIN toDev /\ \A i \in DOMAIN toDev' :
         /\ i + 1 \in DOMAIN toDev /\ toDev'[i] = toDev[i + 1]
         /\ i + 1 = Len(toDev) => i = Len(toDev')
  BY FramesLeave
<1>5. HostInOrder'
  BY <1>1, <1>2, <1>3 DEF HostInOrder
<1>6. FramesAreSafe'
  BY <1>1, <1>3, <1>4 DEF FramesAreSafe, SafeFrame
<1>7. \A e \in ReadBack' : Held(e)'
  BY <1>1, <1>3 DEF Held, Holds
<1>8. WritesAreSafe'
  <2> SUFFICES ASSUME cur' # NoWrite, cur'.entry \in ReadBack PROVE BeforeStart'
    BY <1>3 DEF WritesAreSafe
  <2>1. BeforeStart
    BY <1>1 DEF WritesAreSafe
  <2> QED
    BY <1>2, <2>1, StillBeforeStart
<1>9. toDev[1].cmd = "READ_FLASH" => flash' = flash
  OBVIOUS
<1>10. ReadInOrder'
  <2>1. CASE pc # "READ_FLASH"
    <3>1. NoReads
      BY <1>1, <2>1 DEF ReadInOrder
    <3>2. \A i \in DOMAIN toDev' : toDev'[i].cmd # "READ_FLASH"
      BY <1>4, <3>1 DEF NoReads
    <3>3. \A i \in DOMAIN toHost' : toHost'[i].rep # "READ_FLASH"
      <4>1. CASE toHost' = toHost
        BY <3>1, <4>1 DEF NoReads
      <4> QED
        BY <2>1, <3>1, <4>1, AnswerFacts DEF NoReads
    <3> QED
      BY <1>2, <2>1, <3>2, <3>3 DEF ReadInOrder, NoReads
  <2>2. CASE pc = "READ_FLASH"
    <3>1. /\ Entry \in PartitionSet
          /\ \A i \in DOMAIN toDev :
                toDev[i].cmd = "READ_FLASH" =>
                    i = Len(toDev) /\ toDev[i].entry = Entry /\ toDev[i].off = Len(back)
          /\ \A i \in DOMAIN toHost : toHost[i].rep # "READ_FLASH"
          /\ back # << >> =>
                /\ \A i \in DOMAIN toDev : toDev[i].cmd = "READ_FLASH"
                /\ Len(back) <= Len(flash[Entry])
                /\ back = SubSeq(flash[Entry], 1, Len(back))
      BY <1>1, <2>2 DEF ReadInOrder
    <3>2. \A i \in DOMAIN toDev' :
             toDev'[i].cmd = "READ_FLASH" =>
                 i = Len(toDev') /\ toDev'[i].entry = Entry /\ toDev'[i].off = Len(back)
      BY <1>4, <3>1
    <3>3. ASSUME NEW i \in DOMAIN toHost', toHost'[i].rep = "READ_FLASH"
          PROVE  i = Len(toHost') /\ toDev' = << >> /\ Continues(toHost[i].data)'
      <4>1. PICK r \in Replies :
               /\ Answer(r)
               /\ r.rep = "READ_FLASH" => toDev[1].cmd = "READ_FLASH" /\ Continues(r.data)
        BY <3>1, <3>3
      <4>2. i = Len(toHost') /\ toHost'[i] = r
        BY <3>1, <3>3, <4>1, AnswerFacts
      <4>3. toDev[1].cmd = "READ_FLASH" /\ Continues(r.data)
        BY <3>3, <4>1, <4>2
      <4>4. toDev' = << >>
        BY <1>4, <3>1, <4>3, FramesLeave
      <4>5. flash' = flash
        BY <1>9, <4>3
      <4>6. Continues(r.data)'
        BY <1>2, <1>3, <4>3, <4>5 DEF Continues
      <4> QED
        BY <4>2, <4>4, <4>6
    <3>4. back # << >> =>
             /\ \A i \in DOMAIN toDev' : toDev'[i].cmd = "READ_FLASH"
             /\ Len(back) <= Len(flash'[Entry])
             /\ back = SubSeq(flash'[Entry], 1, Len(back))
      BY <1>4, <1>9, <3>1
    <3> QED
      BY <1>2, <1>3, <2>2, <3>1, <3>2, <3>3, <3>4 DEF ReadInOrder
  <2> QED
    BY <2>1, <2>2
<1> QED
  BY <1>5, <1>6, <1>7, <1>8, <1>10 DEF ReadBackInv

LEMMA RepliesLost ==
    ASSUME VerifyReadback, TypeOK, TypeOK', ReadBackInv, outcome # "err", LoseReply
    PROVE  ReadBackInv'
<1>1. /\ HostInOrder /\ WritesAreSafe /\ FramesAreSafe /\ ReadInOrder
      /\ \A e \in ReadBack : Held(e)
  BY DEF ReadBackInv
<1>2. /\ pc' = pc /\ pos' = pos /\ outcome' = outcome /\ back' = back /\ toDev' = toDev
      /\ cur' = cur /\ flash' = flash /\ toHost # << >> /\ toHost' = Tail(toHost)
  BY DEF LoseReply, hostVars, devVars
<1>3. ReadBack' = ReadBack /\ Entry' = Entry
  BY <1>2, ReadBackFacts
<1>4. toHost \in Seq(Replies) /\ toHost' \in Seq(Replies) /\ 1 \in 0 .. Len(toHost)
  BY <1>2 DEF TypeOK
<1>5. toHost' = SubSeq(toHost, 1 + 1, Len(toHost))
  BY <1>2, <1>4, TailIsSubSeq
<1>6. \A i \in DOMAIN toHost' :
            /\ i + 1 \in DOMAIN toHost /\ toHost'[i] = toHost[i + 1]
            /\ i + 1 = Len(toHost) => i = Len(toHost')
  BY <1>4, <1>5, RepliesLeave
<1>7. NoAck => NoAck'
  BY <1>4, <1>5, RepliesLeave
<1>8. LastAck => LastAck'
  BY <1>4, <1>5, RepliesLeave
<1>9. HostInOrder' /\ FramesAreSafe'
  BY <1>1, <1>2, <1>3 DEF HostInOrder, FramesAreSafe, SafeFrame
<1>10. \A e \in ReadBack' : Held(e)'
  BY <1>1, <1>2, <1>3, StillHeld
<1>11. BeforeStart => BeforeStart'
  BY <1>2, <1>3, <1>7, <1>8 DEF BeforeStart
<1>12. WritesAreSafe'
  BY <1>1, <1>2, <1>3, <1>11 DEF WritesAreSafe
<1>13. ReadInOrder'
  <2>1. NoReads => NoReads'
    BY <1>2, <1>6 DEF NoReads
  <2>2. \A d : Continues(d) => Continues(d)'
    BY <1>2, <1>3 DEF Continues
  <2> QED
    BY <1>1, <1>2, <1>3, <1>6, <2>1, <2>2 DEF ReadInOrder
<1> QED
  BY <1>9, <1>10, <1>12, <1>13 DEF ReadBackInv

LEMMA ReplyKinds ==
    /\ Ack \in Replies /\ Ack.rep = "ACK"
    /\ Failed \in Replies /\ Failed.rep = "OPERATION_FAILED"
    /\ InvalidCmd \in Replies /\ InvalidCmd.rep = "INVALID_CMD"
    /\ \A d : Data(d).rep = "READ_FLASH" /\ Data(d).data = d
BY ReplyFields DEF Ack, Failed, InvalidCmd, Data

LEMMA PartitionsFirst == \A i \in DOMAIN Partitions : i \in DOMAIN Ops /\ Ops[i] = Partitions[i]
<1> DEFINE rest == IF Format THEN Erases \o Markers ELSE << >>
           All == PartitionSet \cup EraseSet \cup {Markers[i] : i \in DOMAIN Markers}
<1>1. Partitions \in Seq(All) /\ Erases \in Seq(All) /\ Markers \in Seq(All)
  <2>1. PartitionSet \subseteq All /\ EraseSet \subseteq All
        /\ {Markers[i] : i \in DOMAIN Markers} \subseteq All
    OBVIOUS
  <2> HIDE DEF All
  <2> QED
    BY <2>1, OpsAssumption
<1> HIDE DEF All
<1>2. rest \in Seq(All)
  BY <1>1
<1>3. Ops = Partitions \o rest
  BY DEF Ops
<1> HIDE DEF rest
<1> QED
  BY <1>1, <1>2, <1>3

\* Whatever else is written while a partition counts as read back comes after it in the
\* plan.
LEMMA LaterWrite ==
    ASSUME TypeOK, NEW e \in ReadBack, Kept(e), NEW w \in Entries \ ReadBack
    PROVE  w # e /\ <<w, e>> \notin Overlaps
<1>1. PICK i \in 1 .. pos - 1 : Ops[i] = e
  BY DEF ReadBack
<1>2. PICK k \in DOMAIN Partitions : Partitions[k] = e
  BY DEF ReadBack, PartitionSet
<1>3. PICK j \in DOMAIN Ops : Ops[j] = w
  BY DEF Entries
<1>4. pos \in Nat /\ pos <= Len(Ops) + 1 /\ Len(Ops) \in Nat /\ DOMAIN Ops = 1 .. Len(Ops)
  BY OpsAssumption DEF TypeOK
<1>5. i = k
  BY <1>1, <1>2, <1>4, PartitionsFirst, OpsAssumption
<1>6. i < j
  <2> SUFFICES ASSUME j <= i PROVE FALSE
    BY <1>1, <1>3, <1>4
  <2>1. j \in 1 .. pos - 1 /\ j \in DOMAIN Partitions
    BY <1>1, <1>2, <1>3, <1>4, <1>5, OpsAssumption
  <2>2. w \in PartitionSet
    BY <1>3, <2>1, PartitionsFirst DEF PartitionSet
  <2> QED
    BY <1>3, <2>1, <2>2 DEF ReadBack
<1> QED
  BY <1>1, <1>3, <1>4, <1>6 DEF Kept

LEMMA DeviceReadBack ==
    ASSUME VerifyReadback, TypeOK, TypeOK', ReadBackInv, outcome # "err", DeviceStep
    PROVE  ReadBackInv'
<1>1. /\ HostInOrder /\ WritesAreSafe /\ FramesAreSafe /\ ReadInOrder
      /\ \A e \in ReadBack : Held(e)
  BY DEF ReadBackInv
<1>2. toDev # << >> /\ toDev' = Tail(toDev) /\ UNCHANGED hostVars
  BY DEF DeviceStep, DevConnect, DevStart, DevMidst, DevEnd, DevEndBadCell, DevErase, DevRead,
         DevReset, DevRefuse, Receive
<1>3. ReadBack' = ReadBack /\ 1 \in DOMAIN toDev /\ toDev[1] \in Frames
  BY <1>2, ReadBackFacts, FramesLeave DEF hostVars, TypeOK
<1>4. CASE DevConnect
  BY <1>2, <1>4, ReplyKinds, LinkMoves DEF DevConnect, Receive, devVars
<1>5. CASE DevStart
  <2>1. toDev[1].cmd = "START_DATA" /\ cur'.entry = toDev[1].entry /\ flash' = flash /\ Answer(Ack)
    BY <1>5 DEF DevStart, Receive
  <2>2. cur'.entry \notin ReadBack
    BY <1>1, <1>3, <2>1 DEF FramesAreSafe, SafeFrame
  <2> QED
    BY <1>2, <2>1, <2>2, ReplyKinds, LinkMoves
<1>6. CASE DevMidst
  <2>1. flash' = flash /\ Answer(Ack) /\ toDev[1].cmd = "MIDST_DATA"
    BY <1>6 DEF DevMidst, Receive
  <2>2. cur' # NoWrite => cur # NoWrite /\ cur'.entry = cur.entry
    <3>1. CASE cur = NoWrite
      BY <1>6, <3>1 DEF DevMidst
    <3>2. CASE cur # NoWrite
      <4>1. cur \in [entry : Entries, buf : Seq(Units)]
        BY <3>2 DEF TypeOK
      <4>2. cur' = [cur EXCEPT !.buf = cur.buf \o toDev[1].data]
        BY <1>6, <3>2 DEF DevMidst
      <4> QED
        BY <3>2, <4>1, <4>2
    <3> QED
      BY <3>1, <3>2
  <2> QED
    BY <1>2, <2>1, <2>2, ReplyKinds, LinkMoves
<1>7. CASE DevEnd \/ DevEndBadCell
  <2>1. /\ toDev[1].cmd = "END_DATA" /\ cur' = NoWrite
        /\ \E r \in {Ack, Failed} : Answer(r)
        /\ \/ flash' = flash
           \/ cur # NoWrite /\ \E b \in Seq(Units) : Put(cur.entry, b)
    <3>1. cur # NoWrite => cur.buf \in Seq(Units) /\ Old(cur.entry) \in Seq(Units)
      BY OldType DEF TypeOK
    <3> QED
      BY <1>7, <3>1 DEF DevEnd, DevEndBadCell, Receive
  <2>2. cur # NoWrite => cur.entry \notin ReadBack
    BY <1>1, <1>3, <2>1 DEF WritesAreSafe, BeforeStart
  <2>3. \A e \in ReadBack : Kept(e) => flash'[e] = flash[e]
    <3> SUFFICES ASSUME NEW e \in ReadBack, Kept(e), NEW b \in Seq(Units),
                        cur # NoWrite, Put(cur.entry, b)
                 PROVE  flash'[e] = flash[e]
      BY <2>1
    <3>1. cur.entry \in Entries \ ReadBack /\ e \in Entries
      BY <2>2, ReadBackFacts DEF TypeOK
    <3> QED
      BY <3>1, LaterWrite, PutFacts
  <2>4. PICK r \in Replies : Answer(r) /\ r.rep # "READ_FLASH"
    BY <2>1, ReplyKinds
  <2> QED
    BY <1>2, <2>1, <2>3, <2>4, LinkMoves
<1>8. CASE DevErase
  <2>1. /\ toDev[1].cmd = "ERASE_FLASH" /\ cur' = cur /\ Answer(Ack)
        /\ Put(toDev[1].entry, << >>)
    BY <1>8 DEF DevErase, Receive
  <2>2. toDev[1].entry \in EraseSet
    BY <1>1, <1>3, <2>1 DEF FramesAreSafe, SafeFrame
  <2>3. \A e \in ReadBack : Kept(e) => flash'[e] = flash[e]
    <3> SUFFICES ASSUME NEW e \in ReadBack, Kept(e) PROVE flash'[e] = flash[e]
      OBVIOUS
    <3>1. toDev[1].entry \in Entries \ ReadBack /\ e \in Entries
      BY <1>3, <2>1, <2>2, ReadBackFacts, FrameFields
    <3> QED
      BY <2>1, <3>1, LaterWrite, EmptyType, PutFacts
  <2> QED
    BY <1>2, <1>3, <2>1, <2>3, ReplyKinds, LinkMoves
<1>9. CASE DevRead
  <2> DEFINE f == toDev[1]
             held == flash[f.entry]
             upto == Smaller(f.off + f.len, Len(held))
  <2>1. /\ f.cmd = "READ_FLASH" /\ cur' = cur /\ flash' = flash
        /\ Answer(IF f.off < Len(held) THEN Data(SubSeq(held, f.off + 1, upto)) ELSE InvalidCmd)
    BY <1>9 DEF DevRead, Receive, devVars
  <2>2. pc = "READ_FLASH" /\ f.entry = Entry /\ f.off = Len(back)
    BY <1>1, <1>3, <2>1 DEF ReadInOrder, NoReads
  <2>3. CASE f.off < Len(held)
    <3>1. Answer(Data(SubSeq(held, f.off + 1, upto)))
      BY <2>1, <2>3
    <3>2. f.off \in Nat /\ f.len \in Nat /\ Len(held) \in Nat /\ f.entry \in Entries
      <4>1. f \in Frames /\ f.off \in Nat /\ f.len \in Nat /\ f.entry \in Entries
        BY <1>3, <2>1, FrameFields
      <4>2. held \in Seq(Units)
        BY <1>3, <4>1 DEF TypeOK
      <4> QED
        BY <4>1, <4>2
    <3>3. upto \in Len(back) .. Len(flash[Entry])
      BY <2>2, <2>3, <3>2 DEF Smaller
    <3>4. Continues(SubSeq(held, f.off + 1, upto))
      BY <2>2, <3>3 DEF Continues
    <3>5. Data(SubSeq(held, f.off + 1, upto)) \in Replies
      <4>1. held \in Seq(Units) /\ upto \in Nat /\ upto <= Len(held)
        BY <2>2, <3>2, <3>3 DEF TypeOK
      <4>2. \A i \in f.off + 1 .. upto : held[i] \in Units
        BY <3>2, <4>1
      <4>3. SubSeq(held, f.off + 1, upto) \in Seq(Units)
        <5>1. f.off + 1 \in Int /\ upto \in Int
          BY <3>2, <4>1
        <5> HIDE DEF f, held, upto
        <5> QED
          BY <4>2, <5>1, SubSeqProperties
      <4> QED
        BY <4>3, ReplyFields
    <3> HIDE DEF held, upto
    <3> QED
      BY <1>2, <1>3, <2>1, <2>2, <3>1, <3>4, <3>5, ReplyKinds, LinkMoves
  <2>4. CASE ~(f.off < Len(held))
    <3>1. Answer(InvalidCmd)
      BY <2>1, <2>4
    <3> HIDE DEF held, upto
    <3> QED
      BY <1>2, <1>3, <2>1, <3>1, ReplyKinds, LinkMoves
  <2> QED
    BY <2>3, <2>4
<1>10. CASE DevReset
  <2>1. cur' = cur /\ flash' = flash /\ toHost' = toHost
    BY <1>10 DEF DevReset
  <2> QED
    BY <1>2, <1>3, <2>1, LinkMoves
<1>11. CASE DevRefuse
  <2>1. cur' = cur /\ flash' = flash /\ Answer(Failed)
    BY <1>11 DEF DevRefuse, devVars
  <2> QED
    BY <1>2, <1>3, <2>1, ReplyKinds, LinkMoves
<1> QED
  BY <1>4, <1>5, <1>6, <1>7, <1>8, <1>9, <1>10, <1>11 DEF DeviceStep

LEMMA ReadBackStep ==
    ASSUME VerifyReadback, TypeOK, TypeOK', ReadBackInv, [Next]_vars
    PROVE  ReadBackInv'
<1> SUFFICES ASSUME outcome' # "err" PROVE ReadBackInv'
  BY DEF ReadBackInv
<1>1. outcome # "err"
  <2> SUFFICES ASSUME outcome = "err" PROVE outcome' = outcome
    OBVIOUS
  <2>1. ~HostStep /\ ~PortFails
    BY DEF HostStep, BeginStage, BeginErase, PayloadMissing, Finish, AckStart, AckMidst, AckEnd,
           AckConnect, AckErase, DataRead, UnexpectedReply, RetryStage, Retry, TimeoutFails,
           TimedOut, Replied, TakeReply, PortFails
  <2>2. CASE DeviceStep
    BY <2>2 DEF DeviceStep, DevConnect, DevStart, DevMidst, DevEnd, DevEndBadCell, DevErase,
                DevRead, DevReset, DevRefuse, Receive, hostVars
  <2>3. CASE LoseFrame \/ LoseReply \/ Terminated \/ UNCHANGED vars
    BY <2>3 DEF LoseFrame, LoseReply, Terminated, vars, hostVars
  <2> QED
    BY <2>1, <2>2, <2>3 DEF Next
<1>2. CASE BeginStage \/ BeginErase \/ Finish
  BY <1>2, StageSends
<1>3. CASE AckStart \/ AckMidst \/ AckConnect \/ RetryStage
  BY <1>3, StageAcked
<1>4. CASE AckEnd \/ AckErase
  BY <1>4, EntryEnds
<1>5. CASE DataRead
  BY <1>5, ReadAnswered
<1>6. CASE PayloadMissing \/ UnexpectedReply \/ TimeoutFails \/ PortFails
  BY <1>6 DEF PayloadMissing, UnexpectedReply, TimeoutFails, PortFails
<1>7. CASE DeviceStep
  BY <1>1, <1>7, DeviceReadBack
<1>8. CASE LoseFrame
  <2>1. /\ toDev # << >> /\ toDev' = Tail(toDev) /\ UNCHANGED hostVars
        /\ cur' = cur /\ flash' = flash /\ toHost' = toHost
    BY <1>8 DEF LoseFrame, devVars
  <2>2. ReadBack' = ReadBack
    BY <2>1, ReadBackFacts DEF hostVars
  <2> QED
    BY <1>1, <2>1, <2>2, LinkMoves
<1>9. CASE LoseReply
  BY <1>1, <1>9, RepliesLost
<1>10. CASE Terminated \/ UNCHANGED vars
  <2>1. UNCHANGED <<pc, pos, back, outcome, toDev, toHost, cur, flash>>
    BY <1>10 DEF Terminated, vars, hostVars, devVars
  <2>2. ReadBack' = ReadBack /\ Entry' = Entry
    BY <2>1, ReadBackFacts
  <2>3. HostInOrder' = HostInOrder /\ FramesAreSafe' = FramesAreSafe /\ NoReads' = NoReads
    BY <2>1, <2>2 DEF HostInOrder, FramesAreSafe, SafeFrame, NoReads
  <2>4. BeforeStart => BeforeStart'
    BY <2>1, <2>2 DEF BeforeStart, NoAck, LastAck
  <2>5. \A d : Continues(d) => Continues(d)'
    BY <2>1, <2>2 DEF Continues
  <2>6. ReadInOrder => ReadInOrder'
    BY <2>1, <2>2, <2>3, <2>5 DEF ReadInOrder
  <2>7. WritesAreSafe => WritesAreSafe'
    BY <2>1, <2>2, <2>4 DEF WritesAreSafe
  <2>8. (\A e \in ReadBack : Held(e)) => \A e \in ReadBack' : Held(e)'
    BY <2>1, <2>2, StillHeld
  <2> QED
    BY <1>1, <2>3, <2>6, <2>7, <2>8 DEF ReadBackInv
<1> QED
  BY <1>2, <1>3, <1>4, <1>5, <1>6, <1>7, <1>8, <1>9, <1>10 DEF Next, HostStep

\* The operations begin with the partitions.
\* With --verify-readback an Ok can be trusted for every partition that no later entry
\* overlaps, on any link and any flash: replies may be late, lost or refused, and cells
\* may not keep what they are given.
THEOREM OkIsReadBack == VerifyReadback => (Spec => []OkMeansReadBack)
<1> SUFFICES ASSUME VerifyReadback PROVE Spec => []OkMeansReadBack
  OBVIOUS
<1>1. Init => ReadBackInv
  BY DEF Init, ReadBackInv, HostInOrder, WritesAreSafe, FramesAreSafe, ReadInOrder, NoReads,
         ReadBack
<1>2. TypeOK /\ TypeOK' /\ ReadBackInv /\ [Next]_vars => ReadBackInv'
  BY ReadBackStep
<1>3. TypeOK /\ ReadBackInv => OkMeansReadBack
  <2> SUFFICES ASSUME TypeOK, ReadBackInv, outcome = "ok", NEW e \in PartitionSet, Kept(e)
               PROVE  Holds(e)
    BY DEF OkMeansReadBack
  <2>1. pos = Len(Ops) + 1 /\ \A f \in ReadBack : Held(f)
    BY DEF ReadBackInv, HostInOrder
  <2>2. PICK i \in DOMAIN Partitions : Partitions[i] = e
    BY DEF PartitionSet
  <2>3. PICK k \in DOMAIN Ops : Ops[k] = e
    BY <2>2, PartitionsFirst
  <2>4. k \in 1 .. pos - 1
    BY <2>1, OpsAssumption
  <2> QED
    BY <2>1, <2>3, <2>4 DEF ReadBack, Held
<1> QED
  BY <1>1, <1>2, <1>3, TypeCorrect, PTL DEF Spec

----
(***************************************************************************)
(* The back-off.                                                           *)
(***************************************************************************)
LEMMA LeastIndex ==
    ASSUME NEW T, T \subseteq Nat, T # {}
    PROVE  \E m \in T : \A n \in T : m <= n
<1>1. PICK m \in T : \A n \in T : <<n, m>> \notin OpToRel(<, Nat)
  BY WFMin, NatLessThanWellFounded, Zenon
<1>2. \A n \in T : ~(n < m)
  BY <1>1, Zenon DEF OpToRel
<1> QED
  BY <1>2

\* The chunk after a stall.
Half(c) == Larger(c \div 2, MinChunk)

LEMMA HalfIsLess ==
    \A c \in Nat : Half(c) \in Nat /\ (c > MinChunk => Half(c) < c)
BY OptionAssumption, SmallerLarger DEF Half, Larger

\* f counts the halvings of the chunks up to n.
Counts(f, n) ==
    /\ f \in [0 .. n -> Nat]
    /\ \A c \in 0 .. n : f[c] = IF c <= MinChunk THEN 0 ELSE 1 + f[Half(c)]

LEMMA CountsExist == \A n \in Nat : \E f : Counts(f, n)
<1> DEFINE T == {n \in Nat : ~\E f : Counts(f, n)}
<1> SUFFICES ASSUME T # {} PROVE FALSE
  OBVIOUS
<1>1. T \subseteq Nat
  OBVIOUS
<1>2. PICK n \in T : \A m \in T : n <= m
  <2> HIDE DEF T
  <2> QED
    BY <1>1, LeastIndex
<1>3. n \in Nat /\ ~\E f : Counts(f, n)
  OBVIOUS
<1>4. MinChunk \in Nat /\ MinChunk > 0
  BY OptionAssumption
<1>5. CASE n = 0
  <2>1. Counts([c \in 0 .. n |-> 0], n)
    BY <1>4, <1>5 DEF Counts
  <2> QED
    BY <1>3, <2>1
<1>6. CASE n # 0
  <2>1. n - 1 \in Nat /\ ~(n <= n - 1)
    BY <1>3, <1>6
  <2>2. PICK f : Counts(f, n - 1)
    BY <1>2, <2>1
  <2> DEFINE g == [c \in 0 .. n |-> IF c < n THEN f[c]
                                    ELSE IF c <= MinChunk THEN 0 ELSE 1 + f[Half(c)]]
  <2>3. \A c \in 0 .. n : c > MinChunk => Half(c) \in 0 .. n - 1
    BY <1>3, <1>4, HalfIsLess
  <2>4. \A c \in 0 .. n : c < n => c \in 0 .. n - 1
    BY <1>3
  <2>5. \A c \in 0 .. n - 1 : f[c] \in Nat
    BY <2>2 DEF Counts
  <2>6. g \in [0 .. n -> Nat]
    <3>1. \A c \in 0 .. n : IF c < n THEN f[c] \in Nat
                            ELSE IF c <= MinChunk THEN 0 \in Nat ELSE 1 + f[Half(c)] \in Nat
      BY <1>3, <1>4, <2>3, <2>4, <2>5
    <3> QED
      BY <3>1
  <2>7. ASSUME NEW c \in 0 .. n PROVE g[c] = IF c <= MinChunk THEN 0 ELSE 1 + g[Half(c)]
    <3>1. c > MinChunk => g[Half(c)] = f[Half(c)]
      <4>1. c > MinChunk => Half(c) < n /\ Half(c) \in 0 .. n
        BY <1>3, <2>3, HalfIsLess
      <4> QED
        BY <4>1
    <3>2. c \in Nat /\ (~(c <= MinChunk) => c > MinChunk)
      BY <1>3, <1>4
    <3>3. CASE c < n
      <4>1. g[c] = f[c] /\ f[c] = IF c <= MinChunk THEN 0 ELSE 1 + f[Half(c)]
        BY <2>2, <2>4, <3>3 DEF Counts
      <4> HIDE DEF g
      <4> QED
        BY <3>1, <3>2, <4>1
    <3>4. CASE ~(c < n)
      <4>1. g[c] = IF c <= MinChunk THEN 0 ELSE 1 + f[Half(c)]
        BY <3>4
      <4> HIDE DEF g
      <4> QED
        BY <3>1, <3>2, <4>1
    <3> QED
      BY <3>3, <3>4
  <2> HIDE DEF g
  <2>8. Counts(g, n)
    BY <2>6, <2>7 DEF Counts
  <2> QED
    BY <1>3, <2>8
<1> QED
  BY <1>5, <1>6

LEMMA CountsAgree ==
    ASSUME NEW m \in Nat, NEW n \in Nat, m <= n, NEW f, NEW g, Counts(f, m), Counts(g, n)
    PROVE  \A c \in 0 .. m : f[c] = g[c]
<1> DEFINE T == {c \in 0 .. m : f[c] # g[c]}
<1> SUFFICES ASSUME T # {} PROVE FALSE
  OBVIOUS
<1>1. T \subseteq Nat
  OBVIOUS
<1>2. PICK c \in T : \A d \in T : c <= d
  <2> HIDE DEF T
  <2> QED
    BY <1>1, LeastIndex
<1>3. c \in 0 .. m /\ c \in 0 .. n /\ c \in Nat /\ f[c] # g[c]
  OBVIOUS
<1>4. /\ f[c] = IF c <= MinChunk THEN 0 ELSE 1 + f[Half(c)]
      /\ g[c] = IF c <= MinChunk THEN 0 ELSE 1 + g[Half(c)]
  BY <1>3 DEF Counts
<1>5. MinChunk \in Nat
  BY OptionAssumption
<1>6. c > MinChunk => Half(c) \in 0 .. m /\ ~(c <= Half(c))
  BY <1>3, <1>5, HalfIsLess
<1>7. c > MinChunk => f[Half(c)] = g[Half(c)]
  BY <1>2, <1>6
<1> QED
  BY <1>3, <1>4, <1>5, <1>7

LEMMA HalvingsFacts ==
    /\ Halvings \in [Nat -> Nat]
    /\ \A c \in Nat : Halvings[c] = IF c <= MinChunk THEN 0 ELSE 1 + Halvings[Half(c)]
<1> DEFINE F(n) == CHOOSE f : Counts(f, n)
           H == [c \in Nat |-> F(c)[c]]
           Body(h) == [c \in Nat |-> IF c <= MinChunk THEN 0 ELSE 1 + h[Half(c)]]
<1>1. \A n \in Nat : Counts(F(n), n)
  BY CountsExist
<1> HIDE DEF F
<1>2. MinChunk \in Nat
  BY OptionAssumption
<1>3. ASSUME NEW c \in Nat PROVE H[c] = IF c <= MinChunk THEN 0 ELSE 1 + H[Half(c)]
  <2>1. F(c)[c] = IF c <= MinChunk THEN 0 ELSE 1 + F(c)[Half(c)]
    <3>1. c \in 0 .. c
      OBVIOUS
    <3> QED
      BY <1>1, <3>1 DEF Counts
  <2>2. c > MinChunk => F(Half(c))[Half(c)] = F(c)[Half(c)]
    <3> SUFFICES ASSUME c > MinChunk PROVE F(Half(c))[Half(c)] = F(c)[Half(c)]
      OBVIOUS
    <3>1. Half(c) \in Nat /\ Half(c) <= c /\ Half(c) \in 0 .. Half(c)
      BY <1>2, HalfIsLess
    <3>2. Counts(F(Half(c)), Half(c)) /\ Counts(F(c), c)
      BY <1>1, <3>1
    <3> QED
      BY <3>1, <3>2, CountsAgree
  <2>3. H[c] = F(c)[c] /\ H[Half(c)] = F(Half(c))[Half(c)]
    BY HalfIsLess
  <2> HIDE DEF H
  <2> QED
    BY <1>2, <2>1, <2>2, <2>3
<1>4. H = Body(H)
  <2>1. DOMAIN H = Nat
    OBVIOUS
  <2>2. H = [c \in Nat |-> H[c]]
    OBVIOUS
  <2> HIDE DEF H
  <2> QED
    BY <1>3, <2>2
<1> HIDE DEF H
<1>5. Halvings = Body(Halvings)
  <2>1. Halvings = CHOOSE h : h = Body(h)
    BY DEF Halvings, Half
  <2> HIDE DEF Body
  <2> QED
    BY <1>4, <2>1
<1>6. \A c \in Nat : Halvings[c] = IF c <= MinChunk THEN 0 ELSE 1 + Halvings[Half(c)]
  BY <1>5
<1>7. \A c \in Nat : Halvings[c] \in Nat
  <2> DEFINE T == {c \in Nat : Halvings[c] \notin Nat}
  <2> SUFFICES ASSUME T # {} PROVE FALSE
    OBVIOUS
  <2>1. T \subseteq Nat
    OBVIOUS
  <2>2. PICK c \in T : \A d \in T : c <= d
    <3> HIDE DEF T
    <3> QED
      BY <2>1, LeastIndex
  <2>3. c \in Nat /\ Halvings[c] \notin Nat
    OBVIOUS
  <2>4. CASE c <= MinChunk
    BY <1>6, <2>3, <2>4
  <2>5. CASE ~(c <= MinChunk)
    <3>1. Half(c) \in Nat /\ ~(c <= Half(c))
      BY <1>2, <2>3, <2>5, HalfIsLess
    <3>2. Halvings[Half(c)] \in Nat
      BY <2>2, <3>1
    <3>3. Halvings[c] = 1 + Halvings[Half(c)]
      BY <1>6, <2>3, <2>5
    <3> QED
      BY <2>3, <3>2, <3>3
  <2> QED
    BY <2>4, <2>5
<1>8. DOMAIN Body(Halvings) = Nat
  OBVIOUS
<1>9. Halvings = [c \in Nat |-> Halvings[c]]
  BY <1>5, <1>8
<1> QED
  BY <1>6, <1>7, <1>9

\* Every halving has cost a loss, and so has an empty link on which a reply is awaited.
Silent == toDev = <<>> /\ toHost = <<>>
StallInv ==
    outcome = "running" /\ pc \in StageSteps \cup {"CONNECT"} =>
        losses + Halvings[chunk] >= Halvings[Chunk] + (IF Silent THEN 1 ELSE 0)

LEMMA AppendSome ==
    ASSUME NEW S, NEW s \in Seq(S), NEW e
    PROVE  Append(s, e) # <<>>
<1> DEFINE R == S \cup {e}
<1>1. s \in Seq(R) /\ e \in R
  OBVIOUS
<1> HIDE DEF R
<1>2. Len(Append(s, e)) = Len(s) + 1 /\ Len(s) \in Nat
  BY <1>1, AppendProperties
<1>3. Len(<<>>) = 0
  OBVIOUS
<1> QED
  BY <1>2, <1>3

LEMMA StallStep == PromptLink /\ PromptInv /\ StallInv /\ [Next]_vars => StallInv'
<1> SUFFICES ASSUME PromptLink, PromptInv, StallInv, [Next]_vars,
                    outcome' = "running", pc' \in StageSteps \cup {"CONNECT"}
             PROVE  losses' + Halvings[chunk'] >=
                        Halvings[Chunk] + (IF Silent' THEN 1 ELSE 0)
  BY DEF StallInv
<1> USE DEF hostVars, devVars
<1>1. TypeOK /\ TypeOK' /\ RequestInFlight
  BY StepType DEF PromptInv
<1>2. /\ losses \in Nat /\ losses' \in Nat /\ chunk \in Nat /\ chunk' \in Nat
      /\ Chunk \in Nat /\ Chunk > 0 /\ MinChunk \in Nat
  BY <1>1, OptionAssumption DEF TypeOK
<1>3. Halvings[chunk] \in Nat /\ Halvings[chunk'] \in Nat /\ Halvings[Chunk] \in Nat
  BY <1>2, HalvingsFacts
<1>4. \A f : Send(f) => ~Silent'
  <2> SUFFICES ASSUME NEW f, Send(f), toDev' = <<>> PROVE FALSE
    BY DEF Silent
  <2> QED
    BY <1>1, AppendSome DEF Send, TypeOK
<1>5. ASSUME NEW n, SendPiece(n) PROVE ~Silent'
  BY <1>4, <1>5 DEF SendPiece
<1>6. \A r : Answer(r) => ~Silent'
  <2> SUFFICES ASSUME NEW r, Answer(r), toHost' = <<>> PROVE FALSE
    BY DEF Silent
  <2> QED
    BY <1>1, AppendSome DEF Answer, TypeOK
\* A step of a stage that leaves something on the link.
<1>7. ASSUME outcome = "running", pc \in StageSteps \cup {"CONNECT"}, ~Silent',
             chunk' = chunk, losses' = losses
      PROVE  losses' + Halvings[chunk'] >=
                 Halvings[Chunk] + (IF Silent' THEN 1 ELSE 0)
  BY <1>2, <1>3, <1>7 DEF StallInv
<1>8. CASE BeginStage
  <2>1. chunk' = Chunk /\ ~Silent'
    BY <1>2, <1>4, <1>8, SmallerLarger DEF BeginStage, Larger
  <2> QED
    BY <1>2, <1>3, <2>1
<1>9. CASE AckStart \/ AckMidst \/ AckConnect
  <2>1. ~Silent'
    BY <1>4, <1>5, <1>9 DEF AckStart, AckMidst, AckConnect
  <2> QED
    BY <1>7, <1>9, <2>1 DEF AckStart, AckMidst, AckConnect, Replied, TakeReply, StageSteps
<1>10. CASE RetryStage
  <2>1. /\ outcome = "running" /\ pc \in StageSteps /\ chunk > MinChunk /\ Silent
        /\ chunk' = Half(chunk) /\ losses' = losses /\ ~Silent'
    BY <1>4, <1>10 DEF RetryStage, Retry, CanRetry, TimedOut, PromptLink, Silent, Half
  <2>2. Halvings[chunk] = 1 + Halvings[chunk']
    BY <1>2, <2>1, HalvingsFacts
  <2>3. losses + Halvings[chunk] >= Halvings[Chunk] + 1
    BY <2>1 DEF StallInv
  <2> QED
    BY <1>2, <1>3, <2>1, <2>2, <2>3
<1>11. CASE DeviceStep
  <2>1. /\ UNCHANGED <<pc, outcome, chunk, losses>> /\ toDev # <<>>
    BY <1>11 DEF DeviceStep, DevConnect, DevStart, DevMidst, DevEnd, DevEndBadCell, DevErase,
       DevRead, DevReset, DevRefuse, Receive
  <2>2. ~DevReset
    BY <1>1, <2>1 DEF DevReset, Receive, RequestInFlight, StageSteps
  <2>3. ~Silent'
    BY <1>6, <1>11, <2>2 DEF DeviceStep, DevConnect, DevStart, DevMidst, DevEnd,
       DevEndBadCell, DevErase, DevRead, DevRefuse
  <2> QED
    BY <1>7, <2>1, <2>3
<1>12. CASE LoseFrame \/ LoseReply
  <2>1. /\ UNCHANGED <<pc, outcome, chunk>> /\ losses' = losses + 1 /\ ~Silent
    BY <1>12 DEF LoseFrame, LoseReply, Silent
  <2>2. losses + Halvings[chunk] >= Halvings[Chunk]
    BY <2>1, <1>2, <1>3 DEF StallInv
  <2> QED
    BY <1>2, <1>3, <2>1, <2>2
<1>13. CASE UNCHANGED vars \/ Terminated
  <2>1. UNCHANGED <<pc, outcome, chunk, losses, toDev, toHost>>
    BY <1>13 DEF vars, Terminated
  <2> QED
    BY <2>1 DEF StallInv, Silent
<1>14. ~(BeginErase \/ PayloadMissing \/ Finish \/ AckEnd \/ AckErase \/ DataRead
            \/ UnexpectedReply \/ TimeoutFails \/ PortFails)
  BY DEF BeginErase, PayloadMissing, Finish, AckEnd, AckErase, DataRead, UnexpectedReply,
     TimeoutFails, PortFails, SendRead, StageSteps, Replied
<1> QED
  BY <1>8, <1>9, <1>10, <1>11, <1>12, <1>13, <1>14 DEF Next, HostStep

\* On a prompt link a stage is given up only when more frames and replies were lost than
\* its chunk has halvings, whatever the chunk and its floor.
THEOREM StallsSurvived == PromptLink => (Spec => StallsAreSurvived)
<1> SUFFICES ASSUME PromptLink PROVE Spec => StallsAreSurvived
  OBVIOUS
<1>1. Init => StallInv
  BY DEF Init, StallInv, StageSteps
<1>2. ASSUME TypeOK, StallInv, [Next]_vars
      PROVE  [TimeoutFails /\ pc \in StageSteps => losses > Halvings[Chunk]]_vars
  <2> SUFFICES ASSUME TimeoutFails, pc \in StageSteps PROVE losses > Halvings[Chunk]
    OBVIOUS
  <2>1. /\ losses \in Nat /\ chunk \in Nat /\ Chunk \in Nat /\ MinChunk \in Nat
    BY <1>2, OptionAssumption DEF TypeOK
  <2>2. Silent /\ outcome = "running" /\ ~(chunk > MinChunk)
    BY DEF TimeoutFails, TimedOut, CanRetry, PromptLink, Silent
  <2>3. Halvings[chunk] = 0 /\ Halvings[Chunk] \in Nat
    BY <2>1, <2>2, HalvingsFacts
  <2>4. losses + Halvings[chunk] >= Halvings[Chunk] + 1
    BY <1>2, <2>2 DEF StallInv
  <2> QED
    BY <2>1, <2>3, <2>4
<1>3. Spec => []StallInv
  BY <1>1, StallStep, PromptInvariant, PTL DEF Spec
<1> QED
  BY <1>2, <1>3, TypeCorrect, PTL DEF Spec, StallsAreSurvived

----
(***************************************************************************)
(* The plan of a PAC: no entry falls between its lists.                    *)
(***************************************************************************)
\* A list of the plan has the id of every entry that it is made of.
LEMMA IdsComplete ==
    ASSUME NEW S, S \subseteq DOMAIN Pac, NEW i \in S
    PROVE  \E k \in DOMAIN Ids(S) : Ids(S)[k] = Pac[i].id
<1> DEFINE UpTo(n) == {j \in S : j <= n}
<1>1. DOMAIN Pac = 1 .. Len(Pac) /\ Len(Pac) \in Nat
  BY PlanAssumption
<1>2. IsFiniteSet(S) /\ S \subseteq Nat
  <2>1. IsFiniteSet(1 .. Len(Pac))
    BY <1>1, FS_Interval
  <2>2. S \in SUBSET (1 .. Len(Pac))
    BY <1>1
  <2>3. IsFiniteSet(S)
    BY <2>1, <2>2, FS_Subset
  <2> QED
    BY <2>2, <2>3
<1>3. \A n \in S : /\ IsFiniteSet(UpTo(n)) /\ Cardinality(UpTo(n)) \in Nat
                   /\ Cardinality(UpTo(n)) <= Cardinality(S)
  <2> SUFFICES ASSUME NEW n \in S
               PROVE  /\ IsFiniteSet(UpTo(n)) /\ Cardinality(UpTo(n)) \in Nat
                      /\ Cardinality(UpTo(n)) <= Cardinality(S)
    OBVIOUS
  <2>1. UpTo(n) \in SUBSET S
    OBVIOUS
  <2> HIDE DEF UpTo
  <2> QED
    BY <1>2, <2>1, FS_Subset, FS_CardinalityType
<1>4. Cardinality(UpTo(i)) > 0
  <2>1. UpTo(i) # {}
    BY <1>2
  <2> HIDE DEF UpTo
  <2> QED
    BY <1>3, <2>1, FS_EmptySet
<1>5. ASSUME NEW m \in S, NEW n \in S, Cardinality(UpTo(m)) = Cardinality(UpTo(n)), m < n
      PROVE  FALSE
  <2>1. UpTo(m) \in SUBSET UpTo(n) /\ n \in UpTo(n) /\ n \notin UpTo(m)
    BY <1>2, <1>5
  <2> HIDE DEF UpTo
  <2>2. UpTo(n) = UpTo(m)
    BY <1>3, <1>5, <2>1, FS_Subset
  <2> QED
    BY <2>1, <2>2
<1>6. \A m, n \in S : Cardinality(UpTo(m)) = Cardinality(UpTo(n)) => m = n
  <2> SUFFICES ASSUME NEW m \in S, NEW n \in S, Cardinality(UpTo(m)) = Cardinality(UpTo(n))
               PROVE  m = n
    OBVIOUS
  <2>1. ~(m < n) /\ ~(n < m)
    BY <1>5
  <2> QED
    BY <1>2, <2>1
<1> DEFINE k == Cardinality(UpTo(i))
<1>7. Nth(S, k) = i
  <2>1. Nth(S, k) \in S /\ Cardinality(UpTo(Nth(S, k))) = k
    BY DEF Nth
  <2> HIDE DEF UpTo
  <2> QED
    BY <1>6, <2>1
<1>8. k \in 1 .. Cardinality(S)
  <2>1. Cardinality(S) \in Nat
    BY <1>2, FS_CardinalityType
  <2> HIDE DEF UpTo
  <2> QED
    BY <1>3, <1>4, <2>1
<1>9. k \in DOMAIN Ids(S)
  BY <1>8 DEF Ids
<1>10. Ids(S)[k] = Pac[i].id
  BY <1>7, <1>8 DEF Ids
<1> HIDE DEF k
<1> QED
  BY <1>9, <1>10

----
\* With --format the erases and the markers are operations too.
LEMMA FormatOps ==
    ASSUME Format
    PROVE  /\ \A i \in DOMAIN Erases : \E k \in DOMAIN Ops : Ops[k] = Erases[i]
           /\ \A i \in DOMAIN Markers : \E k \in DOMAIN Ops : Ops[k] = Markers[i]
<1> DEFINE All == PartitionSet \cup EraseSet \cup {Markers[i] : i \in DOMAIN Markers}
           rest == Erases \o Markers
<1>1. Partitions \in Seq(All) /\ Erases \in Seq(All) /\ Markers \in Seq(All)
  <2>1. /\ PartitionSet \subseteq All /\ EraseSet \subseteq All
        /\ {Markers[i] : i \in DOMAIN Markers} \subseteq All
    OBVIOUS
  <2> HIDE DEF All
  <2> QED
    BY <2>1, OpsAssumption
<1> HIDE DEF All
<1>2. /\ rest \in Seq(All) /\ Len(rest) = Len(Erases) + Len(Markers)
      /\ \A i \in 1 .. Len(Erases) : rest[i] = Erases[i]
      /\ \A i \in 1 .. Len(Markers) : rest[Len(Erases) + i] = Markers[i]
  BY <1>1
<1>3. Ops = Partitions \o rest
  BY DEF Ops
<1> HIDE DEF rest
<1>4. /\ Len(Ops) = Len(Partitions) + Len(rest) /\ DOMAIN Ops = 1 .. Len(Ops)
      /\ \A i \in 1 .. Len(rest) : Ops[Len(Partitions) + i] = rest[i]
  <2>1. Partitions \o rest \in Seq(All) /\ Len(Partitions \o rest) = Len(Partitions) + Len(rest)
    BY <1>1, <1>2, ConcatProperties
  <2>2. \A i \in 1 .. Len(rest) : (Partitions \o rest)[Len(Partitions) + i] = rest[i]
    BY <1>1, <1>2
  <2>3. DOMAIN (Partitions \o rest) = 1 .. Len(Partitions \o rest)
    BY <2>1
  <2> QED
    BY <1>3, <2>1, <2>2, <2>3
<1>5. /\ DOMAIN Erases = 1 .. Len(Erases) /\ DOMAIN Markers = 1 .. Len(Markers)
      /\ Len(Erases) \in Nat /\ Len(Markers) \in Nat /\ Len(Partitions) \in Nat
  BY <1>1
<1>6. ASSUME NEW i \in DOMAIN Erases PROVE \E k \in DOMAIN Ops : Ops[k] = Erases[i]
  <2>1. i \in 1 .. Len(rest) /\ Len(Partitions) + i \in DOMAIN Ops
    BY <1>2, <1>4, <1>5
  <2>2. Ops[Len(Partitions) + i] = Erases[i]
    BY <1>2, <1>4, <1>5, <2>1
  <2> QED
    BY <2>1, <2>2
<1>7. ASSUME NEW i \in DOMAIN Markers PROVE \E k \in DOMAIN Ops : Ops[k] = Markers[i]
  <2> DEFINE n == Len(Erases) + i
  <2>1. n \in 1 .. Len(rest) /\ rest[n] = Markers[i]
    BY <1>2, <1>5
  <2> HIDE DEF n
  <2>2. Len(Partitions) + n \in DOMAIN Ops /\ Ops[Len(Partitions) + n] = Markers[i]
    BY <1>2, <1>4, <1>5, <2>1
  <2> QED
    BY <2>2
<1> QED
  BY <1>6, <1>7

LEMMA IdIsOp ==
    ASSUME NEW S, S \subseteq DOMAIN Pac, NEW i \in S,
           \A k \in DOMAIN Ids(S) : \E n \in DOMAIN Ops : Ops[n] = Ids(S)[k]
    PROVE  \E n \in DOMAIN Ops : Ops[n] = Pac[i].id
BY IdsComplete

\* What the PAC wants written is an operation of the session.
LEMMA WantedIsOp ==
    ASSUME NEW i \in DOMAIN Pac, Wanted(Pac[i])
    PROVE  \E n \in DOMAIN Ops : Ops[n] = Pac[i].id
<1>1. Pac[i] \in PacEntries
  BY PlanAssumption
<1>2. CASE Logical(Pac[i])
  <2> DEFINE S == {j \in DOMAIN Pac : IsData(Pac[j])}
  <2>1. Format /\ IsData(Pac[i])
    BY <1>1, <1>2 DEF Wanted, IsData, PacEntries
  <2>2. i \in S /\ Markers = Ids(S)
    BY <2>1, PlanOfPac DEF DataMarkers
  <2>3. S \subseteq DOMAIN Pac
    OBVIOUS
  <2>4. \A k \in DOMAIN Ids(S) : \E n \in DOMAIN Ops : Ops[n] = Ids(S)[k]
    BY <2>1, <2>2, FormatOps
  <2> HIDE DEF S
  <2> QED
    BY <2>2, <2>3, <2>4, IdIsOp
<1>3. CASE ~Logical(Pac[i])
  <2> DEFINE S == {j \in DOMAIN Pac : Classify(Pac[j]) = "flash"}
  <2>1. Pac[i].id \notin FdlPrefixed /\ Pac[i].id \notin Fdl2Prefixed
    BY <1>3, PlanAssumption DEF Wanted, Loader
  <2>2. Classify(Pac[i]) = "flash"
    BY <1>1, <1>3, <2>1 DEF Wanted, Classify, PacEntries
  <2>3. i \in S /\ Partitions = Ids(S)
    BY <2>2, PlanOfPac DEF PlanPartitions, OfRole, WithRole
  <2>4. S \subseteq DOMAIN Pac
    OBVIOUS
  <2>5. \A k \in DOMAIN Ids(S) : \E n \in DOMAIN Ops : Ops[n] = Ids(S)[k]
    BY <2>3, PartitionsFirst
  <2> HIDE DEF S
  <2> QED
    BY <2>3, <2>4, <2>5, IdIsOp
<1> QED
  BY <1>2, <1>3

\* The first format marker of an address is an erase of the plan.
LEMMA ErasedOnce ==
    ASSUME NEW i \in DOMAIN Pac, Erasable(Pac[i])
    PROVE  \E j \in DOMAIN Pac : /\ Pac[j].address = Pac[i].address
                                 /\ Pac[j].id \in EraseSet
                                 /\ \E n \in DOMAIN Ops : Ops[n] = Pac[j].id
<1> DEFINE T == {j \in DOMAIN Pac : IsErase(Pac[j]) /\ Pac[j].address = Pac[i].address}
           S == {j \in DOMAIN Pac : IsErase(Pac[j]) /\ ~Repeated(j)}
<1>1. DOMAIN Pac = 1 .. Len(Pac) /\ Len(Pac) \in Nat
  BY PlanAssumption
<1>2. T \subseteq Nat /\ i \in T
  BY <1>1 DEF Erasable, IsErase
<1>3. PICK j \in T : \A n \in T : j <= n
  <2> HIDE DEF T
  <2> QED
    BY <1>2, LeastIndex
<1>4. j \in DOMAIN Pac /\ IsErase(Pac[j]) /\ Pac[j].address = Pac[i].address
  OBVIOUS
<1>5. ~Repeated(j)
  <2> SUFFICES ASSUME NEW n \in 1 .. j - 1, IsErase(Pac[n]), Pac[n].address = Pac[j].address
               PROVE  FALSE
    BY DEF Repeated
  <2>1. n \in T /\ n < j
    BY <1>1, <1>4
  <2> QED
    BY <1>1, <1>3, <1>4, <2>1
<1>6. j \in S /\ S \subseteq DOMAIN Pac
  BY <1>4, <1>5
<1>7. Format /\ Erases = Ids(S)
  BY PlanOfPac DEF Erasable, EraseOps
<1> HIDE DEF S
<1>8. \A k \in DOMAIN Ids(S) : \E n \in DOMAIN Ops : Ops[n] = Ids(S)[k]
  BY <1>7, FormatOps
<1>9. \E n \in DOMAIN Ops : Ops[n] = Pac[j].id
  BY <1>6, <1>8, IdIsOp
<1>10. Pac[j].id \in EraseSet
  <2>1. PICK k \in DOMAIN Ids(S) : Ids(S)[k] = Pac[j].id
    BY <1>6, IdsComplete
  <2> QED
    BY <1>7, <2>1 DEF EraseSet
<1> QED
  BY <1>4, <1>9, <1>10

\* On a prompt link Ok means what the PAC wants of the flash: every entry that carries
\* data is on the flash and every format marker erased, but for what the addresses of a
\* later operation overlap.
THEOREM PacFlashed == PromptLink => (Spec => []PacIsFlashed)
<1>1. OkMeansFlashed => PacIsFlashed
  <2> SUFFICES ASSUME OkMeansFlashed, outcome = "ok", NEW i \in DOMAIN Pac
               PROVE  /\ Wanted(Pac[i]) =>
                            /\ Pac[i].id \in Entries
                            /\ Kept(Pac[i].id) => flash[Pac[i].id] = Image(Pac[i].id)
                      /\ Erasable(Pac[i]) =>
                            \E j \in DOMAIN Pac :
                                /\ Reaches(Pac[i], Pac[j])
                                /\ Kept(Pac[j].id) => flash[Pac[j].id] = << >>
    BY DEF PacIsFlashed
  <2>1. \A n \in DOMAIN Ops :
           Ops[n] \in Entries /\ (Kept(Ops[n]) => flash[Ops[n]] = Image(Ops[n]))
    BY DEF OkMeansFlashed, AllWritten, Entries
  <2>2. ASSUME Wanted(Pac[i])
        PROVE  /\ Pac[i].id \in Entries
               /\ Kept(Pac[i].id) => flash[Pac[i].id] = Image(Pac[i].id)
    BY <2>1, <2>2, WantedIsOp
  <2>3. ASSUME Erasable(Pac[i])
        PROVE  \E j \in DOMAIN Pac :
                  /\ Reaches(Pac[i], Pac[j])
                  /\ Kept(Pac[j].id) => flash[Pac[j].id] = << >>
    <3>1. PICK j \in DOMAIN Pac : /\ Pac[j].address = Pac[i].address
                                  /\ Pac[j].id \in EraseSet
                                  /\ \E n \in DOMAIN Ops : Ops[n] = Pac[j].id
      BY <2>3, ErasedOnce
    <3>2. Pac[j].id \in Entries /\ (Kept(Pac[j].id) => flash[Pac[j].id] = Image(Pac[j].id))
      BY <2>1, <3>1
    <3> QED
      BY <3>1, <3>2, ErasedImage DEF Reaches
  <2> QED
    BY <2>2, <2>3
<1> QED
  BY <1>1, OkIsFlashed, PTL
====

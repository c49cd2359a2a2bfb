---- MODULE BringUp_proofs ----
(***************************************************************************)
(* Theorems about BringUp: for loaders of any number of pieces, with and   *)
(* without a change of the line rate, and for every combination of faults. *)
(***************************************************************************)
EXTENDS BringUp, SequenceTheorems, TLAPS

----
(***************************************************************************)
(* The script by its indices.                                              *)
(***************************************************************************)
ExecPdl == Fdl1 + 4
ExecBsl == ExecPdl + Fdl2 + 4
BaudAt == IF Fdl2 > 0 THEN ExecBsl + 2 ELSE ExecPdl + 2
ScriptLen == IF Baud THEN BaudAt + 1 ELSE BaudAt - 1

\* What the agent of the boot ROM answers.
PdlFrames == {Script[i] : i \in 1 .. ExecPdl - 1}
Frames == {Script[i] : i \in DOMAIN Script} \cup {Kick, NormalReset}
Replies == {"PDL", "VER", "GARBLED", "ACK", "FAILED"}

----
(***************************************************************************)
(* The inductive invariant.                                                *)
(***************************************************************************)
Quiet == pc \in {"resolve", "beacon", "open"}
InPdl == pc = "command" /\ at < ExecPdl
AtVer == pc = "command" /\ at = ExecPdl
InBsl == at > ExecPdl
Kicks(s) == \A i \in DOMAIN s : s[i] = Kick
NoPdl == \A i \in DOMAIN toHost : toHost[i] # "PDL"

NumberInv ==
    /\ config \in Configs
    /\ pc \in {"resolve", "beacon", "open", "command", "reenumerate"}
    /\ at \in Nat \ {0} /\ at <= ScriptLen + 1
    /\ outcome # "ok" => at <= ScriptLen
    /\ kicks \in 0 .. MaxKicks /\ attempt \in {0, 1}
    /\ outcome \in {"running", "ok", "err"}
    /\ rate \in {"base", "fast"} /\ devRate \in {"base", "fast"}
    /\ alive \in BOOLEAN /\ greeted \in BOOLEAN
    /\ dev \in {"app", "entering", "pdl", "fdl1", "fdl2", "resetting", "rebooting"}
    /\ ram \in Seq(Nat)
    /\ losses \in 0 .. MaxLosses
    /\ toDev \in Seq(Frames) /\ toHost \in Seq(Replies)

\* Up to VER: who has sent the replies under way, and what is on its way to whom.
SourceInv ==
    at <= ExecPdl =>
        /\ rate = "base" /\ devRate = "base" /\ outcome # "ok"
        /\ dev = "pdl" => \A i \in DOMAIN toHost : toHost[i] = "PDL"
        /\ dev # "pdl" /\ ~AtVer => NoPdl
        /\ dev \in {"app", "entering", "rebooting"} => toDev = <<>> /\ toHost = <<>>

QuietInv ==
    Quiet => /\ toDev = <<>> /\ at <= ExecPdl
             /\ attempt = 0 => toHost = <<>>

PdlInv ==
    InPdl => /\ \A i \in DOMAIN toDev : toDev[i] \in PdlFrames
             /\ dev # "pdl" => at = 1
             /\ attempt = 0 => Len(toDev) + Len(toHost) <= 1

VerInv ==
    AtVer => /\ dev \in {"pdl", "fdl1"}
             /\ \A i \in DOMAIN toDev :
                   /\ toDev[i] \in PdlFrames \cup {Script[ExecPdl], Kick}
                   /\ toDev[i] = Script[ExecPdl] =>
                         \A j \in DOMAIN toDev : j > i => toDev[j] = Kick
             /\ dev = "fdl1" =>
                   /\ Kicks(toDev)
                   /\ \A i \in DOMAIN toHost :
                         toHost[i] # "PDL" => greeted /\ i = Len(toHost)
             /\ attempt = 0 =>
                   /\ NoPdl
                   /\ \A i \in DOMAIN toDev : toDev[i] \notin PdlFrames

RecoverInv ==
    pc = "reenumerate" =>
        /\ attempt = 0 /\ at <= ExecPdl
        /\ \A i \in DOMAIN toDev :
              /\ toDev[i] \in PdlFrames \cup {Script[ExecPdl], Kick, NormalReset}
              /\ dev = "pdl" /\ toDev[i] = Script[ExecPdl] =>
                    /\ toHost = <<>>
                    /\ \A j \in DOMAIN toDev : toDev[j] \notin PdlFrames

\* From VER on: one command is under way, or its reply, or neither.
DevBefore(k) ==
    /\ dev = IF Fdl2 > 0 /\ k > ExecBsl THEN "fdl2" ELSE "fdl1"
    /\ dev = "fdl1" => greeted
    /\ devRate = IF Baud /\ k > BaudAt THEN "fast" ELSE "base"
BslInv ==
    InBsl =>
        /\ pc = "command"
        /\ rate = IF Baud /\ at > BaudAt THEN "fast" ELSE "base"
        /\ toDev # <<>> => /\ outcome # "ok" /\ toHost = <<>> /\ DevBefore(at)
                           /\ \A i \in DOMAIN toDev : i < Len(toDev) => toDev[i] = Kick
                           /\ toDev[Len(toDev)] \in {Kick, Script[at]}
        /\ toHost # <<>> => /\ outcome # "ok" /\ toDev = <<>> /\ Len(toHost) = 1
                            /\ toHost[1] \in {"ACK", "FAILED"}
                            /\ toHost[1] = "ACK" => DevBefore(at + 1)
        /\ outcome = "ok" => at = ScriptLen + 1 /\ DevBefore(at)

ChannelInv ==
    NumberInv /\ SourceInv /\ QuietInv /\ PdlInv /\ VerInv /\ RecoverInv /\ BslInv

\* What the loader's memory holds before a command.
RamBefore(k) ==
    /\ k \in 3 .. ExecPdl - 1 => ram = Whole(k - 3)
    /\ k = ExecPdl => ram = Whole(Fdl1)
    /\ Fdl2 > 0 /\ k \in ExecPdl + 3 .. ExecBsl - 1 => ram = Whole(k - ExecPdl - 3)
    /\ Fdl2 > 0 /\ k = ExecBsl => ram = Whole(Fdl2)

\* The first c frames under way are the last c commands sent.
Sent(c) ==
    /\ c <= Len(toDev) /\ c <= at
    /\ \A i \in 1 .. c : toDev[i] = Script[at - c + i]
    /\ \A i \in DOMAIN toDev : i > c => toDev[i] \in {Kick, NormalReset}
    /\ "loss" \in config.faults => c <= 1

\* Nothing is under way on a port whose device has gone.
DeadInv ==
    pc = "command" =>
        /\ outcome = "running" /\ ~alive => toDev = <<>> /\ toHost = <<>>
        /\ dev \in {"app", "entering", "rebooting"} => ~alive

LossInv ==
    Steady /\ "loss" \in config.faults =>
        /\ Quiet => toHost = <<>>
        /\ InPdl => Len(toDev) + Len(toHost) <= 1
        /\ pc = "reenumerate" => toHost = <<>> /\ \A i \in DOMAIN toDev : toDev[i] = NormalReset

RamInv ==
    Steady =>
        /\ \E n \in 0 .. Fdl1 + Fdl2 : ram = Whole(n)
        /\ InPdl =>
              /\ Sent(Len(toDev))
              /\ toDev # <<>> \/ toHost # <<>> => RamBefore(at + 1 - Len(toDev))
        /\ (AtVer \/ pc = "reenumerate") /\ dev = "pdl" =>
              \E c \in 0 .. Len(toDev) : Sent(c) /\ (c > 0 => RamBefore(at + 1 - c))
        /\ InBsl /\ toDev # <<>> => RamBefore(at)
        /\ InBsl /\ toHost # <<>> /\ toHost[1] = "ACK" => RamBefore(at + 1)

BringUpInv == ChannelInv /\ DeadInv /\ LossInv /\ RamInv

----
(***************************************************************************)
(* Facts about the script.                                                 *)
(***************************************************************************)
Commands == [layer : {"PDL", "BSL"},
             cmd : {"CONNECT", "START", "MIDST", "END", "EXEC", "CHANGE_BAUD", "KICK",
                    "NORMAL_RESET"},
             piece : Nat]

LEMMA Numbers == Fdl1 \in Nat /\ Fdl1 > 0 /\ Fdl2 \in Nat /\ Baud \in BOOLEAN
                 /\ MaxKicks \in Nat /\ MaxLosses \in Nat
BY NumberAssumption

LEMMA Concat ==
    ASSUME NEW s \in Seq(Commands), NEW t \in Seq(Commands)
    PROVE  /\ s \o t \in Seq(Commands) /\ Len(s \o t) = Len(s) + Len(t)
           /\ \A i \in 1 .. Len(s) : (s \o t)[i] = s[i]
           /\ \A i \in 1 .. Len(t) : (s \o t)[Len(s) + i] = t[i]
OBVIOUS

LEMMA StageFacts ==
    ASSUME NEW layer \in {"PDL", "BSL"}, NEW n \in Nat
    PROVE  LET s == Stage(layer, n) IN
           /\ s \in Seq(Commands) /\ Len(s) = n + 3
           /\ s[1] = Command(layer, "START", 0)
           /\ \A i \in 1 .. n : s[i + 1] = Command(layer, "MIDST", i)
           /\ s[n + 2] = Command(layer, "END", 0) /\ s[n + 3] = Command(layer, "EXEC", 0)
<1> DEFINE a == <<Command(layer, "START", 0)>>
           m == [i \in 1 .. n |-> Command(layer, "MIDST", i)]
           e == <<Command(layer, "END", 0), Command(layer, "EXEC", 0)>>
<1>1. /\ \A i \in Nat : Command(layer, "MIDST", i) \in Commands
      /\ Command(layer, "START", 0) \in Commands
      /\ Command(layer, "END", 0) \in Commands /\ Command(layer, "EXEC", 0) \in Commands
  BY DEF Command, Commands
<1>2. a \in Seq(Commands) /\ Len(a) = 1 /\ a[1] = Command(layer, "START", 0)
  BY <1>1
<1>3. m \in Seq(Commands) /\ Len(m) = n /\ \A i \in 1 .. n : m[i] = Command(layer, "MIDST", i)
  <2>1. m \in [1 .. n -> Commands]
    BY <1>1
  <2> QED
    BY <2>1
<1>4. /\ e \in Seq(Commands) /\ Len(e) = 2 /\ e[1] = Command(layer, "END", 0)
      /\ e[2] = Command(layer, "EXEC", 0)
  BY <1>1
<1>5. Stage(layer, n) = (a \o m) \o e
  BY DEF Stage
<1> HIDE DEF a, m, e
<1> DEFINE am == a \o m
<1>6. /\ am \in Seq(Commands) /\ Len(am) = Len(a) + Len(m)
      /\ \A i \in 1 .. Len(a) : am[i] = a[i]
      /\ \A i \in 1 .. Len(m) : am[Len(a) + i] = m[i]
  BY <1>2, <1>3, Concat, Zenon
<1> HIDE DEF am
<1> DEFINE s == am \o e
<1>7. /\ s \in Seq(Commands) /\ Len(s) = Len(am) + Len(e)
      /\ \A i \in 1 .. Len(am) : s[i] = am[i]
      /\ \A i \in 1 .. Len(e) : s[Len(am) + i] = e[i]
  BY <1>4, <1>6, Concat, Zenon
<1> HIDE DEF s
<1>8. /\ Len(s) = n + 3 /\ s[1] = Command(layer, "START", 0)
      /\ \A i \in 1 .. n : s[i + 1] = Command(layer, "MIDST", i)
      /\ s[n + 2] = Command(layer, "END", 0) /\ s[n + 3] = Command(layer, "EXEC", 0)
  BY <1>2, <1>3, <1>4, <1>6, <1>7
<1>9. Stage(layer, n) = s
  BY <1>5 DEF am, s
<1> QED
  BY <1>7, <1>8, <1>9

\* The commands of the boot ROM, up to FDL1's greeting.
LEMMA PdlScript ==
    LET s == <<Command("PDL", "CONNECT", 0)>> \o Stage("PDL", Fdl1) \o BslConnect IN
    /\ s \in Seq(Commands) /\ Len(s) = ExecPdl + 1
    /\ s[1] = Command("PDL", "CONNECT", 0) /\ s[2] = Command("PDL", "START", 0)
    /\ \A i \in 3 .. ExecPdl - 2 : s[i] = Command("PDL", "MIDST", i - 2)
    /\ s[ExecPdl - 1] = Command("PDL", "END", 0)
    /\ s[ExecPdl] = Command("PDL", "EXEC", 0) /\ s[ExecPdl + 1] = Command("BSL", "CONNECT", 0)
<1> DEFINE a == <<Command("PDL", "CONNECT", 0)>>
           b == Stage("PDL", Fdl1)
<1>1. Fdl1 \in Nat /\ ExecPdl = Fdl1 + 4
  BY Numbers DEF ExecPdl
<1>2. a \in Seq(Commands) /\ Len(a) = 1 /\ a[1] = Command("PDL", "CONNECT", 0)
  BY DEF Command, Commands
<1>3. /\ BslConnect \in Seq(Commands) /\ Len(BslConnect) = 1
      /\ BslConnect[1] = Command("BSL", "CONNECT", 0)
  BY DEF BslConnect, Command, Commands
<1>4. /\ b \in Seq(Commands) /\ Len(b) = Fdl1 + 3
      /\ b[1] = Command("PDL", "START", 0)
      /\ \A i \in 1 .. Fdl1 : b[i + 1] = Command("PDL", "MIDST", i)
      /\ b[Fdl1 + 2] = Command("PDL", "END", 0) /\ b[Fdl1 + 3] = Command("PDL", "EXEC", 0)
  BY <1>1, StageFacts
<1> HIDE DEF a, b
<1> DEFINE ab == a \o b
<1>5. /\ ab \in Seq(Commands) /\ Len(ab) = Len(a) + Len(b)
      /\ \A i \in 1 .. Len(a) : ab[i] = a[i]
      /\ \A i \in 1 .. Len(b) : ab[Len(a) + i] = b[i]
  BY <1>2, <1>4, Concat, Zenon
<1> HIDE DEF ab
<1> DEFINE s == ab \o BslConnect
<1>6. /\ s \in Seq(Commands) /\ Len(s) = Len(ab) + Len(BslConnect)
      /\ \A i \in 1 .. Len(ab) : s[i] = ab[i]
      /\ \A i \in 1 .. Len(BslConnect) : s[Len(ab) + i] = BslConnect[i]
  BY <1>3, <1>5, Concat, Zenon
<1> HIDE DEF s
<1>12. /\ Len(s) = Fdl1 + 5 /\ ab[1] = a[1]
       /\ \A i \in 1 .. Fdl1 + 3 : ab[1 + i] = b[i]
       /\ \A i \in 1 .. Fdl1 + 4 : s[i] = ab[i]
       /\ s[Fdl1 + 5] = BslConnect[1]
  <2>1. Len(ab) = Fdl1 + 4
    BY <1>1, <1>2, <1>4, <1>5
  <2>2. Len(s) = Fdl1 + 5 /\ (Fdl1 + 4) + 1 = Fdl1 + 5
    BY <1>1, <1>3, <1>6, <2>1
  <2>3. \A i \in 1 .. Fdl1 + 3 : ab[1 + i] = b[i]
    BY <1>1, <1>2, <1>4, <1>5
  <2>4. \A i \in 1 .. Fdl1 + 4 : s[i] = ab[i]
    BY <1>1, <1>6, <2>1
  <2>5. s[Fdl1 + 5] = BslConnect[1]
    <3>1. 1 \in 1 .. Len(BslConnect)
      BY <1>3
    <3>2. s[Len(ab) + 1] = BslConnect[1]
      BY <1>6, <3>1
    <3> QED
      BY <2>1, <2>2, <3>2
  <2> QED
    BY <1>2, <1>5, <2>2, <2>3, <2>4, <2>5
<1>7. s[1] = Command("PDL", "CONNECT", 0) /\ s[2] = Command("PDL", "START", 0)
  BY <1>1, <1>2, <1>4, <1>12
<1>8. ASSUME NEW i \in 3 .. Fdl1 + 2 PROVE s[i] = Command("PDL", "MIDST", i - 2)
  <2>1. /\ i - 2 \in 1 .. Fdl1 /\ i - 1 \in 1 .. Fdl1 + 3 /\ (i - 2) + 1 = i - 1
        /\ 1 + (i - 1) = i /\ i \in 1 .. Fdl1 + 4
    BY <1>1
  <2>2. b[i - 1] = Command("PDL", "MIDST", i - 2) /\ ab[i] = b[i - 1] /\ s[i] = ab[i]
    BY <1>4, <1>12, <2>1
  <2> QED
    BY <2>2
<1>9. /\ s[Fdl1 + 3] = Command("PDL", "END", 0) /\ s[Fdl1 + 4] = Command("PDL", "EXEC", 0)
      /\ s[Fdl1 + 5] = Command("BSL", "CONNECT", 0)
  <2>1. /\ Fdl1 + 2 \in 1 .. Fdl1 + 3 /\ Fdl1 + 3 \in 1 .. Fdl1 + 3
        /\ 1 + (Fdl1 + 2) = Fdl1 + 3 /\ 1 + (Fdl1 + 3) = Fdl1 + 4
        /\ Fdl1 + 3 \in 1 .. Fdl1 + 4 /\ Fdl1 + 4 \in 1 .. Fdl1 + 4
    BY <1>1
  <2> QED
    BY <1>3, <1>4, <1>12, <2>1
<1>10. /\ ExecPdl + 1 = Fdl1 + 5 /\ ExecPdl - 2 = Fdl1 + 2 /\ ExecPdl - 1 = Fdl1 + 3
  BY <1>1
<1>11. <<Command("PDL", "CONNECT", 0)>> \o Stage("PDL", Fdl1) \o BslConnect = s
  BY DEF a, b, ab, s
<1> QED
  BY <1>1, <1>6, <1>7, <1>8, <1>9, <1>10, <1>11, <1>12

\* The commands that load FDL2.
LEMMA BslScript ==
    LET s == Stage("BSL", Fdl2) \o BslConnect IN
    /\ s \in Seq(Commands) /\ Len(s) = Fdl2 + 4
    /\ s[1] = Command("BSL", "START", 0)
    /\ \A i \in 1 .. Fdl2 : s[i + 1] = Command("BSL", "MIDST", i)
    /\ s[Fdl2 + 2] = Command("BSL", "END", 0) /\ s[Fdl2 + 3] = Command("BSL", "EXEC", 0)
    /\ s[Fdl2 + 4] = Command("BSL", "CONNECT", 0)
<1> DEFINE b == Stage("BSL", Fdl2)
           s == b \o BslConnect
<1>1. /\ b \in Seq(Commands) /\ Len(b) = Fdl2 + 3
      /\ b[1] = Command("BSL", "START", 0)
      /\ \A i \in 1 .. Fdl2 : b[i + 1] = Command("BSL", "MIDST", i)
      /\ b[Fdl2 + 2] = Command("BSL", "END", 0) /\ b[Fdl2 + 3] = Command("BSL", "EXEC", 0)
  BY Numbers, StageFacts
<1>2. /\ BslConnect \in Seq(Commands) /\ Len(BslConnect) = 1
      /\ BslConnect[1] = Command("BSL", "CONNECT", 0)
  BY DEF BslConnect, Command, Commands
<1> HIDE DEF b
<1>3. /\ s \in Seq(Commands) /\ Len(s) = Len(b) + Len(BslConnect)
      /\ \A i \in 1 .. Len(b) : s[i] = b[i]
      /\ \A i \in 1 .. Len(BslConnect) : s[Len(b) + i] = BslConnect[i]
  BY <1>1, <1>2, Concat, Zenon
<1> HIDE DEF s
<1>4. /\ Len(s) = Fdl2 + 4 /\ \A i \in 1 .. Fdl2 + 3 : s[i] = b[i]
      /\ (Fdl2 + 3) + 1 = Fdl2 + 4 /\ 1 \in 1 .. Len(BslConnect)
  BY <1>1, <1>2, <1>3, Numbers
<1>5. s[Fdl2 + 4] = BslConnect[1]
  <2>1. s[Len(b) + 1] = BslConnect[1]
    BY <1>3, <1>4
  <2> QED
    BY <1>1, <1>4, <2>1
<1>6. /\ 1 \in 1 .. Fdl2 + 3 /\ Fdl2 + 2 \in 1 .. Fdl2 + 3 /\ Fdl2 + 3 \in 1 .. Fdl2 + 3
      /\ \A i \in 1 .. Fdl2 : i + 1 \in 1 .. Fdl2 + 3
  BY Numbers
<1>7. /\ s \in Seq(Commands) /\ Len(s) = Fdl2 + 4
      /\ s[1] = Command("BSL", "START", 0)
      /\ \A i \in 1 .. Fdl2 : s[i + 1] = Command("BSL", "MIDST", i)
      /\ s[Fdl2 + 2] = Command("BSL", "END", 0) /\ s[Fdl2 + 3] = Command("BSL", "EXEC", 0)
      /\ s[Fdl2 + 4] = Command("BSL", "CONNECT", 0)
  BY <1>1, <1>2, <1>3, <1>4, <1>5, <1>6
<1> QED
  BY <1>7 DEF s, b

LEMMA ScriptFacts ==
    /\ Script \in Seq(Commands) /\ Len(Script) = ScriptLen
    /\ Script[1] = Command("PDL", "CONNECT", 0) /\ Script[2] = Command("PDL", "START", 0)
    /\ \A i \in 3 .. ExecPdl - 2 : Script[i] = Command("PDL", "MIDST", i - 2)
    /\ Script[ExecPdl - 1] = Command("PDL", "END", 0)
    /\ Script[ExecPdl] = Command("PDL", "EXEC", 0)
    /\ Script[ExecPdl + 1] = Command("BSL", "CONNECT", 0)
    /\ Fdl2 > 0 =>
          /\ Script[ExecPdl + 2] = Command("BSL", "START", 0)
          /\ \A i \in 1 .. Fdl2 : Script[ExecPdl + 2 + i] = Command("BSL", "MIDST", i)
          /\ Script[ExecBsl - 1] = Command("BSL", "END", 0)
          /\ Script[ExecBsl] = Command("BSL", "EXEC", 0)
          /\ Script[ExecBsl + 1] = Command("BSL", "CONNECT", 0)
    /\ Baud => /\ Script[BaudAt] = Command("BSL", "CHANGE_BAUD", 0)
               /\ Script[BaudAt + 1] = Command("BSL", "CONNECT", 0)
<1> DEFINE p == <<Command("PDL", "CONNECT", 0)>> \o Stage("PDL", Fdl1) \o BslConnect
           d == IF Fdl2 > 0 THEN Stage("BSL", Fdl2) \o BslConnect ELSE <<>>
           e == IF Baud THEN <<Command("BSL", "CHANGE_BAUD", 0)>> \o BslConnect ELSE <<>>
           q == p \o d
           s == q \o e
           n == ExecPdl + 1
<1>1. /\ ExecPdl \in Nat /\ ExecPdl > 4 /\ Fdl2 \in Nat /\ Baud \in BOOLEAN
      /\ n \in Nat /\ n = ExecPdl + 1 /\ ExecBsl = ExecPdl + Fdl2 + 4
  BY Numbers DEF ExecPdl, ExecBsl
<1>2. Script = s
  BY DEF Script
<1>3. /\ p \in Seq(Commands) /\ Len(p) = n
      /\ p[1] = Command("PDL", "CONNECT", 0) /\ p[2] = Command("PDL", "START", 0)
      /\ \A i \in 3 .. ExecPdl - 2 : p[i] = Command("PDL", "MIDST", i - 2)
      /\ p[ExecPdl - 1] = Command("PDL", "END", 0)
      /\ p[ExecPdl] = Command("PDL", "EXEC", 0) /\ p[n] = Command("BSL", "CONNECT", 0)
  BY PdlScript
<1>4. /\ d \in Seq(Commands) /\ Len(d) = IF Fdl2 > 0 THEN Fdl2 + 4 ELSE 0
      /\ Fdl2 > 0 =>
            /\ d[1] = Command("BSL", "START", 0)
            /\ \A i \in 1 .. Fdl2 : d[i + 1] = Command("BSL", "MIDST", i)
            /\ d[Fdl2 + 2] = Command("BSL", "END", 0) /\ d[Fdl2 + 3] = Command("BSL", "EXEC", 0)
            /\ d[Fdl2 + 4] = Command("BSL", "CONNECT", 0)
  <2>1. CASE Fdl2 > 0
    <3>1. d = Stage("BSL", Fdl2) \o BslConnect
      BY <2>1
    <3> HIDE DEF d
    <3> QED
      BY <2>1, <3>1, BslScript
  <2>2. CASE ~(Fdl2 > 0)
    BY <2>2
  <2> QED
    BY <2>1, <2>2
<1>5. /\ e \in Seq(Commands) /\ Len(e) = IF Baud THEN 2 ELSE 0
      /\ Baud => e[1] = Command("BSL", "CHANGE_BAUD", 0) /\ e[2] = Command("BSL", "CONNECT", 0)
  <2> DEFINE g == <<Command("BSL", "CHANGE_BAUD", 0)>>
             f == g \o BslConnect
  <2>1. Command("BSL", "CHANGE_BAUD", 0) \in Commands /\ Command("BSL", "CONNECT", 0) \in Commands
    BY DEF Command, Commands
  <2>2. /\ g \in Seq(Commands) /\ Len(g) = 1 /\ g[1] = Command("BSL", "CHANGE_BAUD", 0)
        /\ BslConnect \in Seq(Commands) /\ Len(BslConnect) = 1
        /\ BslConnect[1] = Command("BSL", "CONNECT", 0)
    BY <2>1 DEF BslConnect
  <2> HIDE DEF g
  <2>3. /\ f \in Seq(Commands) /\ Len(f) = 2
        /\ f[1] = Command("BSL", "CHANGE_BAUD", 0) /\ f[2] = Command("BSL", "CONNECT", 0)
    <3>1. /\ f \in Seq(Commands) /\ Len(f) = Len(g) + Len(BslConnect)
          /\ \A i \in 1 .. Len(g) : f[i] = g[i]
          /\ \A i \in 1 .. Len(BslConnect) : f[Len(g) + i] = BslConnect[i]
      BY <2>2, Concat, Zenon
    <3> HIDE DEF f
    <3>2. 1 \in 1 .. Len(g) /\ 1 \in 1 .. Len(BslConnect) /\ Len(g) + 1 = 2
      BY <2>2
    <3>3. f[1] = g[1] /\ f[2] = BslConnect[1]
      BY <3>1, <3>2
    <3> QED
      BY <2>2, <3>1, <3>3
  <2>4. CASE Baud
    <3>1. e = f
      BY <2>4 DEF g
    <3> HIDE DEF e, f
    <3> QED
      BY <2>3, <2>4, <3>1
  <2>5. CASE ~Baud
    BY <2>5
  <2> QED
    BY <2>4, <2>5
<1> HIDE DEF p, d, e
<1>6. /\ q \in Seq(Commands) /\ Len(q) = Len(p) + Len(d)
      /\ \A i \in 1 .. Len(p) : q[i] = p[i]
      /\ \A i \in 1 .. Len(d) : q[Len(p) + i] = d[i]
  BY <1>3, <1>4, Concat, Zenon
<1> HIDE DEF q
<1>7. /\ s \in Seq(Commands) /\ Len(s) = Len(q) + Len(e)
      /\ \A i \in 1 .. Len(q) : s[i] = q[i]
      /\ \A i \in 1 .. Len(e) : s[Len(q) + i] = e[i]
  BY <1>5, <1>6, Concat, Zenon
<1> HIDE DEF s, n
<1>8. Len(q) = BaudAt - 1 /\ BaudAt \in Nat /\ BaudAt > n
  BY <1>1, <1>3, <1>4, <1>6 DEF BaudAt
<1>9. Len(s) = ScriptLen
  BY <1>1, <1>5, <1>7, <1>8 DEF ScriptLen
<1>10. \A i \in 1 .. n : s[i] = p[i]
  <2>1. \A i \in 1 .. n : i \in 1 .. Len(p) /\ i \in 1 .. Len(q)
    BY <1>1, <1>3, <1>8
  <2> QED
    BY <1>6, <1>7, <2>1
<1>11. ASSUME Fdl2 > 0, NEW i \in 1 .. Fdl2 + 4 PROVE s[n + i] = d[i]
  <2>1. i \in 1 .. Len(d) /\ n + i = Len(p) + i /\ n + i \in 1 .. Len(q)
    BY <1>1, <1>3, <1>4, <1>6, <1>11
  <2> QED
    BY <1>6, <1>7, <2>1
<1>12. ASSUME Baud, NEW i \in 1 .. 2 PROVE s[(BaudAt - 1) + i] = e[i]
  <2>1. i \in 1 .. Len(e)
    BY <1>5, <1>12
  <2> QED
    BY <1>7, <1>8, <2>1
<1>13. /\ s[1] = Command("PDL", "CONNECT", 0) /\ s[2] = Command("PDL", "START", 0)
       /\ \A i \in 3 .. ExecPdl - 2 : s[i] = Command("PDL", "MIDST", i - 2)
       /\ s[ExecPdl - 1] = Command("PDL", "END", 0)
       /\ s[ExecPdl] = Command("PDL", "EXEC", 0) /\ s[n] = Command("BSL", "CONNECT", 0)
  <2>1. /\ 1 \in 1 .. n /\ 2 \in 1 .. n /\ ExecPdl - 1 \in 1 .. n /\ ExecPdl \in 1 .. n
        /\ n \in 1 .. n /\ \A i \in 3 .. ExecPdl - 2 : i \in 1 .. n
    BY <1>1
  <2> QED
    BY <1>3, <1>10, <2>1
<1>14. ASSUME Fdl2 > 0
       PROVE  /\ s[ExecPdl + 2] = Command("BSL", "START", 0)
              /\ \A i \in 1 .. Fdl2 : s[ExecPdl + 2 + i] = Command("BSL", "MIDST", i)
              /\ s[ExecBsl - 1] = Command("BSL", "END", 0)
              /\ s[ExecBsl] = Command("BSL", "EXEC", 0)
              /\ s[ExecBsl + 1] = Command("BSL", "CONNECT", 0)
  <2>1. /\ 1 \in 1 .. Fdl2 + 4 /\ n + 1 = ExecPdl + 2
        /\ \A i \in 1 .. Fdl2 : i + 1 \in 1 .. Fdl2 + 4 /\ n + (i + 1) = ExecPdl + 2 + i
        /\ Fdl2 + 2 \in 1 .. Fdl2 + 4 /\ n + (Fdl2 + 2) = ExecBsl - 1
        /\ Fdl2 + 3 \in 1 .. Fdl2 + 4 /\ n + (Fdl2 + 3) = ExecBsl
        /\ Fdl2 + 4 \in 1 .. Fdl2 + 4 /\ n + (Fdl2 + 4) = ExecBsl + 1
    BY <1>1, <1>14
  <2>2. s[n + 1] = d[1]
    BY <1>11, <1>14, <2>1
  <2>3. ASSUME NEW i \in 1 .. Fdl2 PROVE s[n + (i + 1)] = d[i + 1]
    BY <1>11, <1>14, <2>1
  <2>4. s[n + (Fdl2 + 2)] = d[Fdl2 + 2]
    BY <1>11, <1>14, <2>1
  <2>5. s[n + (Fdl2 + 3)] = d[Fdl2 + 3]
    BY <1>11, <1>14, <2>1
  <2>6. s[n + (Fdl2 + 4)] = d[Fdl2 + 4]
    BY <1>11, <1>14, <2>1
  <2> QED
    BY <1>4, <1>14, <2>1, <2>2, <2>3, <2>4, <2>5, <2>6
<1>15. ASSUME Baud
       PROVE  /\ s[BaudAt] = Command("BSL", "CHANGE_BAUD", 0)
              /\ s[BaudAt + 1] = Command("BSL", "CONNECT", 0)
  <2>1. (BaudAt - 1) + 1 = BaudAt /\ (BaudAt - 1) + 2 = BaudAt + 1
    BY <1>8
  <2>2. s[(BaudAt - 1) + 1] = e[1] /\ s[(BaudAt - 1) + 2] = e[2]
    BY <1>12, <1>15
  <2> QED
    BY <1>5, <1>15, <2>1, <2>2
<1> QED
  BY <1>2, <1>7, <1>9, <1>13, <1>14, <1>15 DEF n

LEMMA Indices ==
    /\ ExecPdl \in Nat /\ ExecPdl > 4 /\ Fdl2 \in Nat /\ Baud \in BOOLEAN
    /\ ExecBsl \in Nat /\ ExecBsl = ExecPdl + Fdl2 + 4
    /\ BaudAt \in Nat /\ BaudAt = IF Fdl2 > 0 THEN ExecBsl + 2 ELSE ExecPdl + 2
    /\ ScriptLen \in Nat /\ ScriptLen = IF Baud THEN BaudAt + 1 ELSE BaudAt - 1
    /\ Fdl1 = ExecPdl - 4
BY Numbers DEF ExecPdl, ExecBsl, BaudAt, ScriptLen

\* A command by its index.
LEMMA CommandFacts ==
    ASSUME NEW k \in 1 .. ScriptLen
    PROVE  /\ Script[k] \in Commands
           /\ Script[k].layer = IF k <= ExecPdl THEN "PDL" ELSE "BSL"
           /\ Script[k].cmd \in {"CONNECT", "START", "MIDST", "END", "EXEC", "CHANGE_BAUD"}
           /\ Script[k].cmd = "START" => k = 2 \/ (Fdl2 > 0 /\ k = ExecPdl + 2)
           /\ Script[k].cmd = "MIDST" <=> \/ k \in 3 .. ExecPdl - 2
                                          \/ Fdl2 > 0 /\ k \in ExecPdl + 3 .. ExecBsl - 2
           /\ k \in 3 .. ExecPdl - 2 => Script[k].piece = k - 2
           /\ k \in ExecPdl + 3 .. ExecBsl - 2 /\ Fdl2 > 0 => Script[k].piece = k - ExecPdl - 2
           /\ Script[k].cmd = "EXEC" <=> k = ExecPdl \/ (Fdl2 > 0 /\ k = ExecBsl)
           /\ Script[k].cmd = "CHANGE_BAUD" <=> Baud /\ k = BaudAt
<1> DEFINE Fits(c) ==
        /\ c \in Commands
        /\ c.layer = IF k <= ExecPdl THEN "PDL" ELSE "BSL"
        /\ c.cmd \in {"CONNECT", "START", "MIDST", "END", "EXEC", "CHANGE_BAUD"}
        /\ c.cmd = "START" => k = 2 \/ (Fdl2 > 0 /\ k = ExecPdl + 2)
        /\ c.cmd = "MIDST" <=> \/ k \in 3 .. ExecPdl - 2
                               \/ Fdl2 > 0 /\ k \in ExecPdl + 3 .. ExecBsl - 2
        /\ k \in 3 .. ExecPdl - 2 => c.piece = k - 2
        /\ k \in ExecPdl + 3 .. ExecBsl - 2 /\ Fdl2 > 0 => c.piece = k - ExecPdl - 2
        /\ c.cmd = "EXEC" <=> k = ExecPdl \/ (Fdl2 > 0 /\ k = ExecBsl)
        /\ c.cmd = "CHANGE_BAUD" <=> Baud /\ k = BaudAt
<1>1. \A l \in {"PDL", "BSL"}, p \in Nat,
         c \in {"CONNECT", "START", "MIDST", "END", "EXEC", "CHANGE_BAUD"} :
          /\ Command(l, c, p) \in Commands /\ Command(l, c, p).layer = l
          /\ Command(l, c, p).cmd = c /\ Command(l, c, p).piece = p
  BY DEF Command, Commands
<1>2. CASE k = 1
  <2>1. Script[k] = Command("PDL", "CONNECT", 0)
    BY <1>2, ScriptFacts
  <2> HIDE DEF Fits
  <2>2. Fits(Command("PDL", "CONNECT", 0))
    BY <1>1, <1>2, Indices DEF Fits
  <2> QED
    BY <2>1, <2>2 DEF Fits
<1>3. CASE k = 2
  <2>1. Script[k] = Command("PDL", "START", 0)
    BY <1>3, ScriptFacts
  <2>2. Fits(Command("PDL", "START", 0))
    BY <1>1, <1>3, Indices
  <2> QED
    BY <2>1, <2>2
<1>4. CASE k \in 3 .. ExecPdl - 2
  <2>1. Script[k] = Command("PDL", "MIDST", k - 2)
    BY <1>4, ScriptFacts
  <2>2. Fits(Command("PDL", "MIDST", k - 2))
    BY <1>1, <1>4, Indices
  <2> QED
    BY <2>1, <2>2
<1>5. CASE k = ExecPdl - 1
  <2>1. Script[k] = Command("PDL", "END", 0)
    BY <1>5, ScriptFacts
  <2>2. Fits(Command("PDL", "END", 0))
    BY <1>1, <1>5, Indices
  <2> QED
    BY <2>1, <2>2
<1>6. CASE k = ExecPdl
  <2>1. Script[k] = Command("PDL", "EXEC", 0)
    BY <1>6, ScriptFacts
  <2>2. Fits(Command("PDL", "EXEC", 0))
    BY <1>1, <1>6, Indices
  <2> QED
    BY <2>1, <2>2
<1>7. CASE k = ExecPdl + 1
  <2>1. Script[k] = Command("BSL", "CONNECT", 0)
    BY <1>7, ScriptFacts
  <2>2. Fits(Command("BSL", "CONNECT", 0))
    BY <1>1, <1>7, Indices
  <2> QED
    BY <2>1, <2>2
<1>8. CASE Fdl2 > 0 /\ k = ExecPdl + 2
  <2>1. Script[k] = Command("BSL", "START", 0)
    BY <1>8, ScriptFacts
  <2>2. Fits(Command("BSL", "START", 0))
    BY <1>1, <1>8, Indices
  <2> QED
    BY <2>1, <2>2
<1>9. CASE Fdl2 > 0 /\ k \in ExecPdl + 3 .. ExecBsl - 2
  <2>1. k - ExecPdl - 2 \in 1 .. Fdl2 /\ ExecPdl + 2 + (k - ExecPdl - 2) = k
        /\ k - ExecPdl - 2 \in Nat
    BY <1>9, Indices
  <2>2. Script[ExecPdl + 2 + (k - ExecPdl - 2)] = Command("BSL", "MIDST", k - ExecPdl - 2)
    BY <1>9, <2>1, ScriptFacts
  <2>3. Script[k] = Command("BSL", "MIDST", k - ExecPdl - 2)
    BY <2>1, <2>2
  <2>4. Fits(Command("BSL", "MIDST", k - ExecPdl - 2))
    BY <1>1, <1>9, <2>1, Indices
  <2> QED
    BY <2>3, <2>4
<1>10. CASE Fdl2 > 0 /\ k = ExecBsl - 1
  <2>1. Script[k] = Command("BSL", "END", 0)
    BY <1>10, ScriptFacts
  <2>2. Fits(Command("BSL", "END", 0))
    BY <1>1, <1>10, Indices
  <2> QED
    BY <2>1, <2>2
<1>11. CASE Fdl2 > 0 /\ k = ExecBsl
  <2>1. Script[k] = Command("BSL", "EXEC", 0)
    BY <1>11, ScriptFacts
  <2>2. Fits(Command("BSL", "EXEC", 0))
    BY <1>1, <1>11, Indices
  <2> QED
    BY <2>1, <2>2
<1>12. CASE Fdl2 > 0 /\ k = ExecBsl + 1
  <2>1. Script[k] = Command("BSL", "CONNECT", 0)
    BY <1>12, ScriptFacts
  <2>2. Fits(Command("BSL", "CONNECT", 0))
    BY <1>1, <1>12, Indices
  <2> QED
    BY <2>1, <2>2
<1>13. CASE Baud /\ k = BaudAt
  <2>1. Script[k] = Command("BSL", "CHANGE_BAUD", 0)
    BY <1>13, ScriptFacts
  <2>2. Fits(Command("BSL", "CHANGE_BAUD", 0))
    BY <1>1, <1>13, Indices
  <2> QED
    BY <2>1, <2>2
<1>14. CASE Baud /\ k = BaudAt + 1
  <2>1. Script[k] = Command("BSL", "CONNECT", 0)
    BY <1>14, ScriptFacts
  <2>2. Fits(Command("BSL", "CONNECT", 0))
    BY <1>1, <1>14, Indices
  <2> QED
    BY <2>1, <2>2
<1>15. \/ k = 1 \/ k = 2 \/ k \in 3 .. ExecPdl - 2 \/ k = ExecPdl - 1 \/ k = ExecPdl
       \/ k = ExecPdl + 1
       \/ (Fdl2 > 0 /\ k = ExecPdl + 2)
       \/ (Fdl2 > 0 /\ k \in ExecPdl + 3 .. ExecBsl - 2)
       \/ (Fdl2 > 0 /\ k = ExecBsl - 1)
       \/ (Fdl2 > 0 /\ k = ExecBsl)
       \/ (Fdl2 > 0 /\ k = ExecBsl + 1)
       \/ (Baud /\ k = BaudAt)
       \/ (Baud /\ k = BaudAt + 1)
  <2>1. CASE k <= ExecPdl + 1
    BY <2>1, Indices
  <2>2. CASE k > ExecPdl + 1 /\ k < BaudAt
    BY <2>2, Indices
  <2>3. CASE k >= BaudAt
    BY <2>3, Indices
  <2> QED
    BY <2>1, <2>2, <2>3, Indices
<1> QED
  BY <1>2, <1>3, <1>4, <1>5, <1>6, <1>7, <1>8, <1>9, <1>10, <1>11, <1>12, <1>13, <1>14, <1>15

\* What a frame is, by where it may be.
LEMMA FrameFacts ==
    /\ DOMAIN Script = 1 .. ScriptLen
    /\ \A k \in 1 .. ScriptLen : Script[k] \in Frames /\ Script[k] # Kick /\ Script[k] # NormalReset
    /\ Kick \in Frames /\ Kick.layer = "BSL" /\ Kick.cmd = "KICK"
    /\ NormalReset \in Frames /\ NormalReset.layer = "BSL" /\ NormalReset.cmd = "NORMAL_RESET"
    /\ \A f \in Frames : f \in Commands /\ f.piece \in Nat
    /\ \A f \in PdlFrames : /\ f.layer = "PDL" /\ f.cmd # "EXEC"
                            /\ f \in Frames /\ f # Kick /\ f # NormalReset
                            /\ f # Script[ExecPdl]
    /\ Script[ExecPdl].layer = "PDL" /\ Script[ExecPdl].cmd = "EXEC"
    /\ ExecPdl \in 1 .. ScriptLen
    /\ \A k \in 1 .. ScriptLen : k < ExecPdl => Script[k] \in PdlFrames
<1>1. DOMAIN Script = 1 .. ScriptLen
  <2>1. Len(Script) = ScriptLen /\ Script \in Seq(Commands)
    BY ScriptFacts
  <2> QED
    BY <2>1
<1>2. /\ Kick.layer = "BSL" /\ Kick.cmd = "KICK" /\ Kick \in Commands
      /\ NormalReset.layer = "BSL" /\ NormalReset.cmd = "NORMAL_RESET" /\ NormalReset \in Commands
  BY DEF Kick, NormalReset, Command, Commands
<1>3. \A k \in 1 .. ScriptLen : Script[k] \in Frames /\ Script[k] # Kick /\ Script[k] # NormalReset
  BY <1>1, <1>2, CommandFacts DEF Frames
<1>4. ASSUME NEW f \in Frames PROVE f \in Commands /\ f.piece \in Nat
  <2>1. f \in Commands
    BY <1>1, <1>2, CommandFacts DEF Frames
  <2> QED
    BY <2>1 DEF Commands
<1>5. ExecPdl \in 1 .. ScriptLen /\ \A k \in 1 .. ExecPdl - 1 : k \in 1 .. ScriptLen
  BY Indices
<1>6. Script[ExecPdl].layer = "PDL" /\ Script[ExecPdl].cmd = "EXEC"
  BY <1>5, CommandFacts, Indices
<1>7. ASSUME NEW f \in PdlFrames
      PROVE  /\ f.layer = "PDL" /\ f.cmd # "EXEC"
             /\ f \in Frames /\ f # Kick /\ f # NormalReset /\ f # Script[ExecPdl]
  <2>1. PICK k \in 1 .. ExecPdl - 1 : f = Script[k]
    BY DEF PdlFrames
  <2>2. k \in 1 .. ScriptLen /\ k <= ExecPdl /\ k # ExecPdl /\ ~(Fdl2 > 0 /\ k = ExecBsl)
    BY <1>5, Indices
  <2>3. Script[k].layer = "PDL" /\ Script[k].cmd # "EXEC"
    BY <2>2, CommandFacts
  <2> QED
    BY <1>3, <1>6, <2>1, <2>2, <2>3
<1>8. \A k \in 1 .. ScriptLen : k < ExecPdl => Script[k] \in PdlFrames
  BY Indices DEF PdlFrames
<1> QED
  BY <1>1, <1>2, <1>3, <1>4, <1>5, <1>6, <1>7, <1>8 DEF Frames

\* What the host waits for, by the index of its command.
LEMMA Awaiting ==
    ASSUME NumberInv, outcome # "ok"
    PROVE  /\ at \in 1 .. ScriptLen
           /\ AwaitsVer <=> at = ExecPdl
           /\ Awaited.layer = "PDL" <=> at <= ExecPdl
           /\ \A r : Heard(r) <=> ((r = "PDL") <=> (at < ExecPdl))
           /\ Expected = IF at < ExecPdl THEN "PDL" ELSE IF at = ExecPdl THEN "VER" ELSE "ACK"
<1>1. at \in 1 .. ScriptLen /\ ExecPdl \in Nat /\ at \in Nat /\ ScriptLen \in Nat
  BY Indices DEF NumberInv
<1>2. /\ Awaited.layer = IF at <= ExecPdl THEN "PDL" ELSE "BSL"
      /\ Awaited.cmd = "EXEC" <=> at = ExecPdl \/ (Fdl2 > 0 /\ at = ExecBsl)
  BY <1>1, CommandFacts DEF Awaited
<1>3. AwaitsVer <=> at = ExecPdl
  BY <1>1, <1>2, Indices DEF AwaitsVer
<1>4. Awaited.layer = "PDL" <=> at <= ExecPdl
  BY <1>2
<1>5. \A r : Heard(r) <=> ((r = "PDL") <=> (at < ExecPdl))
  BY <1>1, <1>3, <1>4 DEF Heard
<1>6. Expected = IF at < ExecPdl THEN "PDL" ELSE IF at = ExecPdl THEN "VER" ELSE "ACK"
  BY <1>1, <1>3, <1>4 DEF Expected
<1> QED
  BY <1>1, <1>3, <1>4, <1>5, <1>6

\* The rest of a sequence.
Rest(s, t) ==
    /\ Len(t) \in Nat /\ Len(t) <= Len(s)
    /\ \A i \in DOMAIN t : i + (Len(s) - Len(t)) \in DOMAIN s /\ t[i] = s[i + (Len(s) - Len(t))]

LEMMA TailIsRest ==
    ASSUME NEW S, NEW s \in Seq(S), s # <<>>
    PROVE  /\ Tail(s) \in Seq(S) /\ Len(Tail(s)) = Len(s) - 1
           /\ \A i \in DOMAIN Tail(s) : i + 1 \in DOMAIN s /\ Tail(s)[i] = s[i + 1]
           /\ 1 \in DOMAIN s /\ s[1] \in S /\ Len(s) \in Nat \ {0}
OBVIOUS

LEMMA SubSeqIsRest ==
    ASSUME NEW S, NEW s \in Seq(S), NEW k \in Nat \ {0}, k <= Len(s) + 1
    PROVE  /\ SubSeq(s, k, Len(s)) \in Seq(S) /\ Len(SubSeq(s, k, Len(s))) = Len(s) + 1 - k
           /\ Rest(s, SubSeq(s, k, Len(s)))
<1> DEFINE t == SubSeq(s, k, Len(s))
<1>1. t \in Seq(S) /\ Len(t) = Len(s) + 1 - k /\ \A i \in 1 .. Len(s) + 1 - k : t[i] = s[k + i - 1]
  BY SubSeqProperties
<1> HIDE DEF t
<1>2. DOMAIN t = 1 .. Len(s) + 1 - k /\ Len(s) \in Nat
  BY <1>1
<1>3. ASSUME NEW i \in DOMAIN t
      PROVE  i + (Len(s) - Len(t)) \in DOMAIN s /\ t[i] = s[i + (Len(s) - Len(t))]
  <2> DEFINE n == Len(s)
             m == Len(t)
  <2>1. n \in Nat /\ m = n + 1 - k /\ i \in 1 .. n + 1 - k
    BY <1>1, <1>2
  <2> HIDE DEF n, m
  <2>2. i + (n - m) = k + i - 1 /\ k + i - 1 \in 1 .. n
    BY <2>1
  <2>3. DOMAIN s = 1 .. n
    BY DEF n
  <2>4. t[i] = s[k + i - 1]
    BY <1>1, <2>1, Zenon DEF n
  <2> QED
    BY <2>2, <2>3, <2>4 DEF n, m
<1>4. Len(t) \in Nat /\ Len(t) <= Len(s)
  BY <1>1, <1>2
<1>5. t \in Seq(S) /\ Len(t) = Len(s) + 1 - k /\ Rest(s, t)
  BY <1>1, <1>3, <1>4 DEF Rest
<1> QED
  BY <1>5 DEF t

----
(***************************************************************************)
(* The steps of the host.                                                  *)
(***************************************************************************)
LEMMA InitInv == Init => BringUpInv
<1> SUFFICES ASSUME Init PROVE BringUpInv
  OBVIOUS
<1>1. /\ config \in Configs /\ pc = "resolve" /\ at = 1 /\ kicks = 0 /\ attempt = 0
      /\ outcome = "running" /\ rate = "base" /\ alive = FALSE /\ toDev = <<>> /\ toHost = <<>>
      /\ dev \in {"app", "pdl", "fdl1", "fdl2"} /\ ram = <<>> /\ devRate = "base" /\ losses = 0
      /\ greeted \in BOOLEAN
  BY ConfigAssumption DEF Init
<1>2. NumberInv
  <2>1. 1 <= ScriptLen + 1 /\ 1 <= ScriptLen
    BY Indices
  <2>2. 0 \in 0 .. MaxKicks /\ 0 \in 0 .. MaxLosses
    BY Numbers
  <2>3. alive \in BOOLEAN /\ greeted \in BOOLEAN
    BY <1>1
  <2>4. toDev \in Seq(Frames) /\ toHost \in Seq(Replies) /\ ram \in Seq(Nat)
    BY <1>1
  <2>5. at \in Nat \ {0} /\ at <= ScriptLen + 1 /\ at <= ScriptLen
    BY <1>1, <2>1
  <2>6. kicks \in 0 .. MaxKicks /\ losses \in 0 .. MaxLosses /\ attempt \in {0, 1}
    BY <1>1, <2>2
  <2> QED
    BY <1>1, <2>3, <2>4, <2>5, <2>6 DEF NumberInv
<1>3. SourceInv /\ QuietInv /\ PdlInv /\ VerInv /\ RecoverInv /\ BslInv
  BY <1>1, Indices
  DEF SourceInv, QuietInv, PdlInv, VerInv, RecoverInv, BslInv, Quiet, InPdl, AtVer, InBsl, NoPdl
<1>4. DeadInv /\ LossInv
  BY <1>1 DEF DeadInv, LossInv, InPdl, Quiet
<1>5. RamInv
  <2>1. ram = Whole(0) /\ 0 \in 0 .. Fdl1 + Fdl2
    BY <1>1, Numbers DEF Whole
  <2> QED
    BY <1>1, <2>1, Indices DEF RamInv, InPdl, AtVer, InBsl
<1> QED
  BY <1>2, <1>3, <1>4, <1>5 DEF BringUpInv, ChannelInv

\* The host looks for the port, or gives up.
LEMMA QuietMoves ==
    ASSUME BringUpInv, Quiet, Quiet', outcome = "running", outcome' \in {"running", "err"},
           dev' = dev \/ (dev = "app" /\ dev' = "entering"),
           UNCHANGED <<config, at, kicks, attempt, portVars, toDev, toHost, ram, greeted, devRate,
                       losses>>
    PROVE  BringUpInv'
<1>1. /\ NumberInv /\ SourceInv /\ QuietInv /\ PdlInv /\ VerInv /\ RecoverInv /\ BslInv
      /\ DeadInv /\ LossInv /\ RamInv
      /\ UNCHANGED <<config, at, kicks, attempt, rate, alive, toDev, toHost, ram, greeted,
                     devRate, losses>>
  BY DEF BringUpInv, ChannelInv, portVars
<1>2. at \in Nat /\ at <= ExecPdl /\ ~InBsl /\ ~InBsl' /\ toDev = <<>>
  BY <1>1, Indices DEF QuietInv, InBsl, NumberInv
<1>3. /\ ~InPdl /\ ~InPdl' /\ ~AtVer /\ ~AtVer' /\ pc # "reenumerate" /\ pc' # "reenumerate"
      /\ pc # "command" /\ pc' # "command"
  BY DEF InPdl, AtVer, Quiet
<1>4. NumberInv'
  BY <1>1 DEF NumberInv, Quiet
<1>5. SourceInv'
  BY <1>1, <1>2, <1>3 DEF SourceInv, NoPdl
<1>6. QuietInv' /\ PdlInv' /\ VerInv' /\ RecoverInv' /\ BslInv'
  BY <1>1, <1>2, <1>3 DEF QuietInv, PdlInv, VerInv, RecoverInv, BslInv
<1>7. DeadInv' /\ LossInv' /\ RamInv'
  BY <1>1, <1>2, <1>3 DEF DeadInv, LossInv, RamInv, Steady
<1> QED
  BY <1>4, <1>5, <1>6, <1>7 DEF BringUpInv, ChannelInv

LEMMA PortSteps ==
    ASSUME BringUpInv,
           ResolvePort \/ SwitchModule \/ NoPort \/ BeaconSeen \/ BeaconMissing \/ OpenFails
    PROVE  BringUpInv'
<1>1. /\ Quiet /\ Quiet' /\ outcome = "running" /\ outcome' \in {"running", "err"}
      /\ dev' = dev \/ (dev = "app" /\ dev' = "entering")
      /\ UNCHANGED <<config, at, kicks, attempt, portVars, toDev, toHost, ram, greeted, devRate,
                     losses>>
  BY DEF ResolvePort, SwitchModule, NoPort, BeaconSeen, BeaconMissing, OpenFails, At, Quiet,
         ModuleSeen, devVars
<1> QED
  BY <1>1, QuietMoves

\* Replies are lost, skipped or dropped, and the host may give up.
LEMMA HostShrinks ==
    ASSUME BringUpInv, toHost' \in Seq(Replies), Rest(toHost, toHost'),
           outcome' = outcome \/ (outcome = "running" /\ outcome' = "err"),
           losses' \in 0 .. MaxLosses,
           UNCHANGED <<config, pc, at, kicks, attempt, portVars, toDev, devVars>>
    PROVE  BringUpInv'
<1>1. /\ NumberInv /\ SourceInv /\ QuietInv /\ PdlInv /\ VerInv /\ RecoverInv /\ BslInv
      /\ DeadInv /\ LossInv /\ RamInv
      /\ UNCHANGED <<config, pc, at, kicks, attempt, rate, alive, toDev, dev, ram, greeted,
                     devRate>>
  BY DEF BringUpInv, ChannelInv, portVars, devVars
<1>2. /\ toHost \in Seq(Replies) /\ Len(toHost) \in Nat /\ toDev \in Seq(Frames)
      /\ Len(toDev) \in Nat
  BY <1>1 DEF NumberInv
<1>3. /\ Len(toHost') \in Nat /\ Len(toHost') <= Len(toHost)
      /\ \A i \in DOMAIN toHost' : \E j \in DOMAIN toHost :
            toHost'[i] = toHost[j] /\ (j = Len(toHost) => i = Len(toHost'))
      /\ toHost = <<>> => toHost' = <<>>
      /\ NoPdl => NoPdl'
  <2>1. Len(toHost') \in Nat /\ Len(toHost') <= Len(toHost)
    BY DEF Rest
  <2>2. ASSUME NEW i \in DOMAIN toHost'
        PROVE  \E j \in DOMAIN toHost :
                  toHost'[i] = toHost[j] /\ (j = Len(toHost) => i = Len(toHost'))
    <3> DEFINE n == Len(toHost)
               m == Len(toHost')
               j == i + (n - m)
    <3>1. j \in DOMAIN toHost /\ toHost'[i] = toHost[j]
      BY DEF Rest
    <3>2. n \in Nat /\ m \in Nat /\ i \in Nat
      BY <1>2, <2>1
    <3>3. j = n => i = m
      <4> HIDE DEF n, m
      <4> QED
        BY <3>2
    <3> HIDE DEF j
    <3> QED
      BY <3>1, <3>3 DEF n, m
  <2>3. toHost = <<>> => toHost' = <<>>
    BY <2>1
  <2>4. NoPdl => NoPdl'
    BY <2>2 DEF NoPdl
  <2> QED
    BY <2>1, <2>2, <2>3, <2>4
<1>4. Quiet' = Quiet /\ InPdl' = InPdl /\ AtVer' = AtVer /\ InBsl' = InBsl /\ Steady' = Steady
  BY <1>1 DEF Quiet, InPdl, AtVer, InBsl, Steady
<1>5. NumberInv'
  BY <1>1 DEF NumberInv
<1>6. SourceInv'
  BY <1>1, <1>3, <1>4 DEF SourceInv
<1>7. QuietInv' /\ RecoverInv'
  BY <1>1, <1>3, <1>4 DEF QuietInv, RecoverInv
<1>8. PdlInv'
  BY <1>1, <1>2, <1>3, <1>4 DEF PdlInv
<1>9. VerInv'
  BY <1>1, <1>3, <1>4 DEF VerInv, Kicks
<1>10. BslInv'
  <2>1. \A k : DevBefore(k)' <=> DevBefore(k)
    BY <1>1 DEF DevBefore
  <2>2. ASSUME InBsl, toHost' # <<>>
        PROVE  toHost # <<>> /\ Len(toHost') = 1 /\ toHost'[1] = toHost[1] /\ outcome' # "ok"
    <3>1. toHost # <<>> /\ Len(toHost) = 1 /\ outcome # "ok"
      BY <1>1, <1>3, <2>2 DEF BslInv
    <3>2. Len(toHost') = 1 /\ 1 \in DOMAIN toHost'
      BY <1>2, <1>3, <2>2, <3>1
    <3>3. PICK j \in DOMAIN toHost : toHost'[1] = toHost[j]
      BY <1>3, <3>2
    <3>4. j = 1
      BY <1>2, <3>1, <3>3
    <3> QED
      BY <3>1, <3>2, <3>3, <3>4
  <2> QED
    BY <1>1, <1>3, <1>4, <2>1, <2>2 DEF BslInv
<1>11. DeadInv'
  BY <1>1, <1>3 DEF DeadInv
<1>12. LossInv'
  BY <1>1, <1>2, <1>3, <1>4 DEF LossInv
<1>13. RamInv'
  <2>1. /\ \A k : RamBefore(k)' <=> RamBefore(k)
        /\ \A c : Sent(c)' <=> Sent(c)
    BY <1>1 DEF RamBefore, Sent
  <2>2. ASSUME InBsl, toHost' # <<>>
        PROVE  toHost # <<>> /\ toHost'[1] = toHost[1]
    <3>1. toHost # <<>> /\ Len(toHost) = 1
      BY <1>1, <1>3, <2>2 DEF BslInv
    <3>2. 1 \in DOMAIN toHost'
      BY <1>2, <1>3, <2>2, <3>1
    <3>3. PICK j \in DOMAIN toHost : toHost'[1] = toHost[j]
      BY <1>3, <3>2
    <3>4. j = 1
      BY <1>2, <3>1, <3>3
    <3> QED
      BY <3>1, <3>3, <3>4
  <2> QED
    BY <1>1, <1>3, <1>4, <2>1, <2>2 DEF RamInv
<1> QED
  BY <1>5, <1>6, <1>7, <1>8, <1>9, <1>10, <1>11, <1>12, <1>13 DEF BringUpInv, ChannelInv

\* What the host takes a reply from, and what is left then.
LEMMA TakeFacts ==
    ASSUME NumberInv, TakeReply
    PROVE  /\ outcome = "running" /\ pc = "command" /\ toHost # <<>> /\ Heard(toHost[1])
           /\ toHost' \in Seq(Replies) /\ Rest(toHost, toHost') /\ Len(toHost') < Len(toHost)
           /\ 1 \in DOMAIN toHost /\ Len(toHost) \in Nat /\ Len(toHost') \in Nat
<1>1. /\ outcome = "running" /\ pc = "command" /\ toHost # <<>> /\ Heard(toHost[1])
      /\ toHost \in Seq(Replies)
  BY DEF TakeReply, At, NumberInv
<1>2. PICK surplus \in 0 .. Len(toHost) - 1 :
          toHost' = SubSeq(toHost, surplus + 2, Len(toHost))
  BY DEF TakeReply
<1> DEFINE n == Len(toHost)
           k == surplus + 2
<1>3. n \in Nat /\ n > 0 /\ 1 \in DOMAIN toHost
  BY <1>1
<1>4. k \in Nat \ {0} /\ k <= n + 1 /\ n + 1 - k \in Nat /\ n + 1 - k < n
  <2> HIDE DEF n
  <2> QED
    BY <1>2, <1>3 DEF n
<1> HIDE DEF k, n
<1>5. /\ SubSeq(toHost, k, Len(toHost)) \in Seq(Replies)
      /\ Len(SubSeq(toHost, k, Len(toHost))) = Len(toHost) + 1 - k
      /\ Rest(toHost, SubSeq(toHost, k, Len(toHost)))
  BY <1>1, <1>4, SubSeqIsRest DEF n
<1>6. toHost' = SubSeq(toHost, k, Len(toHost))
  BY <1>2 DEF k
<1> QED
  BY <1>1, <1>3, <1>4, <1>5, <1>6 DEF n

LEMMA TailRests ==
    ASSUME NEW S, NEW s \in Seq(S), s # <<>>
    PROVE  Tail(s) \in Seq(S) /\ Rest(s, Tail(s))
<1> DEFINE t == Tail(s)
           n == Len(s)
           m == Len(t)
<1>1. /\ t \in Seq(S) /\ m = n - 1 /\ n \in Nat \ {0}
      /\ \A i \in DOMAIN t : i + 1 \in DOMAIN s /\ t[i] = s[i + 1]
  BY TailIsRest
<1> HIDE DEF t, n, m
<1>2. m \in Nat /\ m <= n /\ n - m = 1
  BY <1>1
<1> QED
  BY <1>1, <1>2 DEF Rest, t, n, m

LEMMA ReplyLossSteps ==
    ASSUME BringUpInv, SkipReply \/ LoseReply \/ UnexpectedReply \/ PayloadMissing
    PROVE  BringUpInv'
<1>1. NumberInv /\ toHost \in Seq(Replies) /\ losses \in 0 .. MaxLosses
  BY DEF BringUpInv, ChannelInv, NumberInv
<1>2. CASE SkipReply
  <2>1. /\ toHost # <<>> /\ toHost' = Tail(toHost) /\ outcome' = outcome /\ losses' = losses
        /\ UNCHANGED <<config, pc, at, kicks, attempt, portVars, toDev, devVars>>
    BY <1>2 DEF SkipReply
  <2>2. toHost' \in Seq(Replies) /\ Rest(toHost, toHost')
    BY <1>1, <2>1, TailRests
  <2> QED
    BY <1>1, <2>1, <2>2, HostShrinks
<1>3. CASE LoseReply
  <2>1. /\ toHost # <<>> /\ toHost' = Tail(toHost) /\ outcome' = outcome
        /\ losses' = losses + 1 /\ losses < MaxLosses
        /\ UNCHANGED <<config, pc, at, kicks, attempt, portVars, toDev, devVars>>
    BY <1>3 DEF LoseReply
  <2>2. toHost' \in Seq(Replies) /\ Rest(toHost, toHost')
    BY <1>1, <2>1, TailRests
  <2>3. losses' \in 0 .. MaxLosses
    BY <1>1, <2>1, Numbers
  <2> QED
    BY <2>1, <2>2, <2>3, HostShrinks
<1>4. CASE UnexpectedReply
  <2>1. /\ TakeReply /\ outcome' = "err" /\ losses' = losses
        /\ UNCHANGED <<config, pc, at, kicks, attempt, portVars, toDev, devVars>>
    BY <1>4 DEF UnexpectedReply
  <2>2. outcome = "running" /\ toHost' \in Seq(Replies) /\ Rest(toHost, toHost')
    BY <1>1, <2>1, TakeFacts
  <2> QED
    BY <1>1, <2>1, <2>2, HostShrinks
<1>5. CASE PayloadMissing
  <2>1. /\ (At("open") /\ toHost' = toHost) \/ TakeReply
        /\ outcome' = "err" /\ losses' = losses
        /\ UNCHANGED <<config, pc, at, kicks, attempt, portVars, toDev, devVars>>
    BY <1>5 DEF PayloadMissing
  <2>2. outcome = "running" /\ toHost' \in Seq(Replies) /\ Rest(toHost, toHost')
    <3>1. CASE TakeReply
      BY <1>1, <3>1, TakeFacts
    <3>2. CASE At("open") /\ toHost' = toHost
      <4>1. Rest(toHost, toHost)
        BY <1>1 DEF Rest
      <4> QED
        BY <1>1, <3>2, <4>1 DEF At
    <3> QED
      BY <2>1, <3>1, <3>2
  <2> QED
    BY <1>1, <2>1, <2>2, HostShrinks
<1> QED
  BY <1>2, <1>3, <1>4, <1>5

\* The port is opened and PDL CONNECT sent.
LEMMA OpenStep == ASSUME BringUpInv, OpenPort PROVE BringUpInv'
<1>1. /\ NumberInv /\ SourceInv /\ QuietInv /\ LossInv /\ RamInv
      /\ outcome = "running" /\ outcome' = "running" /\ pc = "open" /\ pc' = "command"
      /\ dev \in {"pdl", "fdl1", "fdl2", "resetting"}
      /\ rate' = "base" /\ alive' = TRUE /\ at' = 1 /\ kicks' = 0
      /\ toDev' = Append(toDev, Script[1])
      /\ UNCHANGED <<config, attempt, dev, ram, greeted, devRate, losses>>
  BY DEF OpenPort, BringUpInv, ChannelInv, At, DownloadSeen, devVars
<1>2. /\ toHost \in Seq(Replies) /\ toDev = <<>> /\ Quiet /\ ~AtVer /\ at <= ExecPdl
      /\ attempt = 0 => toHost = <<>>
  BY <1>1 DEF NumberInv, QuietInv, Quiet, AtVer
<1>3. /\ toHost' \in Seq(Replies) /\ Rest(toHost, toHost')
      /\ toHost = <<>> => toHost' = <<>>
      /\ \A i \in DOMAIN toHost' : \E j \in DOMAIN toHost : toHost'[i] = toHost[j]
  <2>1. PICK purged \in 0 .. Len(toHost) : toHost' = SubSeq(toHost, purged + 1, Len(toHost))
    BY DEF OpenPort
  <2> DEFINE k == purged + 1
  <2>2. k \in Nat \ {0} /\ k <= Len(toHost) + 1
    BY <1>2
  <2> HIDE DEF k
  <2>3. toHost' \in Seq(Replies) /\ Rest(toHost, toHost')
    BY <1>2, <2>1, <2>2, SubSeqIsRest DEF k
  <2>4. toHost = <<>> => toHost' = <<>>
    BY <2>3 DEF Rest
  <2> QED
    BY <2>3, <2>4 DEF Rest
<1>4. /\ 1 \in 1 .. ScriptLen /\ Script[1] \in Frames /\ Script[1] \in PdlFrames
      /\ 1 < ExecPdl /\ 1 <= ScriptLen /\ 1 <= ScriptLen + 1
  BY Indices, FrameFacts
<1>5. /\ toDev' \in Seq(Frames) /\ Len(toDev') = 1 /\ toDev'[1] = Script[1]
      /\ DOMAIN toDev' = {1} /\ toDev' # <<>>
  BY <1>1, <1>2, <1>4
<1>6. ~Quiet' /\ InPdl' /\ ~AtVer' /\ ~InBsl' /\ pc' # "reenumerate" /\ at' <= ExecPdl
  BY <1>1, <1>4, Indices DEF Quiet, InPdl, AtVer, InBsl
<1>7. NumberInv'
  <2>1. kicks' \in 0 .. MaxKicks /\ at' \in Nat \ {0}
    BY <1>1, Numbers
  <2> QED
    BY <1>1, <1>3, <1>4, <1>5, <2>1 DEF NumberInv
<1>8. SourceInv'
  <2>1. devRate = "base" /\ (dev = "pdl" => \A i \in DOMAIN toHost : toHost[i] = "PDL")
        /\ (dev # "pdl" => NoPdl)
    BY <1>1, <1>2 DEF SourceInv
  <2> QED
    BY <1>1, <1>3, <2>1 DEF SourceInv, NoPdl
<1>9. QuietInv' /\ VerInv' /\ RecoverInv' /\ BslInv'
  BY <1>6 DEF QuietInv, VerInv, RecoverInv, BslInv
<1>10. PdlInv'
  <2>1. attempt = 0 => Len(toDev') + Len(toHost') <= 1
    BY <1>2, <1>3, <1>5
  <2> QED
    BY <1>1, <1>4, <1>5, <2>1 DEF PdlInv
<1>11. DeadInv'
  BY <1>1 DEF DeadInv
<1>12. LossInv'
  <2>1. Steady /\ "loss" \in config.faults => Len(toDev') + Len(toHost') <= 1
    BY <1>1, <1>2, <1>3, <1>5 DEF LossInv
  <2> QED
    BY <1>1, <1>6, <2>1 DEF LossInv, Steady
<1>13. RamInv'
  <2>1. Sent(1)'
    <3>1. 1 <= 1 /\ 1 - 1 + 1 = 1 /\ 1 .. 1 = {1} /\ ~(1 > 1)
      OBVIOUS
    <3> QED
      BY <1>1, <1>5, <3>1 DEF Sent
  <2>2. RamBefore(1)'
    BY Indices DEF RamBefore
  <2>3. at' + 1 - Len(toDev') = 1
    BY <1>1, <1>5
  <2>4. Steady' = Steady
    BY <1>1 DEF Steady
  <2>5. Sent(Len(toDev))' /\ RamBefore(at + 1 - Len(toDev))'
    BY <1>5, <2>1, <2>2, <2>3 DEF Sent, RamBefore
  <2> QED
    BY <1>1, <1>6, <2>4, <2>5 DEF RamInv
<1> QED
  BY <1>7, <1>8, <1>9, <1>10, <1>11, <1>12, <1>13 DEF BringUpInv, ChannelInv

\* A kick is sent behind PDL EXEC.
LEMMA KickStep == ASSUME BringUpInv, SendKick PROVE BringUpInv'
<1>1. /\ NumberInv /\ SourceInv /\ VerInv /\ DeadInv /\ RamInv
      /\ outcome = "running" /\ pc = "command" /\ kicks < MaxKicks /\ kicks' = kicks + 1
      /\ toDev' = IF alive THEN Append(toDev, Kick) ELSE toDev
      /\ UNCHANGED <<config, pc, at, attempt, outcome, rate, alive, toHost, dev, ram, greeted,
                     devRate, losses>>
      /\ AwaitsVer
  BY DEF SendKick, BringUpInv, ChannelInv, At, portVars, devVars
<1>2. /\ at = ExecPdl /\ AtVer /\ AtVer' /\ ~Quiet' /\ ~InPdl' /\ ~InBsl' /\ at' <= ExecPdl
      /\ toDev \in Seq(Frames) /\ Len(toDev) \in Nat
  BY <1>1, Awaiting, Indices DEF AtVer, Quiet, InPdl, InBsl, NumberInv
<1>3. /\ toDev' \in Seq(Frames)
      /\ \A i \in DOMAIN toDev : i \in DOMAIN toDev' /\ toDev'[i] = toDev[i] /\ i <= Len(toDev)
      /\ \A i \in DOMAIN toDev' \ DOMAIN toDev : toDev'[i] = Kick /\ i > Len(toDev)
      /\ Len(toDev) <= Len(toDev')
  <2>1. Kick \in Frames
    BY FrameFacts
  <2> QED
    BY <1>1, <1>2, <2>1
<1>4. Kick # Script[ExecPdl] /\ Kick \notin PdlFrames
  BY FrameFacts
<1>5. NumberInv'
  <2>1. kicks' \in 0 .. MaxKicks
    BY <1>1, Numbers DEF NumberInv
  <2> QED
    BY <1>1, <1>3, <2>1 DEF NumberInv
<1>6. SourceInv'
  <2>1. dev \notin {"app", "entering", "rebooting"}
    BY <1>1, <1>2 DEF VerInv
  <2> QED
    BY <1>1, <1>2, <2>1 DEF SourceInv
<1>7. QuietInv' /\ PdlInv' /\ RecoverInv' /\ BslInv' /\ LossInv'
  BY <1>1, <1>2 DEF QuietInv, PdlInv, RecoverInv, BslInv, LossInv
<1>8. VerInv'
  <2>1. /\ dev \in {"pdl", "fdl1"}
        /\ dev = "fdl1" =>
              /\ \A i \in DOMAIN toDev : toDev[i] = Kick
              /\ \A i \in DOMAIN toHost : toHost[i] # "PDL" => greeted /\ i = Len(toHost)
        /\ attempt = 0 => NoPdl /\ \A i \in DOMAIN toDev : toDev[i] \notin PdlFrames
    BY <1>1, <1>2 DEF VerInv, Kicks
  <2>2. /\ \A i \in DOMAIN toDev : toDev[i] \in PdlFrames \cup {Script[ExecPdl], Kick}
        /\ \A i, j \in DOMAIN toDev : toDev[i] = Script[ExecPdl] /\ j > i => toDev[j] = Kick
    BY <1>1, <1>2 DEF VerInv
  <2>3. \A i \in DOMAIN toDev' : toDev'[i] \in PdlFrames \cup {Script[ExecPdl], Kick}
    BY <1>3, <2>2
  <2>4. ASSUME NEW i \in DOMAIN toDev', toDev'[i] = Script[ExecPdl], NEW j \in DOMAIN toDev', j > i
        PROVE  toDev'[j] = Kick
    <3>1. i \in DOMAIN toDev /\ toDev[i] = Script[ExecPdl]
      BY <1>3, <1>4, <2>4
    <3> QED
      BY <1>3, <2>2, <2>4, <3>1
  <2>5. /\ dev = "fdl1" => \A i \in DOMAIN toDev' : toDev'[i] = Kick
        /\ attempt = 0 => \A i \in DOMAIN toDev' : toDev'[i] \notin PdlFrames
    BY <1>3, <1>4, <2>1
  <2> QED
    BY <1>1, <2>1, <2>3, <2>4, <2>5 DEF VerInv, Kicks, NoPdl
<1>9. DeadInv'
  BY <1>1 DEF DeadInv
<1>10. RamInv'
  <2>1. ASSUME NEW c \in 0 .. Len(toDev), Sent(c) PROVE Sent(c)' /\ c \in 0 .. Len(toDev')
    <3>1. /\ c <= Len(toDev') /\ c <= at' /\ c \in 0 .. Len(toDev')
          /\ "loss" \in config'.faults => c <= 1
      BY <1>1, <1>2, <1>3, <2>1 DEF Sent
    <3>2. \A i \in 1 .. c : toDev'[i] = Script[at - c + i]
      <4>1. \A i \in 1 .. c : i \in DOMAIN toDev
        BY <1>2
      <4> QED
        BY <1>3, <2>1, <4>1 DEF Sent
    <3>3. \A i \in DOMAIN toDev' : i > c => toDev'[i] \in {Kick, NormalReset}
      BY <1>3, <2>1 DEF Sent
    <3> QED
      BY <1>1, <3>1, <3>2, <3>3 DEF Sent
  <2>2. /\ Steady' = Steady
        /\ \A k : RamBefore(k)' = RamBefore(k)
    BY <1>1 DEF Steady, RamBefore
  <2>3. ASSUME Steady PROVE /\ \E n \in 0 .. Fdl1 + Fdl2 : ram = Whole(n)
                            /\ dev = "pdl" => \E c \in 0 .. Len(toDev') :
                                  Sent(c)' /\ (c > 0 => RamBefore(at + 1 - c))
    BY <1>1, <1>2, <2>1, <2>3 DEF RamInv
  <2> QED
    BY <1>1, <1>2, <2>2, <2>3 DEF RamInv
<1> QED
  BY <1>5, <1>6, <1>7, <1>8, <1>9, <1>10 DEF BringUpInv, ChannelInv

\* The deadline passes, or the port fails: the command is given up.
LEMMA FailStep == ASSUME BringUpInv, TimedOut \/ PortFails PROVE BringUpInv'
<1>1. /\ NumberInv /\ SourceInv /\ QuietInv /\ PdlInv /\ VerInv /\ BslInv /\ DeadInv /\ LossInv
      /\ RamInv
      /\ outcome = "running" /\ pc = "command"
      /\ alive' \in BOOLEAN /\ (~alive => ~alive')
      /\ UNCHANGED <<config, at, kicks, attempt, rate, toHost, dev, ram, greeted, devRate, losses>>
      /\ (Fail(alive) \/ Fail(FALSE))
  <2>1. alive' \in BOOLEAN /\ (~alive => ~alive')
    <3>1. CASE TimedOut
      <4>1. alive' = alive
        BY <3>1 DEF TimedOut, portVars
      <4> QED
        BY <4>1, Zenon DEF BringUpInv, ChannelInv, NumberInv
    <3>2. CASE PortFails
      <4>1. alive' = FALSE
        BY <3>2, Zenon DEF PortFails
      <4> QED
        BY <4>1, Zenon
    <3> QED
      BY <3>1, <3>2
  <2> QED
    BY <2>1 DEF TimedOut, PortFails, BringUpInv, ChannelInv, At, portVars, devVars
<1>2. /\ toDev \in Seq(Frames) /\ Len(toDev) \in Nat /\ at \in Nat /\ attempt \in {0, 1}
  BY <1>1 DEF NumberInv
<1>3. /\ ~Quiet /\ ~Quiet' /\ Steady' = Steady /\ InBsl' = InBsl
      /\ \A k : RamBefore(k)' = RamBefore(k)
      /\ \A k : DevBefore(k)' = DevBefore(k)
      /\ NoPdl' = NoPdl
  BY <1>1 DEF Quiet, Steady, InBsl, Fail, RamBefore, DevBefore, NoPdl
<1>4. CASE ~Recoverable
  <2>1. outcome' = "err" /\ pc' = pc /\ toDev' = toDev
    BY <1>1, <1>4 DEF Fail
  <2>2. InPdl' = InPdl /\ AtVer' = AtVer /\ (\A c : Sent(c)' = Sent(c))
    BY <1>1, <2>1 DEF InPdl, AtVer, Sent
  <2>3. NumberInv' /\ SourceInv' /\ QuietInv'
    BY <1>1, <1>3, <2>1, <2>2 DEF NumberInv, SourceInv, QuietInv
  <2>4. PdlInv' /\ RecoverInv' /\ BslInv'
    BY <1>1, <1>3, <2>1, <2>2 DEF PdlInv, RecoverInv, BslInv
  <2>5. VerInv'
    BY <1>1, <1>3, <2>1, <2>2 DEF VerInv, Kicks
  <2>6. DeadInv'
    BY <1>1, <2>1 DEF DeadInv
  <2>7. LossInv' /\ RamInv'
    BY <1>1, <1>3, <2>1, <2>2 DEF LossInv, RamInv
  <2> QED
    BY <2>3, <2>4, <2>5, <2>6, <2>7 DEF BringUpInv, ChannelInv
<1>5. CASE Recoverable
  <2>1. /\ outcome' = outcome /\ pc' = "reenumerate"
        /\ toDev' = toDev \/ (alive /\ toDev' = Append(toDev, NormalReset))
        /\ attempt = 0
    BY <1>1, <1>5 DEF Fail, Recoverable
  <2>2. at <= ExecPdl /\ (InPdl \/ AtVer) /\ ~InBsl
    BY <1>1, <1>2, <1>5, Awaiting, Indices DEF Recoverable, InPdl, AtVer, InBsl
  <2>3. ~InPdl' /\ ~AtVer' /\ ~InBsl' /\ at' = at
    BY <1>1, <1>3, <2>1, <2>2 DEF InPdl, AtVer
  <2>4. /\ toDev' \in Seq(Frames)
        /\ \A i \in DOMAIN toDev : i \in DOMAIN toDev' /\ toDev'[i] = toDev[i]
        /\ \A i \in DOMAIN toDev' \ DOMAIN toDev : toDev'[i] = NormalReset /\ i > Len(toDev)
        /\ Len(toDev) <= Len(toDev')
    <3>1. NormalReset \in Frames
      BY FrameFacts
    <3> QED
      BY <1>2, <2>1, <3>1
  <2>5. NumberInv'
    BY <1>1, <2>1, <2>4 DEF NumberInv
  <2>6. /\ dev = "pdl" => \A i \in DOMAIN toHost : toHost[i] = "PDL"
        /\ dev # "pdl" => NoPdl
        /\ AtVer => NoPdl
    <3>1. AtVer => NoPdl
      BY <1>1, <2>1 DEF VerInv
    <3> QED
      BY <1>1, <2>2, <3>1 DEF SourceInv
  <2>7. SourceInv'
    <3>1. /\ dev \in {"app", "entering", "rebooting"} => toDev' = <<>> /\ toHost = <<>>
      <4>1. ASSUME dev \in {"app", "entering", "rebooting"}
            PROVE  toDev' = <<>> /\ toHost = <<>>
        <5>1. toDev = <<>> /\ toHost = <<>>
          BY <1>1, <2>2, <4>1 DEF SourceInv
        <5>2. ~alive
          BY <1>1, <4>1 DEF DeadInv
        <5> QED
          BY <2>1, <5>1, <5>2
      <4> QED
        BY <4>1
    <3>2. rate = "base" /\ devRate = "base"
      BY <1>1, <2>2 DEF SourceInv
    <3> QED
      BY <1>1, <1>3, <2>1, <2>3, <2>6, <3>1, <3>2 DEF SourceInv
  <2>8. QuietInv' /\ PdlInv' /\ VerInv' /\ BslInv' /\ DeadInv'
    BY <1>3, <2>1, <2>3 DEF QuietInv, PdlInv, VerInv, BslInv, DeadInv
  <2>9. NormalReset # Script[ExecPdl] /\ NormalReset \notin PdlFrames
        /\ Script[ExecPdl] \notin PdlFrames
    BY FrameFacts
  <2>10. RecoverInv'
    <3>1. \A i \in DOMAIN toDev : toDev[i] \in PdlFrames \cup {Script[ExecPdl], Kick}
      BY <1>1, <2>2 DEF PdlInv, VerInv
    <3>2. ASSUME NEW i \in DOMAIN toDev', dev = "pdl", toDev'[i] = Script[ExecPdl]
          PROVE  toHost = <<>> /\ \A j \in DOMAIN toDev' : toDev'[j] \notin PdlFrames
      <4>1. i \in DOMAIN toDev /\ toDev[i] = Script[ExecPdl]
        BY <2>4, <2>9, <3>2
      <4>2. AtVer
        BY <1>1, <2>2, <2>9, <4>1 DEF PdlInv
      <4>3. NoPdl /\ \A j \in DOMAIN toDev : toDev[j] \notin PdlFrames
        BY <1>1, <2>1, <4>2 DEF VerInv
      <4>4. toHost = <<>>
        <5>1. toHost # <<>> => 1 \in DOMAIN toHost
          BY <1>1 DEF NumberInv
        <5>2. 1 \notin DOMAIN toHost
          BY <2>6, <3>2, <4>3 DEF NoPdl
        <5> QED
          BY <5>1, <5>2
      <4> QED
        BY <2>4, <2>9, <4>3, <4>4
    <3>3. \A i \in DOMAIN toDev' : toDev'[i] \in PdlFrames \cup {Script[ExecPdl], Kick, NormalReset}
      BY <2>4, <3>1
    <3> QED
      BY <1>1, <2>1, <2>2, <3>2, <3>3 DEF RecoverInv
  <2>11. LossInv'
    <3>1. ASSUME Steady, "loss" \in config.faults
          PROVE  toDev = <<>> /\ toHost = <<>>
      <4>1. ~Fault("late") /\ ~Fault("port")
        BY <3>1 DEF Steady, Fault
      <4>2. CASE TimedOut
        BY <4>1, <4>2 DEF TimedOut
      <4>3. CASE PortFails
        BY <1>1, <4>1, <4>3 DEF PortFails, DeadInv
      <4> QED
        BY <4>2, <4>3
    <3>2. ASSUME Steady, "loss" \in config.faults
          PROVE  toHost' = <<>> /\ \A i \in DOMAIN toDev' : toDev'[i] = NormalReset
      BY <1>1, <2>4, <3>1, <3>2
    <3> QED
      BY <1>1, <1>3, <2>3, <3>2 DEF LossInv
  <2>12. RamInv'
    <3>1. ASSUME NEW c \in 0 .. Len(toDev), Sent(c) PROVE Sent(c)' /\ c \in 0 .. Len(toDev')
      <4>1. /\ c <= Len(toDev') /\ c <= at' /\ c \in 0 .. Len(toDev')
            /\ "loss" \in config'.faults => c <= 1
        BY <1>1, <1>2, <2>4, <3>1 DEF Sent
      <4>2. \A i \in 1 .. c : toDev'[i] = Script[at - c + i]
        <5>1. \A i \in 1 .. c : i \in DOMAIN toDev
          BY <1>2
        <5> QED
          BY <2>4, <3>1, <5>1 DEF Sent
      <4>3. \A i \in DOMAIN toDev' : i > c => toDev'[i] \in {Kick, NormalReset}
        BY <2>4, <3>1 DEF Sent
      <4> QED
        BY <1>1, <4>1, <4>2, <4>3 DEF Sent
    <3>2. ASSUME Steady, dev = "pdl"
          PROVE  \E c \in 0 .. Len(toDev) : Sent(c) /\ (c > 0 => RamBefore(at + 1 - c))
      <4>1. CASE InPdl
        <5>1. Len(toDev) \in 0 .. Len(toDev) /\ (Len(toDev) > 0 => toDev # <<>>)
          BY <1>2
        <5>2. Sent(Len(toDev)) /\ (toDev # <<>> => RamBefore(at + 1 - Len(toDev)))
          BY <1>1, <3>2, <4>1 DEF RamInv
        <5> QED
          BY <5>1, <5>2
      <4>2. CASE AtVer
        BY <1>1, <3>2, <4>2 DEF RamInv
      <4> QED
        BY <2>2, <4>1, <4>2
    <3>3. ASSUME Steady, dev = "pdl"
          PROVE  \E c \in 0 .. Len(toDev') : Sent(c)' /\ (c > 0 => RamBefore(at + 1 - c))
      BY <3>1, <3>2, <3>3
    <3>4. Steady => \E n \in 0 .. Fdl1 + Fdl2 : ram = Whole(n)
      BY <1>1 DEF RamInv
    <3> QED
      BY <1>1, <1>3, <2>3, <3>3, <3>4 DEF RamInv
  <2> QED
    BY <2>5, <2>7, <2>8, <2>10, <2>11, <2>12 DEF BringUpInv, ChannelInv
<1> QED
  BY <1>4, <1>5

\* The module is back: the second attempt begins.
LEMMA ReenumeratedStep == ASSUME BringUpInv, Reenumerated PROVE BringUpInv'
<1>1. /\ NumberInv /\ SourceInv /\ RecoverInv /\ LossInv /\ RamInv
      /\ outcome = "running" /\ pc = "reenumerate" /\ toDev = <<>>
      /\ pc' = "resolve" /\ attempt' = attempt + 1 /\ alive' = FALSE
      /\ UNCHANGED <<config, at, kicks, outcome, rate, toDev, toHost, dev, ram, greeted, devRate,
                     losses>>
  BY DEF Reenumerated, BringUpInv, ChannelInv, At, devVars
<1>2. attempt = 0 /\ attempt' = 1 /\ at \in Nat /\ at <= ExecPdl /\ ~InBsl' /\ Steady' = Steady
  BY <1>1, Indices DEF RecoverInv, NumberInv, InBsl, Steady
<1>3. ~AtVer /\ ~AtVer' /\ ~InPdl' /\ Quiet'
  BY <1>1 DEF AtVer, InPdl, Quiet
<1>4. NumberInv'
  BY <1>1, <1>2 DEF NumberInv
<1>5. SourceInv'
  BY <1>1, <1>2, <1>3 DEF SourceInv, NoPdl
<1>6. QuietInv' /\ PdlInv' /\ VerInv' /\ RecoverInv' /\ BslInv' /\ DeadInv'
  BY <1>1, <1>2, <1>3 DEF QuietInv, PdlInv, VerInv, RecoverInv, BslInv, DeadInv
<1>7. LossInv' /\ RamInv'
  BY <1>1, <1>2, <1>3 DEF LossInv, RamInv
<1> QED
  BY <1>4, <1>5, <1>6, <1>7 DEF BringUpInv, ChannelInv

\* Numbering the commands under way from the last one, when one more is sent.
LEMMA SentMore ==
    ASSUME NEW c \in Nat, Sent(c), Len(toDev) = c, at \in Nat, toDev \in Seq(Frames),
           at' = at + 1, toDev' = Append(toDev, Script[at + 1]), config' = config,
           "loss" \in config.faults => c = 0
    PROVE  Sent(c + 1)' /\ Len(toDev') = c + 1
<1>1. /\ Len(toDev') = c + 1 /\ DOMAIN toDev' = 1 .. c + 1
      /\ \A i \in 1 .. c : toDev'[i] = toDev[i]
      /\ toDev'[c + 1] = Script[at + 1]
  OBVIOUS
<1>2. c <= at /\ \A i \in 1 .. c : toDev[i] = Script[at - c + i]
  BY DEF Sent
<1>3. ASSUME NEW i \in 1 .. c + 1 PROVE toDev'[i] = Script[at' - (c + 1) + i]
  <2>1. CASE i \in 1 .. c
    <3>1. at' - (c + 1) + i = at - c + i
      BY <1>2
    <3> QED
      BY <1>1, <1>2, <2>1, <3>1
  <2>2. CASE i = c + 1
    <3>1. at' - (c + 1) + i = at + 1
      BY <1>2, <2>2
    <3> QED
      BY <1>1, <2>2, <3>1
  <2> QED
    BY <2>1, <2>2
<1>4. /\ c + 1 <= Len(toDev') /\ c + 1 <= at' /\ ("loss" \in config'.faults => c + 1 <= 1)
      /\ \A i \in DOMAIN toDev' : ~(i > c + 1)
  BY <1>1, <1>2
<1> QED
  BY <1>1, <1>3, <1>4 DEF Sent

\* The reply expected has come.
LEMMA ProceedStep == ASSUME BringUpInv, Proceed PROVE BringUpInv'
<1>1. /\ NumberInv /\ SourceInv /\ PdlInv /\ VerInv /\ BslInv /\ DeadInv /\ LossInv /\ RamInv
      /\ outcome = "running" /\ pc = "command" /\ pc' = "command"
      /\ TakeReply /\ toHost[1] = Expected
      /\ at' = at + 1 /\ kicks' = 0
      /\ rate' = IF Awaited.cmd = "CHANGE_BAUD" THEN "fast" ELSE rate
      /\ UNCHANGED <<config, attempt, alive, dev, ram, greeted, devRate, losses>>
  BY DEF Proceed, BringUpInv, ChannelInv, TakeReply, At, devVars
<1>2. /\ toHost # <<>> /\ toHost' \in Seq(Replies) /\ Rest(toHost, toHost')
      /\ Len(toHost') < Len(toHost) /\ 1 \in DOMAIN toHost /\ Len(toHost) \in Nat
      /\ Len(toHost') \in Nat /\ toHost \in Seq(Replies) /\ toDev \in Seq(Frames)
      /\ at \in 1 .. ScriptLen /\ at \in Nat
  BY <1>1, TakeFacts, Awaiting DEF NumberInv
<1>3. alive /\ Len(Script) = ScriptLen
  BY <1>1, <1>2, ScriptFacts DEF DeadInv
<1>4. /\ at < ScriptLen => toDev' = Append(toDev, Script[at + 1]) /\ outcome' = "running"
      /\ at = ScriptLen => toDev' = toDev /\ outcome' = "ok"
  BY <1>1, <1>2, <1>3, Indices DEF Proceed
<1>5. Expected = IF at < ExecPdl THEN "PDL" ELSE IF at = ExecPdl THEN "VER" ELSE "ACK"
  BY <1>1, Awaiting
<1>6. rate' = IF Baud /\ at = BaudAt THEN "fast" ELSE rate
  BY <1>1, <1>2, CommandFacts DEF Awaited
<1>7. at < ScriptLen => at + 1 \in 1 .. ScriptLen /\ Script[at + 1] \in Frames
  <2>1. at < ScriptLen => at + 1 \in 1 .. ScriptLen
    BY <1>2, Indices
  <2> QED
    BY <2>1, FrameFacts
<1>8. NumberInv'
  <2>1. /\ at' \in Nat \ {0} /\ at' <= ScriptLen + 1 /\ (outcome' # "ok" => at' <= ScriptLen)
        /\ outcome' \in {"running", "ok"} /\ kicks' \in 0 .. MaxKicks
    BY <1>1, <1>2, <1>4, Indices, Numbers
  <2>2. toDev' \in Seq(Frames)
    <3>1. at < ScriptLen \/ at = ScriptLen
      BY <1>2, Indices
    <3> QED
      <4>1. CASE at < ScriptLen
        <5>1. Script[at + 1] \in Frames /\ toDev' = Append(toDev, Script[at + 1])
          BY <1>4, <1>7, <4>1
        <5> QED
          BY <1>2, <5>1
      <4>2. CASE at = ScriptLen
        BY <1>2, <1>4, <4>2
      <4> QED
        BY <3>1, <4>1, <4>2
  <2>3. rate' \in {"base", "fast"}
    BY <1>1, <1>6 DEF NumberInv
  <2> QED
    BY <1>1, <1>2, <2>1, <2>2, <2>3 DEF NumberInv
<1>9. ~Quiet' /\ pc' # "reenumerate" /\ Steady' = Steady /\ (\A k : RamBefore(k)' = RamBefore(k))
      /\ \A k : DevBefore(k)' = DevBefore(k)
  BY <1>1 DEF Quiet, Steady, RamBefore, DevBefore
<1>10. QuietInv' /\ RecoverInv' /\ DeadInv'
  <2>1. alive'
    BY <1>1, <1>3
  <2>2. dev' \notin {"app", "entering", "rebooting"}
    BY <1>1, <1>3 DEF DeadInv
  <2> QED
    BY <1>9, <2>1, <2>2 DEF QuietInv, RecoverInv, DeadInv
<1>11. CASE at < ExecPdl
  <2>1. /\ InPdl /\ ~AtVer /\ ~InBsl' /\ at <= ExecPdl /\ at' <= ExecPdl /\ at < ScriptLen
        /\ (InPdl' \/ AtVer') /\ (AtVer' => at + 1 = ExecPdl) /\ (InPdl' => at + 1 < ExecPdl)
        /\ ~(Baud /\ at = BaudAt)
    BY <1>1, <1>2, <1>11, Indices DEF InPdl, AtVer, InBsl
  <2>2. toDev' = Append(toDev, Script[at + 1]) /\ outcome' = "running" /\ toHost[1] = "PDL"
    BY <1>1, <1>4, <1>5, <1>11, <2>1
  <2>3. dev = "pdl" /\ rate = "base" /\ devRate = "base" /\ \A i \in DOMAIN toHost : toHost[i] = "PDL"
    BY <1>1, <1>2, <2>1, <2>2 DEF SourceInv, NoPdl
  <2>4. \A i \in DOMAIN toHost' : toHost'[i] = "PDL"
    BY <1>2, <2>3 DEF Rest
  <2>5. SourceInv'
    BY <1>1, <1>6, <2>1, <2>2, <2>3, <2>4 DEF SourceInv
  <2> PICK c \in Nat : c = Len(toDev)
    BY <1>2
  <2>6. /\ c \in Nat /\ Len(toDev') = c + 1
        /\ \A i \in DOMAIN toDev' :
              \/ i \in DOMAIN toDev /\ toDev'[i] = toDev[i]
              \/ i = c + 1 /\ toDev'[i] = Script[at + 1]
        /\ \A i \in DOMAIN toDev' : i \in 1 .. c + 1
    BY <1>2, <2>2
  <2>7. \A i \in DOMAIN toDev : toDev[i] \in PdlFrames
    BY <1>1, <2>1 DEF PdlInv
  <2>8. /\ attempt = 0 => c = 0 /\ Len(toHost') = 0
        /\ Steady /\ "loss" \in config.faults => c = 0 /\ Len(toHost') = 0
    <3>1. /\ attempt = 0 => c + Len(toHost) <= 1
          /\ Steady /\ "loss" \in config.faults => c + Len(toHost) <= 1
      BY <1>1, <2>1 DEF PdlInv, LossInv
    <3> QED
      BY <1>2, <2>6, <3>1
  <2>9. PdlInv'
    <3>1. ASSUME InPdl' PROVE \A i \in DOMAIN toDev' : toDev'[i] \in PdlFrames
      <4>1. Script[at + 1] \in PdlFrames
        BY <1>7, <2>1, <3>1, FrameFacts
      <4> QED
        BY <2>6, <2>7, <4>1
    <3>2. attempt = 0 => Len(toDev') + Len(toHost') <= 1
      BY <2>6, <2>8
    <3> QED
      BY <1>1, <2>3, <3>1, <3>2 DEF PdlInv
  <2>10. VerInv'
    <3> SUFFICES ASSUME AtVer' PROVE VerInv'
      BY DEF VerInv
    <3>1. at + 1 = ExecPdl /\ dev' = "pdl" /\ Script[ExecPdl] \notin PdlFrames
      BY <1>1, <2>1, <2>3, FrameFacts
    <3>2. \A i \in DOMAIN toDev' : toDev'[i] \in PdlFrames \cup {Script[ExecPdl], Kick}
      BY <2>6, <2>7, <3>1
    <3>3. ASSUME NEW i \in DOMAIN toDev', toDev'[i] = Script[ExecPdl], NEW j \in DOMAIN toDev', j > i
          PROVE  FALSE
      <4>1. i = c + 1 /\ j \in 1 .. c + 1
        BY <2>6, <2>7, <3>1, <3>3
      <4> QED
        BY <2>6, <3>3, <4>1
    <3>4. ASSUME attempt = 0
          PROVE  /\ \A i \in DOMAIN toHost' : toHost'[i] # "PDL"
                 /\ \A i \in DOMAIN toDev' : toDev'[i] \notin PdlFrames
      <4>1. toHost' = <<>>
        BY <1>2, <2>8, <3>4
      <4>2. \A i \in DOMAIN toDev' : toDev'[i] = Script[ExecPdl]
        BY <1>2, <2>6, <2>8, <3>1, <3>4
      <4> QED
        BY <3>1, <4>1, <4>2
    <3> QED
      BY <1>1, <3>1, <3>2, <3>3, <3>4 DEF VerInv, NoPdl
  <2>11. BslInv'
    BY <2>1 DEF BslInv
  <2>12. LossInv'
    <3>1. Steady /\ "loss" \in config.faults => Len(toDev') + Len(toHost') <= 1
      BY <2>6, <2>8
    <3> QED
      BY <1>1, <1>9, <3>1 DEF LossInv
  <2>13. RamInv'
    <3>1. ASSUME Steady
          PROVE  Sent(Len(toDev))' /\ RamBefore(at + 1 - c)
      <4>1. Sent(c) /\ RamBefore(at + 1 - c)
        BY <1>1, <1>2, <2>1, <3>1 DEF RamInv
      <4>2. "loss" \in config.faults => c = 0
        BY <2>8, <3>1
      <4>3. Sent(c + 1)'
        <5>1. Len(toDev) = c /\ c \in Nat /\ config' = config /\ at' = at + 1
          BY <1>1, <2>6
        <5> QED
          BY <1>2, <2>2, <4>1, <4>2, <5>1, SentMore
      <4>4. Sent(Len(toDev))'
        BY <2>6, <4>3 DEF Sent
      <4> QED
        BY <4>1, <4>4
    <3>2. at' + 1 - Len(toDev') = at + 1 - c /\ Len(toDev') > 0 /\ Len(toDev') \in 0 .. Len(toDev')
      <4> QED
        BY <1>1, <1>2, <2>6
    <3>3. Steady => RamBefore(at + 1 - Len(toDev))'
      BY <1>1, <3>1, <3>2 DEF RamBefore
    <3>4. Steady => \E n \in 0 .. Fdl1 + Fdl2 : ram' = Whole(n)
      BY <1>1 DEF RamInv
    <3>5. Steady => \E d \in 0 .. Len(toDev') : Sent(d)' /\ (d > 0 => RamBefore(at + 1 - d)')
      BY <3>1, <3>2, <3>3
    <3> QED
      BY <1>9, <2>1, <3>1, <3>3, <3>4, <3>5 DEF RamInv
  <2> QED
    BY <1>8, <1>10, <2>5, <2>9, <2>10, <2>11, <2>12, <2>13 DEF BringUpInv, ChannelInv
<1>12. CASE at = ExecPdl
  <2>1. /\ ~InPdl' /\ ~AtVer' /\ InBsl' /\ AtVer /\ at <= ExecPdl /\ at < ScriptLen
        /\ ~(Baud /\ at = BaudAt) /\ ~(at' <= ExecPdl) /\ ~(Baud /\ at' > BaudAt)
        /\ ~(Fdl2 > 0 /\ at' > ExecBsl)
    BY <1>1, <1>2, <1>12, Indices DEF InPdl, AtVer, InBsl
  <2>2. toDev' = Append(toDev, Script[at + 1]) /\ outcome' = "running" /\ toHost[1] = "VER"
    BY <1>1, <1>4, <1>5, <1>12, <2>1, Indices
  <2>3. dev = "fdl1" /\ rate = "base" /\ devRate = "base"
    BY <1>1, <1>2, <2>1, <2>2 DEF SourceInv, VerInv
  <2>4. greeted /\ 1 = Len(toHost) /\ \A i \in DOMAIN toDev : toDev[i] = Kick
    <3>1. toHost[1] # "PDL"
      BY <2>2
    <3>2. greeted /\ 1 = Len(toHost)
      BY <1>1, <1>2, <2>1, <2>3, <3>1 DEF VerInv
    <3>3. Kicks(toDev)
      BY <1>1, <2>1, <2>3 DEF VerInv
    <3> QED
      BY <3>2, <3>3 DEF Kicks
  <2>5. toHost' = <<>>
    BY <1>2, <2>4
  <2>6. /\ \A i \in DOMAIN toDev' : i < Len(toDev') => toDev'[i] = Kick
        /\ toDev'[Len(toDev')] = Script[at']
    BY <1>1, <1>2, <2>2, <2>4
  <2>7. DevBefore(at + 1) /\ rate' = "base"
    BY <1>1, <1>6, <2>1, <2>3, <2>4 DEF DevBefore
  <2>8. DevBefore(at)'
    BY <1>1, <2>7 DEF DevBefore
  <2>9. BslInv'
    BY <1>1, <2>1, <2>2, <2>5, <2>6, <2>7, <2>8 DEF BslInv
  <2>10. SourceInv' /\ PdlInv' /\ VerInv' /\ LossInv'
    BY <1>9, <2>1 DEF SourceInv, PdlInv, VerInv, LossInv
  <2>11. RamInv'
    <3>1. RamBefore(at)'
      BY <1>1, <1>12, Indices DEF RamBefore
    <3>2. Steady => \E n \in 0 .. Fdl1 + Fdl2 : ram' = Whole(n)
      BY <1>1 DEF RamInv
    <3> QED
      BY <1>9, <2>1, <2>5, <3>1, <3>2 DEF RamInv
  <2> QED
    BY <1>8, <1>10, <2>9, <2>10, <2>11 DEF BringUpInv, ChannelInv
<1>13. CASE at > ExecPdl
  <2>1. InBsl /\ InBsl' /\ ~InPdl' /\ ~AtVer' /\ ~(at' <= ExecPdl)
    BY <1>1, <1>2, <1>13, Indices DEF InBsl, InPdl, AtVer
  <2>2. toHost[1] = "ACK"
    BY <1>1, <1>2, <1>5, <1>13, Indices
  <2>3. /\ toDev = <<>> /\ Len(toHost) = 1 /\ DevBefore(at + 1)
        /\ rate = IF Baud /\ at > BaudAt THEN "fast" ELSE "base"
    BY <1>1, <1>2, <2>1, <2>2 DEF BslInv
  <2>4. toHost' = <<>>
    BY <1>2, <2>3
  <2>5. rate' = IF Baud /\ at' > BaudAt THEN "fast" ELSE "base"
    <3>1. Baud => (at' > BaudAt <=> at > BaudAt \/ at = BaudAt)
      BY <1>1, <1>2, Indices
    <3> QED
      BY <1>6, <2>3, <3>1
  <2>6. DevBefore(at)'
    BY <1>1, <2>3 DEF DevBefore
  <2>7. BslInv'
    <3>1. CASE at < ScriptLen
      <4>1. toDev' = <<Script[at']>> /\ outcome' = "running"
        BY <1>1, <1>4, <2>3, <3>1
      <4>2. Len(toDev') = 1 /\ toDev'[1] = Script[at'] /\ DOMAIN toDev' = {1}
        BY <4>1
      <4> QED
        BY <1>1, <2>4, <2>5, <2>6, <4>1, <4>2 DEF BslInv
    <3>2. CASE at = ScriptLen
      BY <1>1, <1>4, <2>3, <2>4, <2>5, <2>6, <3>2 DEF BslInv
    <3> QED
      BY <1>2, <3>1, <3>2, Indices
  <2>8. SourceInv' /\ PdlInv' /\ VerInv' /\ LossInv'
    BY <1>9, <2>1 DEF SourceInv, PdlInv, VerInv, LossInv
  <2>9. RamInv'
    <3>1. Steady => RamBefore(at + 1) /\ \E n \in 0 .. Fdl1 + Fdl2 : ram' = Whole(n)
      BY <1>1, <1>2, <2>1, <2>2 DEF RamInv
    <3>2. Steady => RamBefore(at)'
      BY <1>1, <3>1 DEF RamBefore
    <3> QED
      BY <1>9, <2>1, <2>4, <3>1, <3>2 DEF RamInv
  <2> QED
    BY <1>8, <1>10, <2>7, <2>8, <2>9 DEF BringUpInv, ChannelInv
<1> QED
  BY <1>2, <1>11, <1>12, <1>13, Indices

----
(***************************************************************************)
(* The steps of the module.                                                *)
(***************************************************************************)
\* The frame at the head, by the phase of the host.
LEMMA HeadFacts ==
    ASSUME BringUpInv, toDev # <<>>
    PROVE  /\ toDev \in Seq(Frames) /\ Len(toDev) \in Nat \ {0} /\ 1 \in DOMAIN toDev
           /\ toDev[1] \in Frames /\ at \in Nat /\ at > 0 /\ ~Quiet
           /\ InPdl \/ AtVer \/ pc = "reenumerate" \/ InBsl
           /\ InPdl => at < ExecPdl /\ toDev[1] \in PdlFrames
           /\ AtVer => at = ExecPdl /\ toDev[1] \in PdlFrames \cup {Script[ExecPdl], Kick}
           /\ pc = "reenumerate" =>
                 at <= ExecPdl /\ toDev[1] \in PdlFrames \cup {Script[ExecPdl], Kick, NormalReset}
           /\ InBsl => /\ at > ExecPdl /\ at \in 1 .. ScriptLen /\ pc = "command"
                       /\ toDev[1] \in {Kick, Script[at]} /\ DevBefore(at)
                       /\ toDev[1] # Kick => Len(toDev) = 1
                       /\ toHost = <<>> /\ outcome # "ok"
<1>1. NumberInv /\ QuietInv /\ PdlInv /\ VerInv /\ RecoverInv /\ BslInv
  BY DEF BringUpInv, ChannelInv
<1>2. /\ toDev \in Seq(Frames) /\ Len(toDev) \in Nat \ {0} /\ 1 \in DOMAIN toDev
      /\ toDev[1] \in Frames /\ at \in Nat /\ at > 0
  <2>1. toDev \in Seq(Frames) /\ at \in Nat \ {0}
    BY <1>1 DEF NumberInv
  <2> QED
    BY <2>1
<1>3. ~Quiet
  BY <1>1 DEF QuietInv
<1>4. InPdl \/ AtVer \/ pc = "reenumerate" \/ InBsl
  BY <1>1, <1>2, <1>3, Indices DEF InPdl, AtVer, InBsl, Quiet, NumberInv
<1>5. InPdl => at < ExecPdl /\ toDev[1] \in PdlFrames
  BY <1>1, <1>2 DEF InPdl, PdlInv
<1>6. AtVer => at = ExecPdl /\ toDev[1] \in PdlFrames \cup {Script[ExecPdl], Kick}
  BY <1>1, <1>2 DEF AtVer, VerInv
<1>7. pc = "reenumerate" =>
          at <= ExecPdl /\ toDev[1] \in PdlFrames \cup {Script[ExecPdl], Kick, NormalReset}
  BY <1>1, <1>2 DEF RecoverInv
<1>8. ASSUME InBsl
      PROVE  /\ at > ExecPdl /\ at \in 1 .. ScriptLen /\ pc = "command"
             /\ toDev[1] \in {Kick, Script[at]} /\ DevBefore(at)
             /\ toDev[1] # Kick => Len(toDev) = 1
             /\ toHost = <<>> /\ outcome # "ok"
  <2>1. /\ pc = "command" /\ outcome # "ok" /\ toHost = <<>> /\ DevBefore(at)
        /\ \A i \in DOMAIN toDev : i < Len(toDev) => toDev[i] = Kick
        /\ toDev[Len(toDev)] \in {Kick, Script[at]}
    BY <1>1, <1>8 DEF BslInv
  <2>2. at > ExecPdl /\ at \in 1 .. ScriptLen
    BY <1>1, <1>2, <1>8, <2>1, Indices DEF InBsl, NumberInv
  <2>3. CASE Len(toDev) = 1
    BY <2>1, <2>2, <2>3
  <2>4. CASE Len(toDev) # 1
    <3>1. 1 < Len(toDev)
      <4>1. \A n \in Nat \ {0} : n # 1 => 1 < n
        OBVIOUS
      <4> QED
        BY <1>2, <2>4, <4>1
    <3>2. toDev[1] = Kick
      BY <1>2, <2>1, <3>1
    <3> QED
      BY <2>1, <2>2, <3>2
  <2> QED
    BY <2>3, <2>4
<1> QED
  BY <1>2, <1>3, <1>4, <1>5, <1>6, <1>7, <1>8

\* One frame fewer is under way.
LEMMA FrameTaken ==
    ASSUME BringUpInv, toDev # <<>>, toDev' = Tail(toDev),
           UNCHANGED <<config, pc, at, kicks, attempt, outcome, rate>>
    PROVE  /\ toDev' \in Seq(Frames) /\ Len(toDev') \in Nat /\ Len(toDev') = Len(toDev) - 1
           /\ \A i \in DOMAIN toDev' : i + 1 \in DOMAIN toDev /\ toDev'[i] = toDev[i + 1]
           /\ ~Quiet' /\ InPdl' = InPdl /\ AtVer' = AtVer /\ InBsl' = InBsl /\ Steady' = Steady
           /\ \A c \in Nat : c > 0 /\ Sent(c) => toDev[1] = Script[at + 1 - c] /\ Sent(c - 1)'
           /\ Sent(0) => Sent(0)'
<1>1. toDev \in Seq(Frames) /\ at \in Nat /\ ~Quiet /\ Len(toDev) \in Nat \ {0}
  BY HeadFacts
<1>2. /\ toDev' \in Seq(Frames) /\ Len(toDev') \in Nat /\ Len(toDev') = Len(toDev) - 1
      /\ \A i \in DOMAIN toDev' : i + 1 \in DOMAIN toDev /\ toDev'[i] = toDev[i + 1]
      /\ DOMAIN toDev' = 1 .. Len(toDev')
  BY <1>1, TailIsRest
<1>3. ~Quiet' /\ InPdl' = InPdl /\ AtVer' = AtVer /\ InBsl' = InBsl /\ Steady' = Steady
  BY <1>1 DEF Quiet, InPdl, AtVer, InBsl, Steady
<1>4. ASSUME NEW c \in Nat, c > 0, Sent(c)
      PROVE  toDev[1] = Script[at + 1 - c] /\ Sent(c - 1)'
  <2>1. /\ c <= Len(toDev) /\ c <= at /\ ("loss" \in config.faults => c <= 1)
        /\ \A i \in 1 .. c : toDev[i] = Script[at - c + i]
        /\ \A i \in DOMAIN toDev : i > c => toDev[i] \in {Kick, NormalReset}
    BY <1>4 DEF Sent
  <2>2. toDev[1] = Script[at + 1 - c]
    <3>1. 1 \in 1 .. c /\ at - c + 1 = at + 1 - c
      BY <1>1, <1>4
    <3>2. toDev[1] = Script[at - c + 1]
      BY <2>1, <3>1
    <3> QED
      BY <3>1, <3>2
  <2>3. ASSUME NEW i \in 1 .. c - 1 PROVE toDev'[i] = Script[at - (c - 1) + i]
    <3>1. i + 1 \in 1 .. c /\ at - c + (i + 1) = at - (c - 1) + i /\ i \in 1 .. Len(toDev')
      BY <1>1, <1>2, <2>1
    <3>2. toDev'[i] = toDev[i + 1] /\ toDev[i + 1] = Script[at - c + (i + 1)]
      BY <1>2, <2>1, <3>1
    <3> QED
      BY <3>1, <3>2
  <2>4. ASSUME NEW i \in DOMAIN toDev', i > c - 1 PROVE toDev'[i] \in {Kick, NormalReset}
    <3>1. i + 1 > c /\ i + 1 \in DOMAIN toDev /\ toDev'[i] = toDev[i + 1]
      BY <1>2, <2>4
    <3> QED
      BY <2>1, <3>1
  <2>5. c - 1 <= Len(toDev') /\ c - 1 <= at /\ ("loss" \in config.faults => c - 1 <= 1)
    BY <1>1, <1>2, <2>1
  <2>6. Sent(c - 1)'
    BY <2>3, <2>4, <2>5 DEF Sent
  <2> QED
    BY <2>2, <2>6
<1>5. ASSUME Sent(0) PROVE Sent(0)'
  <2>1. \A i \in DOMAIN toDev' : toDev'[i] \in {Kick, NormalReset}
    <3>1. \A i \in DOMAIN toDev : i > 0 => toDev[i] \in {Kick, NormalReset}
      BY <1>5 DEF Sent
    <3> QED
      BY <1>1, <1>2, <3>1
  <2>2. 1 .. 0 = {} /\ 0 <= Len(toDev') /\ 0 <= at /\ 0 <= 1
    BY <1>1, <1>2
  <2> QED
    BY <2>1, <2>2 DEF Sent
<1> QED
  BY <1>2, <1>3, <1>4, <1>5

LEMMA WholeFacts ==
    /\ Whole(0) = <<>>
    /\ \A n \in Nat : Append(Whole(n), n + 1) = Whole(n + 1) /\ Whole(n) \in Seq(Nat)
<1>1. Whole(0) = <<>>
  BY DEF Whole
<1>2. ASSUME NEW n \in Nat PROVE Append(Whole(n), n + 1) = Whole(n + 1) /\ Whole(n) \in Seq(Nat)
  <2> DEFINE s == Whole(n)
             t == Whole(n + 1)
             a == Append(s, n + 1)
  <2>1. s \in Seq(Nat) /\ Len(s) = n /\ \A i \in 1 .. n : s[i] = i
    BY DEF Whole
  <2>2. t \in Seq(Nat) /\ Len(t) = n + 1 /\ \A i \in 1 .. n + 1 : t[i] = i
    BY DEF Whole
  <2> HIDE DEF s, t
  <2>3. a \in Seq(Nat) /\ Len(a) = n + 1 /\ \A i \in 1 .. n + 1 : a[i] = i
    BY <2>1
  <2> HIDE DEF a
  <2>4. a = t
    BY <2>2, <2>3
  <2> QED
    BY <2>1, <2>4 DEF s, t, a
<1> QED
  BY <1>1, <1>2

LEMMA LoadNumbers ==
    ASSUME NEW k \in Nat, NEW p \in Nat, NEW d \in Nat, p > 4
    PROVE  /\ k = 2 => k + 1 - 3 = 0
           /\ k = 2 => k + 1 # p /\ k + 1 \notin p + 3 .. p + d + 3 /\ k + 1 # p + d + 4
           /\ k = p + 2 => k + 1 - p - 3 = 0
           /\ k = p + 2 /\ d > 0 => k + 1 # p /\ k + 1 \notin 3 .. p - 1 /\ k + 1 # p + d + 4
           /\ k \in 3 .. p - 2 =>
                 /\ k \in 3 .. p - 1 /\ k - 3 \in Nat /\ (k - 3) + 1 = k - 2 /\ k + 1 - 3 = k - 2
                 /\ k + 1 # p /\ k + 1 \notin p + 3 .. p + d + 3 /\ k + 1 # p + d + 4
                 /\ k - 2 \in 0 .. p - 4 + d
           /\ k \in p + 3 .. p + d + 2 =>
                 /\ k \in p + 3 .. p + d + 3 /\ k - p - 3 \in Nat
                 /\ (k - p - 3) + 1 = k - p - 2 /\ k + 1 - p - 3 = k - p - 2
                 /\ k + 1 # p /\ k + 1 \notin 3 .. p - 1 /\ k + 1 # p + d + 4
                 /\ k - p - 2 \in 0 .. p - 4 + d
           /\ k + 1 \in 3 .. p - 1 => k = 2 \/ k \in 3 .. p - 2
           /\ k + 1 = p => k \in 3 .. p - 1 /\ k - 3 = p - 4
           /\ k + 1 \in p + 3 .. p + d + 3 => k = p + 2 \/ k \in p + 3 .. p + d + 2
           /\ k + 1 = p + d + 4 /\ d > 0 => k \in p + 3 .. p + d + 3 /\ k - p - 3 = d
           /\ p + d + 4 - 1 = p + d + 3 /\ p + d + 4 - 2 = p + d + 2
OBVIOUS

\* What an agent does with a frame of a loader.
Loads(f) ==
    ram' = CASE f.cmd = "START" -> <<>>
             [] f.cmd = "MIDST" -> Append(ram, f.piece)
             [] OTHER -> ram

Begun == \E n \in 0 .. Fdl1 + Fdl2 : ram = Whole(n)

\* The memory after a command of the script other than EXEC.
LEMMA LoadStep ==
    ASSUME NEW k \in 1 .. ScriptLen, Script[k].cmd # "EXEC", RamBefore(k), Begun, Loads(Script[k])
    PROVE  RamBefore(k + 1)' /\ Begun'
<1> DEFINE p == ExecPdl
           d == Fdl2
<1>1. /\ p \in Nat /\ p > 4 /\ d \in Nat /\ Fdl1 = p - 4 /\ ExecBsl = p + d + 4
      /\ 0 \in 0 .. Fdl1 + Fdl2 /\ Fdl1 + Fdl2 = p - 4 + d
  BY Indices
<1>2. k \in Nat
  OBVIOUS
<1>3. RamBefore(k) <=>
          /\ k \in 3 .. p - 1 => ram = Whole(k - 3)
          /\ k = p => ram = Whole(p - 4)
          /\ d > 0 /\ k \in p + 3 .. p + d + 3 => ram = Whole(k - p - 3)
          /\ d > 0 /\ k = p + d + 4 => ram = Whole(d)
  <2>1. ExecBsl - 1 = p + d + 3
    BY <1>1
  <2> QED
    BY <1>1, <2>1 DEF RamBefore
<1>4. RamBefore(k + 1)' <=>
          /\ k + 1 \in 3 .. p - 1 => ram' = Whole(k + 1 - 3)
          /\ k + 1 = p => ram' = Whole(p - 4)
          /\ d > 0 /\ k + 1 \in p + 3 .. p + d + 3 => ram' = Whole(k + 1 - p - 3)
          /\ d > 0 /\ k + 1 = p + d + 4 => ram' = Whole(d)
  <2>1. ExecBsl - 1 = p + d + 3
    BY <1>1
  <2> QED
    BY <1>1, <2>1 DEF RamBefore
<1>5. Begun' <=> \E n \in 0 .. p - 4 + d : ram' = Whole(n)
  BY <1>1 DEF Begun
<1>6. Begun <=> \E n \in 0 .. p - 4 + d : ram = Whole(n)
  BY <1>1 DEF Begun
<1>7. /\ k # p /\ ~(d > 0 /\ k = p + d + 4)
      /\ Script[k].cmd = "START" <=> k = 2 \/ (d > 0 /\ k = p + 2)
      /\ Script[k].cmd = "MIDST" <=> k \in 3 .. p - 2 \/ (d > 0 /\ k \in p + 3 .. p + d + 2)
      /\ k \in 3 .. p - 2 => Script[k].piece = k - 2
      /\ k \in p + 3 .. p + d + 2 /\ d > 0 => Script[k].piece = k - p - 2
  <2>1. ExecBsl - 2 = p + d + 2
    BY <1>1
  <2>2. k = 2 \/ (d > 0 /\ k = p + 2) => Script[k].cmd = "START"
    BY ScriptFacts DEF Command
  <2> QED
    BY <1>1, <2>1, <2>2, CommandFacts
<1> HIDE DEF p, d
<1>8. CASE k = 2 \/ (d > 0 /\ k = p + 2)
  <2>1. ram' = Whole(0) /\ 0 \in 0 .. p - 4 + d
    BY <1>1, <1>7, <1>8, WholeFacts DEF Loads
  <2> QED
    BY <1>1, <1>2, <1>4, <1>5, <1>8, <2>1, LoadNumbers
<1>9. CASE k \in 3 .. p - 2
  <2>1. ram = Whole(k - 3) /\ Script[k].cmd = "MIDST" /\ Script[k].piece = k - 2
    BY <1>1, <1>2, <1>3, <1>7, <1>9, LoadNumbers
  <2>2. ram' = Whole(k - 2)
    <3>1. k - 3 \in Nat /\ (k - 3) + 1 = k - 2
      BY <1>1, <1>2, <1>9, LoadNumbers
    <3>2. Append(Whole(k - 3), (k - 3) + 1) = Whole((k - 3) + 1)
      BY <3>1, WholeFacts
    <3>3. ram' = Append(ram, k - 2)
      BY <2>1 DEF Loads
    <3> QED
      BY <2>1, <3>1, <3>2, <3>3
  <2> QED
    BY <1>1, <1>2, <1>4, <1>5, <1>9, <2>2, LoadNumbers
<1>10. CASE d > 0 /\ k \in p + 3 .. p + d + 2
  <2>1. ram = Whole(k - p - 3) /\ Script[k].cmd = "MIDST" /\ Script[k].piece = k - p - 2
    BY <1>1, <1>2, <1>3, <1>7, <1>10, LoadNumbers
  <2>2. ram' = Whole(k - p - 2)
    <3>1. k - p - 3 \in Nat /\ (k - p - 3) + 1 = k - p - 2
      BY <1>1, <1>2, <1>10, LoadNumbers
    <3>2. Append(Whole(k - p - 3), (k - p - 3) + 1) = Whole((k - p - 3) + 1)
      BY <3>1, WholeFacts
    <3>3. ram' = Append(ram, k - p - 2)
      BY <2>1 DEF Loads
    <3> QED
      BY <2>1, <3>1, <3>2, <3>3
  <2> QED
    BY <1>1, <1>2, <1>4, <1>5, <1>10, <2>2, LoadNumbers
<1>11. CASE /\ ~(k = 2 \/ (d > 0 /\ k = p + 2)) /\ k \notin 3 .. p - 2
            /\ ~(d > 0 /\ k \in p + 3 .. p + d + 2)
  <2>1. ram' = ram
    BY <1>7, <1>11 DEF Loads
  <2> QED
    BY <1>1, <1>2, <1>3, <1>4, <1>5, <1>6, <1>7, <1>11, <2>1, LoadNumbers
<1> QED
  BY <1>8, <1>9, <1>10, <1>11

\* The agent of the boot ROM answers a frame, which it may refuse.
LEMMA PdlAnswerStep == ASSUME BringUpInv, PdlAnswers \/ PdlRefuses PROVE BringUpInv'
<1>1. /\ NumberInv /\ SourceInv /\ PdlInv /\ VerInv /\ RecoverInv /\ DeadInv /\ LossInv /\ RamInv
      /\ dev = "pdl" /\ toDev # <<>> /\ toDev' = Tail(toDev)
      /\ toDev[1].layer = "PDL" /\ toDev[1].cmd # "EXEC"
      /\ toHost' = Append(toHost, "PDL")
      /\ UNCHANGED <<config, pc, at, kicks, attempt, outcome, rate, alive, losses, dev, greeted,
                     devRate>>
      /\ (Fault("status") /\ ram' = ram) \/ Loads(toDev[1])
  BY DEF PdlAnswers, PdlRefuses, Take, Answer, BringUpInv, ChannelInv, portVars, devVars, Loads
<1>2. /\ toDev \in Seq(Frames) /\ Len(toDev) \in Nat \ {0} /\ 1 \in DOMAIN toDev
      /\ toDev[1] \in Frames /\ at \in Nat /\ at > 0 /\ ~Quiet
      /\ InPdl => at < ExecPdl /\ toDev[1] \in PdlFrames
      /\ AtVer => at = ExecPdl /\ toDev[1] \in PdlFrames \cup {Script[ExecPdl], Kick}
      /\ pc = "reenumerate" =>
            at <= ExecPdl /\ toDev[1] \in PdlFrames \cup {Script[ExecPdl], Kick, NormalReset}
  BY <1>1, HeadFacts
<1>3. ~InBsl /\ ~InBsl' /\ at <= ExecPdl /\ (InPdl \/ AtVer \/ pc = "reenumerate")
  <2>1. ~InBsl
    BY <1>1, HeadFacts DEF DevBefore
  <2>2. InPdl \/ AtVer \/ pc = "reenumerate"
    BY <1>1, <2>1, HeadFacts
  <2> QED
    BY <1>1, <1>2, <2>1, <2>2, Indices DEF InBsl
<1>4. toDev[1] \in PdlFrames
  <2>1. toDev[1] # Script[ExecPdl] /\ toDev[1] # Kick /\ toDev[1] # NormalReset
    BY <1>1, FrameFacts
  <2> QED
    BY <1>2, <1>3, <2>1
<1>5. /\ toDev' \in Seq(Frames) /\ Len(toDev') \in Nat /\ Len(toDev') = Len(toDev) - 1
      /\ \A i \in DOMAIN toDev' : i + 1 \in DOMAIN toDev /\ toDev'[i] = toDev[i + 1]
      /\ ~Quiet' /\ InPdl' = InPdl /\ AtVer' = AtVer /\ Steady' = Steady
  BY <1>1, FrameTaken
<1>6. /\ toHost' \in Seq(Replies) /\ Len(toHost') = Len(toHost) + 1 /\ Len(toHost) \in Nat
      /\ (\A i \in DOMAIN toHost : toHost[i] = "PDL") => \A i \in DOMAIN toHost' : toHost'[i] = "PDL"
  <2>1. toHost \in Seq(Replies) /\ "PDL" \in Replies
    BY <1>1 DEF NumberInv, Replies
  <2> QED
    BY <1>1, <2>1
<1>7. NumberInv'
  <2>1. ram' \in Seq(Nat)
    <3>1. ram \in Seq(Nat) /\ toDev[1].piece \in Nat
      BY <1>1, <1>2, FrameFacts DEF NumberInv
    <3>2. ram' = ram \/ Loads(toDev[1])
      BY <1>1
    <3>3. ram' \in {ram, <<>>, Append(ram, toDev[1].piece)}
      BY <3>2 DEF Loads
    <3>4. Append(ram, toDev[1].piece) \in Seq(Nat) /\ <<>> \in Seq(Nat)
      BY <3>1
    <3> QED
      BY <3>1, <3>3, <3>4
  <2> QED
    BY <1>1, <1>5, <1>6, <2>1 DEF NumberInv
<1>8. SourceInv'
  BY <1>1, <1>3, <1>5, <1>6 DEF SourceInv
<1>9. QuietInv' /\ BslInv'
  BY <1>3, <1>5 DEF QuietInv, BslInv
<1>10. PdlInv'
  <2>1. ASSUME InPdl, attempt = 0 PROVE Len(toDev') + Len(toHost') <= 1
    BY <1>1, <1>2, <1>5, <1>6, <2>1 DEF PdlInv
  <2>2. ASSUME InPdl PROVE \A i \in DOMAIN toDev' : toDev'[i] \in PdlFrames
    BY <1>1, <1>5, <2>2 DEF PdlInv
  <2> QED
    BY <1>1, <1>5, <2>1, <2>2 DEF PdlInv
<1>11. VerInv'
  <2> SUFFICES ASSUME AtVer PROVE VerInv'
    BY <1>5 DEF VerInv
  <2>1. attempt # 0
    BY <1>1, <1>2, <1>4 DEF VerInv
  <2>2. /\ \A i \in DOMAIN toDev : toDev[i] \in PdlFrames \cup {Script[ExecPdl], Kick}
        /\ \A i, j \in DOMAIN toDev : toDev[i] = Script[ExecPdl] /\ j > i => toDev[j] = Kick
    BY <1>1 DEF VerInv
  <2>3. \A i \in DOMAIN toDev' : toDev'[i] \in PdlFrames \cup {Script[ExecPdl], Kick}
    BY <1>5, <2>2
  <2>4. \A i, j \in DOMAIN toDev' : toDev'[i] = Script[ExecPdl] /\ j > i => toDev'[j] = Kick
    BY <1>5, <2>2
  <2> QED
    BY <1>1, <2>1, <2>3, <2>4 DEF VerInv
<1>12. RecoverInv'
  <2> SUFFICES ASSUME pc = "reenumerate" PROVE RecoverInv'
    BY <1>1 DEF RecoverInv
  <2>1. \A i \in DOMAIN toDev : /\ toDev[i] \in PdlFrames \cup {Script[ExecPdl], Kick, NormalReset}
                                /\ toDev[i] # Script[ExecPdl]
    BY <1>1, <1>2, <1>4 DEF RecoverInv
  <2>2. attempt = 0 /\ at <= ExecPdl
    BY <1>1 DEF RecoverInv
  <2> QED
    BY <1>1, <1>5, <2>1, <2>2 DEF RecoverInv
<1>13. DeadInv'
  BY <1>1 DEF DeadInv
<1>14. LossInv'
  <2>1. ASSUME Steady, "loss" \in config.faults, InPdl PROVE Len(toDev') + Len(toHost') <= 1
    BY <1>1, <1>2, <1>5, <1>6, <2>1 DEF LossInv
  <2>2. ASSUME Steady, "loss" \in config.faults, pc = "reenumerate" PROVE FALSE
    <3>1. toDev[1] = NormalReset
      BY <1>1, <1>2, <2>2 DEF LossInv
    <3> QED
      BY <1>1, <3>1, FrameFacts
  <2> QED
    BY <1>1, <1>5, <2>1, <2>2 DEF LossInv
<1>15. RamInv'
  <2> SUFFICES ASSUME Steady PROVE RamInv'
    BY <1>5 DEF RamInv
  <2>1. Loads(toDev[1]) /\ Begun
    BY <1>1 DEF Steady, Fault, RamInv, Begun
  <2>2. ASSUME NEW c \in Nat, c > 0, Sent(c), RamBefore(at + 1 - c)
        PROVE  c - 1 \in 0 .. Len(toDev') /\ Sent(c - 1)' /\ RamBefore(at + 1 - (c - 1))' /\ Begun'
    <3>1. c <= at /\ c <= Len(toDev)
      BY <2>2 DEF Sent
    <3> DEFINE k == at + 1 - c
    <3>2. k \in 1 .. ScriptLen /\ k + 1 = at + 1 - (c - 1) /\ c - 1 \in 0 .. Len(toDev')
      BY <1>2, <1>3, <1>5, <2>2, <3>1, Indices
    <3>3. toDev[1] = Script[k] /\ Sent(c - 1)'
      BY <1>1, <2>2, FrameTaken
    <3>4. RamBefore(k)
      BY <2>2
    <3>5. at' = at
      BY <1>1
    <3> QED
      <4>1. PICK j \in 1 .. ScriptLen : j = k
        BY <3>2
      <4> HIDE DEF k
      <4>2. RamBefore(j + 1)' /\ Begun'
        BY <1>1, <2>1, <3>3, <3>4, <4>1, LoadStep
      <4>3. RamBefore(at + 1 - (c - 1))'
        BY <3>2, <3>5, <4>1, <4>2 DEF RamBefore
      <4> QED
        BY <3>2, <3>3, <4>2, <4>3
  <2>3. PICK c \in Nat : c > 0 /\ Sent(c) /\ RamBefore(at + 1 - c) /\ (InPdl => c = Len(toDev))
    <3>1. CASE InPdl
      BY <1>1, <1>2, <3>1 DEF RamInv
    <3>2. CASE ~InPdl
      <4>1. PICK c \in 0 .. Len(toDev) : Sent(c) /\ (c > 0 => RamBefore(at + 1 - c))
        BY <1>1, <1>3, <3>2 DEF RamInv
      <4>2. c # 0
        <5>1. c = 0 => toDev[1] \in {Kick, NormalReset}
          BY <1>2, <4>1 DEF Sent
        <5> QED
          BY <1>4, <5>1, FrameFacts
      <4> QED
        BY <3>2, <4>1, <4>2
    <3> QED
      BY <3>1, <3>2
  <2>4. c - 1 \in 0 .. Len(toDev') /\ Sent(c - 1)' /\ RamBefore(at + 1 - (c - 1))' /\ Begun'
    BY <2>2, <2>3
  <2>5. InPdl => /\ Sent(Len(toDev))'
                 /\ RamBefore(at + 1 - Len(toDev))'
    <3>1. InPdl => Len(toDev') = c - 1
      BY <1>5, <2>3
    <3> QED
      BY <2>4, <3>1 DEF Sent, RamBefore
  <2> QED
    BY <1>1, <1>3, <1>5, <2>4, <2>5 DEF RamInv, Begun
<1> QED
  BY <1>7, <1>8, <1>9, <1>10, <1>11, <1>12, <1>13, <1>14, <1>15 DEF BringUpInv, ChannelInv

\* The agent of the boot ROM finds the whole of FDL1 at EXEC.
LEMMA WholeAtExec ==
    ASSUME BringUpInv, Steady, toDev # <<>>, dev = "pdl", toDev[1].layer = "PDL",
           toDev[1].cmd = "EXEC"
    PROVE  ram = Whole(Fdl1)
<1>1. /\ at \in Nat /\ at > 0 /\ 1 \in DOMAIN toDev
      /\ InPdl => toDev[1] \in PdlFrames
      /\ AtVer => at = ExecPdl
      /\ pc = "reenumerate" => at <= ExecPdl
      /\ InPdl \/ AtVer \/ pc = "reenumerate" \/ InBsl
  BY HeadFacts
<1>2. (AtVer \/ pc = "reenumerate") /\ at <= ExecPdl
  <2>1. ~InBsl
    BY HeadFacts DEF DevBefore
  <2>2. toDev[1] \notin PdlFrames
    BY FrameFacts
  <2> QED
    BY <1>1, <2>1, <2>2, Indices
<1>3. PICK c \in 0 .. Len(toDev) : Sent(c) /\ (c > 0 => RamBefore(at + 1 - c))
  BY <1>2 DEF BringUpInv, RamInv
<1>4. c > 0 /\ c \in Nat
  <2>1. c = 0 => toDev[1] \in {Kick, NormalReset}
    BY <1>1, <1>3 DEF Sent
  <2>2. c # 0
    BY <2>1, FrameFacts
  <2> QED
    BY <2>2
<1>5. toDev[1] = Script[at + 1 - c] /\ c <= at
  <2>1. c <= at /\ toDev[1] = Script[at - c + 1] /\ at - c + 1 = at + 1 - c
    BY <1>1, <1>3, <1>4 DEF Sent
  <2> QED
    BY <2>1
<1>6. at + 1 - c = ExecPdl
  <2>1. at + 1 - c \in 1 .. ScriptLen /\ at + 1 - c <= ExecPdl
    BY <1>1, <1>2, <1>4, <1>5, Indices
  <2>2. at + 1 - c = ExecPdl \/ (Fdl2 > 0 /\ at + 1 - c = ExecBsl)
    BY <1>5, <2>1, CommandFacts
  <2> QED
    BY <2>1, <2>2, Indices
<1> QED
  BY <1>3, <1>4, <1>6 DEF RamBefore

\* EXEC starts FDL1 if the whole of it is there.
LEMMA PdlExecStep == ASSUME BringUpInv, PdlExec PROVE BringUpInv'
<1>1. /\ NumberInv /\ SourceInv /\ PdlInv /\ VerInv /\ RecoverInv /\ DeadInv /\ LossInv /\ RamInv
      /\ dev = "pdl" /\ toDev # <<>> /\ toDev' = Tail(toDev)
      /\ toDev[1].layer = "PDL" /\ toDev[1].cmd = "EXEC"
      /\ UNCHANGED <<config, pc, at, kicks, attempt, outcome, rate, alive, losses, ram, devRate,
                     toHost>>
      /\ \/ ram = Whole(Fdl1) /\ dev' = "fdl1" /\ greeted' = FALSE
         \/ ram # Whole(Fdl1) /\ dev' = "pdl" /\ greeted' = greeted
  BY DEF PdlExec, Receive, Take, BringUpInv, ChannelInv, portVars
<1>2. /\ toDev \in Seq(Frames) /\ Len(toDev) \in Nat \ {0} /\ 1 \in DOMAIN toDev
      /\ at \in Nat /\ at > 0 /\ ~Quiet
      /\ InPdl => toDev[1] \in PdlFrames
      /\ AtVer => at = ExecPdl /\ toDev[1] \in PdlFrames \cup {Script[ExecPdl], Kick}
      /\ pc = "reenumerate" =>
            at <= ExecPdl /\ toDev[1] \in PdlFrames \cup {Script[ExecPdl], Kick, NormalReset}
      /\ InPdl \/ AtVer \/ pc = "reenumerate" \/ InBsl
  BY <1>1, HeadFacts
<1>3. /\ ~InBsl /\ ~InBsl' /\ ~InPdl /\ at <= ExecPdl /\ (AtVer \/ pc = "reenumerate")
      /\ toDev[1] = Script[ExecPdl]
  <2>1. ~InBsl
    BY <1>1, HeadFacts DEF DevBefore
  <2>2. toDev[1] \notin PdlFrames /\ toDev[1] # Kick /\ toDev[1] # NormalReset
    BY <1>1, FrameFacts
  <2> QED
    BY <1>1, <1>2, <2>1, <2>2, Indices DEF InBsl
<1>4. /\ toDev' \in Seq(Frames) /\ Len(toDev') \in Nat /\ Len(toDev') = Len(toDev) - 1
      /\ \A i \in DOMAIN toDev' : i + 1 \in DOMAIN toDev /\ toDev'[i] = toDev[i + 1]
      /\ ~Quiet' /\ InPdl' = InPdl /\ AtVer' = AtVer /\ Steady' = Steady
  BY <1>1, FrameTaken
<1>5. NumberInv'
  <2>1. greeted' \in BOOLEAN
    <3>1. greeted \in BOOLEAN
      BY <1>1, Zenon DEF NumberInv
    <3>2. greeted' = FALSE \/ greeted' = greeted
      BY <1>1, Zenon
    <3> QED
      BY <3>1, <3>2, Zenon
  <2> QED
    BY <1>1, <1>4, <2>1 DEF NumberInv
<1>6. \A i \in DOMAIN toHost : toHost[i] = "PDL"
  BY <1>1, <1>3 DEF SourceInv
<1>7. pc = "reenumerate" => toHost = <<>>
  BY <1>1, <1>2, <1>3 DEF RecoverInv
<1>8. SourceInv'
  BY <1>1, <1>2, <1>3, <1>4, <1>6, <1>7 DEF SourceInv, NoPdl
<1>9. QuietInv' /\ PdlInv' /\ BslInv'
  BY <1>3, <1>4 DEF QuietInv, PdlInv, BslInv
<1>10. VerInv'
  <2> SUFFICES ASSUME AtVer PROVE VerInv'
    BY <1>4 DEF VerInv
  <2>1. \A i \in DOMAIN toDev' : toDev'[i] = Kick
    <3>1. \A j \in DOMAIN toDev : j > 1 => toDev[j] = Kick
      BY <1>1, <1>2, <1>3 DEF VerInv
    <3>2. \A i \in DOMAIN toDev' : i \in Nat /\ i > 0
      BY <1>4
    <3>3. \A i \in DOMAIN toDev' : i + 1 > 1
      BY <3>2
    <3> QED
      BY <1>4, <3>1, <3>3
  <2>2. attempt = 0 => NoPdl
    BY <1>1 DEF VerInv
  <2>3. Kick # Script[ExecPdl] /\ Kick \notin PdlFrames
    BY FrameFacts
  <2> QED
    BY <1>1, <1>6, <2>1, <2>2, <2>3 DEF VerInv, Kicks, NoPdl
<1>11. RecoverInv'
  <2> SUFFICES ASSUME pc = "reenumerate" PROVE RecoverInv'
    BY <1>1 DEF RecoverInv
  <2>1. /\ \A i \in DOMAIN toDev : toDev[i] \in PdlFrames \cup {Script[ExecPdl], Kick, NormalReset}
        /\ attempt = 0 /\ at <= ExecPdl
        /\ \A j \in DOMAIN toDev : toDev[j] \notin PdlFrames
    BY <1>1, <1>2, <1>3 DEF RecoverInv
  <2> QED
    BY <1>1, <1>4, <1>7, <2>1 DEF RecoverInv
<1>12. DeadInv'
  BY <1>1 DEF DeadInv
<1>13. LossInv'
  <2>1. ASSUME Steady, "loss" \in config.faults, pc = "reenumerate" PROVE FALSE
    <3>1. toDev[1] = NormalReset
      BY <1>1, <1>2, <2>1 DEF LossInv
    <3> QED
      BY <1>1, <3>1, FrameFacts
  <2> QED
    BY <1>1, <1>3, <1>4, <2>1 DEF LossInv
<1>14. RamInv'
  <2> SUFFICES ASSUME Steady PROVE RamInv'
    BY <1>4 DEF RamInv
  <2>1. ram = Whole(Fdl1)
    BY <1>1, WholeAtExec
  <2>2. dev' = "fdl1" /\ \E n \in 0 .. Fdl1 + Fdl2 : ram' = Whole(n)
    BY <1>1, <2>1 DEF RamInv
  <2> QED
    BY <1>3, <1>4, <2>2 DEF RamInv
<1> QED
  BY <1>5, <1>8, <1>9, <1>10, <1>11, <1>12, <1>13, <1>14 DEF BringUpInv, ChannelInv

\* FDL1 answers the first kick.
LEMMA GreetStep == ASSUME BringUpInv, Greet PROVE BringUpInv'
<1>1. /\ NumberInv /\ SourceInv /\ PdlInv /\ VerInv /\ RecoverInv /\ DeadInv /\ LossInv /\ RamInv
      /\ dev = "fdl1" /\ toDev # <<>> /\ toDev' = Tail(toDev)
      /\ toDev[1].layer = "BSL" /\ toDev[1].cmd = "KICK"
      /\ UNCHANGED <<config, pc, at, kicks, attempt, outcome, rate, alive, losses, dev, ram, devRate>>
  BY DEF Greet, Receive, Take, BringUpInv, ChannelInv, portVars
<1>2. ~greeted /\ greeted' = TRUE
  BY Zenon DEF Greet
<1>3. PICK r \in {"VER", "GARBLED"} : toHost' = Append(toHost, r)
  BY DEF Greet, Answer
<1>4. /\ toDev \in Seq(Frames) /\ Len(toDev) \in Nat \ {0} /\ 1 \in DOMAIN toDev
      /\ at \in Nat /\ at > 0 /\ ~Quiet
      /\ InPdl => toDev[1] \in PdlFrames
      /\ InPdl \/ AtVer \/ pc = "reenumerate" \/ InBsl
  BY <1>1, HeadFacts
<1>5. ~InBsl /\ ~InBsl' /\ ~InPdl /\ at <= ExecPdl /\ (AtVer \/ pc = "reenumerate")
  <2>1. ~InBsl
    BY <1>1, <1>2, HeadFacts DEF DevBefore
  <2>2. toDev[1] \notin PdlFrames
    BY <1>1, FrameFacts
  <2> QED
    BY <1>1, <1>4, <2>1, <2>2, Indices DEF InBsl
<1>6. /\ toDev' \in Seq(Frames) /\ Len(toDev') \in Nat /\ Len(toDev') = Len(toDev) - 1
      /\ \A i \in DOMAIN toDev' : i + 1 \in DOMAIN toDev /\ toDev'[i] = toDev[i + 1]
      /\ ~Quiet' /\ InPdl' = InPdl /\ AtVer' = AtVer /\ Steady' = Steady
  BY <1>1, FrameTaken
<1>7. /\ toHost' \in Seq(Replies) /\ Len(toHost') = Len(toHost) + 1 /\ Len(toHost) \in Nat
      /\ \A i \in DOMAIN toHost' : \/ i \in DOMAIN toHost /\ toHost'[i] = toHost[i]
                                   \/ i = Len(toHost') /\ toHost'[i] = r
  <2>1. toHost \in Seq(Replies) /\ r \in Replies
    BY <1>1 DEF NumberInv, Replies
  <2>2. /\ Append(toHost, r) \in Seq(Replies) /\ Len(Append(toHost, r)) = Len(toHost) + 1
        /\ Len(toHost) \in Nat /\ DOMAIN Append(toHost, r) = 1 .. Len(toHost) + 1
        /\ DOMAIN toHost = 1 .. Len(toHost)
    BY <2>1
  <2>3. \A i \in 1 .. Len(toHost) : Append(toHost, r)[i] = toHost[i]
    BY <2>1
  <2>4. Append(toHost, r)[Len(toHost) + 1] = r
    BY <2>1
  <2>5. \A n \in Nat : \A i \in 1 .. n + 1 : i \in 1 .. n \/ i = n + 1
    OBVIOUS
  <2> QED
    <3> DEFINE n == Len(toHost)
               t == Append(toHost, r)
    <3>1. /\ t \in Seq(Replies) /\ Len(t) = n + 1 /\ n \in Nat /\ DOMAIN t = 1 .. n + 1
          /\ DOMAIN toHost = 1 .. n /\ (\A i \in 1 .. n : t[i] = toHost[i]) /\ t[n + 1] = r
      BY <2>2, <2>3, <2>4
    <3>2. toHost' = t
      BY <1>3
    <3> HIDE DEF n, t
    <3>3. ASSUME NEW i \in DOMAIN t
          PROVE  (i \in DOMAIN toHost /\ t[i] = toHost[i]) \/ (i = Len(t) /\ t[i] = r)
      <4>1. i \in 1 .. n \/ i = n + 1
        BY <2>5, <3>1
      <4> QED
        BY <3>1, <4>1
    <3> QED
      BY <3>1, <3>2, <3>3 DEF n
<1>8. NumberInv'
  <2>1. greeted' \in BOOLEAN
    BY <1>2, Zenon
  <2> QED
    BY <1>1, <1>6, <1>7, <2>1 DEF NumberInv
<1>9. NoPdl => NoPdl'
  BY <1>7 DEF NoPdl
<1>10. SourceInv'
  BY <1>1, <1>5, <1>6, <1>9 DEF SourceInv
<1>11. QuietInv' /\ PdlInv' /\ BslInv' /\ DeadInv'
  BY <1>1, <1>5, <1>6 DEF QuietInv, PdlInv, BslInv, DeadInv
<1>12. VerInv'
  <2> SUFFICES ASSUME AtVer PROVE VerInv'
    BY <1>6 DEF VerInv
  <2>1. Kicks(toDev)
    BY <1>1 DEF VerInv
  <2>2. \A i \in DOMAIN toDev' : toDev'[i] = Kick
    BY <1>6, <2>1 DEF Kicks
  <2>3. \A i \in DOMAIN toHost : toHost[i] = "PDL"
    <3>1. \A i \in DOMAIN toHost : toHost[i] # "PDL" => greeted
      BY <1>1 DEF VerInv
    <3> QED
      BY <1>2, <3>1, Zenon
  <2>4. \A i \in DOMAIN toHost' : toHost'[i] # "PDL" => i = Len(toHost')
    BY <1>7, <2>3
  <2>5. \A i \in DOMAIN toHost' : toHost'[i] # "PDL" => greeted' /\ i = Len(toHost')
    BY <1>2, <2>4, Zenon
  <2>6. attempt = 0 => NoPdl'
    BY <1>1, <1>9 DEF VerInv
  <2>7. Kick # Script[ExecPdl] /\ Kick \notin PdlFrames
    BY FrameFacts
  <2> QED
    BY <1>1, <2>2, <2>5, <2>6, <2>7 DEF VerInv, Kicks
<1>13. RecoverInv'
  <2>1. ASSUME pc = "reenumerate"
        PROVE  /\ \A i \in DOMAIN toDev : toDev[i] \in PdlFrames \cup {Script[ExecPdl], Kick, NormalReset}
               /\ attempt = 0 /\ at <= ExecPdl
    BY <1>1, <2>1 DEF RecoverInv
  <2> QED
    BY <1>1, <1>6, <2>1 DEF RecoverInv
<1>14. LossInv'
  <2>1. ASSUME Steady, "loss" \in config.faults, pc = "reenumerate" PROVE FALSE
    <3>1. toDev[1] = NormalReset
      BY <1>1, <1>4, <2>1 DEF LossInv
    <3> QED
      BY <1>1, <3>1, FrameFacts
  <2> QED
    BY <1>1, <1>5, <1>6, <2>1 DEF LossInv
<1>15. RamInv'
  BY <1>1, <1>5, <1>6 DEF RamInv
<1> QED
  BY <1>8, <1>10, <1>11, <1>12, <1>13, <1>14, <1>15 DEF BringUpInv, ChannelInv

\* A loader answers the command under way.
LEMMA LoaderStep ==
    ASSUME BringUpInv, toDev # <<>>, toDev' = Tail(toDev), dev \in {"fdl1", "fdl2"},
           toDev[1].layer = "BSL", toDev[1].cmd \notin {"KICK", "NORMAL_RESET"},
           NEW r \in {"ACK", "FAILED"}, toHost' = Append(toHost, r),
           UNCHANGED <<config, pc, at, kicks, attempt, outcome, rate, alive, losses>>,
           NumberInv',
           dev' \in {"fdl1", "fdl2"},
           r = "ACK" /\ DevBefore(at) /\ toDev[1] = Script[at] /\ at \in 1 .. ScriptLen
                     /\ at > ExecPdl => DevBefore(at + 1)',
           Begun /\ RamBefore(at) /\ toDev[1] = Script[at] /\ at \in 1 .. ScriptLen
                 /\ at > ExecPdl => Begun' /\ (r = "ACK" => RamBefore(at + 1)')
    PROVE  BringUpInv'
<1>1. /\ BslInv /\ RamInv
      /\ UNCHANGED <<config, pc, at, kicks, attempt, outcome, rate, alive, losses>>
      /\ at' = at
  BY DEF BringUpInv, ChannelInv
<1>2. InBsl
  <2>1. InPdl \/ AtVer \/ pc = "reenumerate" \/ InBsl
    BY HeadFacts
  <2>2. toDev[1] \notin PdlFrames /\ toDev[1] # Kick /\ toDev[1] # NormalReset
        /\ toDev[1] # Script[ExecPdl]
    BY FrameFacts
  <2> QED
    BY <2>1, <2>2, HeadFacts
<1>3. /\ at > ExecPdl /\ at \in 1 .. ScriptLen /\ pc = "command" /\ toDev[1] = Script[at]
      /\ Len(toDev) = 1 /\ toHost = <<>> /\ outcome # "ok" /\ DevBefore(at)
      /\ toDev \in Seq(Frames) /\ at \in Nat
  <2>1. toDev[1] # Kick
    BY FrameFacts
  <2> QED
    BY <1>2, <2>1, HeadFacts
<1>4. toDev' = <<>> /\ Len(toHost') = 1 /\ toHost'[1] = r /\ toHost' # <<>>
  BY <1>3
<1>5. ~Quiet' /\ ~InPdl' /\ ~AtVer' /\ InBsl' /\ pc' # "reenumerate" /\ ~(at' <= ExecPdl)
      /\ Steady' = Steady
  BY <1>1, <1>3, Indices DEF Quiet, InPdl, AtVer, InBsl, Steady
<1>6. SourceInv' /\ QuietInv' /\ PdlInv' /\ VerInv' /\ RecoverInv' /\ LossInv'
  BY <1>5 DEF SourceInv, QuietInv, PdlInv, VerInv, RecoverInv, LossInv
<1>7. r = "ACK" => DevBefore(at + 1)'
  BY <1>3
<1>8. BslInv'
  <2>1. rate' = IF Baud /\ at' > BaudAt THEN "fast" ELSE "base"
    BY <1>1, <1>2 DEF BslInv
  <2> QED
    BY <1>1, <1>3, <1>4, <1>5, <1>7, <2>1 DEF BslInv
<1>9. DeadInv'
  <2>1. DeadInv
    BY DEF BringUpInv
  <2>2. outcome = "running" /\ ~alive => FALSE
    BY <1>3, <2>1 DEF DeadInv
  <2> QED
    BY <1>1, <2>2 DEF DeadInv
<1>10. RamInv'
  <2>1. Steady => Begun /\ RamBefore(at)
    BY <1>1, <1>2 DEF RamInv, Begun
  <2>2. Steady => Begun' /\ (r = "ACK" => RamBefore(at + 1)')
    BY <1>3, <2>1
  <2> QED
    BY <1>1, <1>4, <1>5, <2>2 DEF RamInv, Begun
<1> QED
  BY <1>6, <1>8, <1>9, <1>10 DEF BringUpInv, ChannelInv

\* What the four actions of a loader have in common.
LEMMA LoaderNumbers ==
    ASSUME BringUpInv, toDev # <<>>, toDev' = Tail(toDev), NEW r \in {"ACK", "FAILED"},
           toHost' = Append(toHost, r),
           UNCHANGED <<config, pc, at, kicks, attempt, outcome, rate, alive, losses, greeted>>,
           dev' \in {"fdl1", "fdl2"}, devRate' \in {"base", "fast"},
           ram' = ram \/ Loads(toDev[1])
    PROVE  NumberInv'
<1>1. /\ NumberInv /\ toDev[1] \in Frames /\ toDev \in Seq(Frames)
      /\ UNCHANGED <<config, pc, at, kicks, attempt, outcome, rate, alive, losses, greeted>>
  BY HeadFacts DEF BringUpInv, ChannelInv
<1>2. toDev' \in Seq(Frames)
  BY <1>1, TailIsRest
<1>3. toHost' \in Seq(Replies)
  <2>1. toHost \in Seq(Replies) /\ r \in Replies
    BY <1>1 DEF NumberInv, Replies
  <2> QED
    BY <2>1
<1>4. ram' \in Seq(Nat)
  <2>1. ram \in Seq(Nat) /\ toDev[1].piece \in Nat
    BY <1>1, FrameFacts DEF NumberInv
  <2>2. ram' \in {ram, <<>>, Append(ram, toDev[1].piece)}
    BY DEF Loads
  <2>3. Append(ram, toDev[1].piece) \in Seq(Nat) /\ <<>> \in Seq(Nat)
    BY <2>1
  <2> QED
    BY <2>1, <2>2, <2>3
<1>5. alive' \in BOOLEAN /\ greeted' \in BOOLEAN
  <2>1. alive' = alive /\ greeted' = greeted
    BY <1>1
  <2> QED
    BY <1>1, <2>1, Zenon DEF NumberInv
<1> QED
  BY <1>1, <1>2, <1>3, <1>4, <1>5 DEF NumberInv

LEMMA LoaderSteps ==
    ASSUME BringUpInv, BslAnswers \/ BslExec \/ BslChangeBaud \/ BslRefuses
    PROVE  BringUpInv'
<1>1. /\ toDev # <<>> /\ toDev' = Tail(toDev) /\ dev \in {"fdl1", "fdl2"}
      /\ toDev[1].layer = "BSL" /\ toDev[1].cmd \notin {"KICK", "NORMAL_RESET"}
      /\ UNCHANGED <<config, pc, at, kicks, attempt, outcome, rate, alive, losses>>
      /\ UNCHANGED greeted
  BY DEF BslAnswers, BslExec, BslChangeBaud, BslRefuses, Bsl, Take, Receive, portVars, devVars
<1>2. devRate \in {"base", "fast"}
  BY DEF BringUpInv, ChannelInv, NumberInv
<1>3. CASE BslAnswers
  <2>1. /\ toHost' = Append(toHost, "ACK") /\ Loads(toDev[1]) /\ UNCHANGED <<dev, greeted, devRate>>
        /\ toDev[1].cmd \in {"CONNECT", "START", "MIDST", "END"}
    BY <1>3 DEF BslAnswers, Answer, Loads
  <2>2. NumberInv'
    BY <1>1, <1>2, <2>1, LoaderNumbers
  <2>3. ASSUME toDev[1] = Script[at], at \in 1 .. ScriptLen
        PROVE  ~(Fdl2 > 0 /\ at = ExecBsl) /\ ~(Baud /\ at = BaudAt) /\ Script[at].cmd # "EXEC"
    BY <2>1, <2>3, CommandFacts
  <2>4. ASSUME DevBefore(at), toDev[1] = Script[at], at \in 1 .. ScriptLen
        PROVE  DevBefore(at + 1)'
    <3>1. /\ Fdl2 > 0 => (at + 1 > ExecBsl <=> at > ExecBsl)
          /\ Baud => (at + 1 > BaudAt <=> at > BaudAt)
      BY <2>3, <2>4, Indices
    <3> QED
      BY <1>1, <2>1, <2>4, <3>1 DEF DevBefore
  <2>5. ASSUME RamBefore(at), Begun, toDev[1] = Script[at], at \in 1 .. ScriptLen
        PROVE  RamBefore(at + 1)' /\ Begun'
    <3>1. PICK k \in 1 .. ScriptLen : k = at
      BY <2>5
    <3>2. RamBefore(k + 1)' /\ Begun'
      BY <2>1, <2>3, <2>5, <3>1, LoadStep
    <3> QED
      BY <1>1, <3>1, <3>2 DEF RamBefore
  <2>6. DevBefore(at) /\ toDev[1] = Script[at] /\ at \in 1 .. ScriptLen /\ at > ExecPdl
            => DevBefore(at + 1)'
    BY <2>4
  <2>7. Begun /\ RamBefore(at) /\ toDev[1] = Script[at] /\ at \in 1 .. ScriptLen /\ at > ExecPdl
            => Begun' /\ RamBefore(at + 1)'
    BY <2>5
  <2>8. dev' \in {"fdl1", "fdl2"}
    BY <1>1, <2>1
  <2> QED
    BY <1>1, <2>1, <2>2, <2>6, <2>7, <2>8, LoaderStep
<1>4. CASE BslExec
  <2>1. /\ toDev[1].cmd = "EXEC" /\ UNCHANGED <<ram, greeted, devRate>>
        /\ \/ dev = "fdl1" /\ dev' = "fdl2" /\ toHost' = Append(toHost, "ACK")
           \/ dev' = dev /\ toHost' = Append(toHost, "FAILED")
    BY <1>4 DEF BslExec, Receive, Answer
  <2>2. PICK r \in {"ACK", "FAILED"} : /\ toHost' = Append(toHost, r)
                                       /\ r = "ACK" => dev = "fdl1" /\ dev' = "fdl2"
                                       /\ dev' \in {"fdl1", "fdl2"}
    BY <1>1, <2>1
  <2>3. NumberInv'
    BY <1>1, <1>2, <2>1, <2>2, LoaderNumbers
  <2>4. ASSUME toDev[1] = Script[at], at \in 1 .. ScriptLen, at > ExecPdl
        PROVE  Fdl2 > 0 /\ at = ExecBsl
    BY <2>1, <2>4, CommandFacts, Indices
  <2>5. r = "ACK" /\ DevBefore(at) /\ toDev[1] = Script[at] /\ at \in 1 .. ScriptLen /\ at > ExecPdl
            => DevBefore(at + 1)'
    <3> SUFFICES ASSUME r = "ACK", DevBefore(at), toDev[1] = Script[at], at \in 1 .. ScriptLen,
                        at > ExecPdl
                 PROVE  DevBefore(at + 1)'
      OBVIOUS
    <3>1. /\ Fdl2 > 0 /\ at + 1 > ExecBsl /\ ~(at > ExecBsl)
          /\ ~(Baud /\ at + 1 > BaudAt) /\ ~(Baud /\ at > BaudAt)
      BY <2>4, Indices
    <3> QED
      BY <1>1, <2>1, <2>2, <3>1 DEF DevBefore
  <2>6. Begun /\ RamBefore(at) /\ toDev[1] = Script[at] /\ at \in 1 .. ScriptLen /\ at > ExecPdl
            => Begun' /\ RamBefore(at + 1)'
    <3> SUFFICES ASSUME Begun, toDev[1] = Script[at], at \in 1 .. ScriptLen, at > ExecPdl
                 PROVE  Begun' /\ RamBefore(at + 1)'
      OBVIOUS
    <3>1. /\ at + 1 \notin 3 .. ExecPdl - 1 /\ at + 1 # ExecPdl
          /\ at + 1 \notin ExecPdl + 3 .. ExecBsl - 1 /\ at + 1 # ExecBsl
      BY <2>4, Indices
    <3> QED
      BY <1>1, <2>1, <3>1 DEF RamBefore, Begun
  <2> QED
    BY <1>1, <2>2, <2>3, <2>5, <2>6, LoaderStep
<1>5. CASE BslChangeBaud
  <2>1. /\ toDev[1].cmd = "CHANGE_BAUD" /\ UNCHANGED <<ram, greeted, dev>> /\ devRate' = "fast"
        /\ toHost' = Append(toHost, "ACK")
    BY <1>5 DEF BslChangeBaud, Receive, Answer
  <2>2. NumberInv'
    BY <1>1, <2>1, LoaderNumbers
  <2>3. ASSUME toDev[1] = Script[at], at \in 1 .. ScriptLen
        PROVE  Baud /\ at = BaudAt
    BY <2>1, <2>3, CommandFacts
  <2>4. DevBefore(at) /\ toDev[1] = Script[at] /\ at \in 1 .. ScriptLen /\ at > ExecPdl
            => DevBefore(at + 1)'
    <3> SUFFICES ASSUME DevBefore(at), toDev[1] = Script[at], at \in 1 .. ScriptLen
                 PROVE  DevBefore(at + 1)'
      OBVIOUS
    <3>1. /\ Baud /\ at + 1 > BaudAt
          /\ Fdl2 > 0 => at > ExecBsl /\ at + 1 > ExecBsl
      BY <2>3, Indices
    <3> QED
      BY <1>1, <2>1, <3>1 DEF DevBefore
  <2>5. Begun /\ RamBefore(at) /\ toDev[1] = Script[at] /\ at \in 1 .. ScriptLen /\ at > ExecPdl
            => Begun' /\ RamBefore(at + 1)'
    <3> SUFFICES ASSUME Begun, toDev[1] = Script[at], at \in 1 .. ScriptLen
                 PROVE  Begun' /\ RamBefore(at + 1)'
      OBVIOUS
    <3>1. /\ at + 1 \notin 3 .. ExecPdl - 1 /\ at + 1 # ExecPdl
          /\ Fdl2 > 0 => at + 1 \notin ExecPdl + 3 .. ExecBsl - 1 /\ at + 1 # ExecBsl
      BY <2>3, Indices
    <3> QED
      BY <1>1, <2>1, <3>1 DEF RamBefore, Begun
  <2>6. dev' \in {"fdl1", "fdl2"}
    BY <1>1, <2>1
  <2> QED
    BY <1>1, <2>1, <2>2, <2>4, <2>5, <2>6, LoaderStep
<1>6. CASE BslRefuses
  <2>1. /\ UNCHANGED <<dev, ram, greeted, devRate>> /\ toHost' = Append(toHost, "FAILED")
    BY <1>6 DEF BslRefuses, Answer, devVars
  <2>2. NumberInv'
    BY <1>1, <1>2, <2>1, LoaderNumbers
  <2>3. Begun => Begun'
    BY <2>1 DEF Begun
  <2>4. dev' \in {"fdl1", "fdl2"} /\ "FAILED" # "ACK"
    BY <1>1, <2>1
  <2> QED
    BY <1>1, <2>1, <2>2, <2>3, <2>4, LoaderStep
<1> QED
  BY <1>3, <1>4, <1>5, <1>6

\* A frame goes unnoticed, or is lost.
LEMMA DropStep == ASSUME BringUpInv, Ignored \/ LoseFrame PROVE BringUpInv'
<1>1. /\ NumberInv /\ SourceInv /\ PdlInv /\ VerInv /\ RecoverInv /\ BslInv /\ DeadInv /\ LossInv
      /\ RamInv
      /\ toDev # <<>> /\ toDev' = Tail(toDev)
      /\ UNCHANGED <<config, pc, at, kicks, attempt, outcome, rate, alive, toHost, dev, ram,
                     greeted, devRate>>
      /\ losses' = losses \/ (losses < MaxLosses /\ losses' = losses + 1)
  BY DEF Ignored, LoseFrame, Take, BringUpInv, ChannelInv, portVars, devVars
<1>2. /\ toDev \in Seq(Frames) /\ Len(toDev) \in Nat \ {0} /\ 1 \in DOMAIN toDev
      /\ at \in Nat /\ at > 0 /\ ~Quiet
      /\ InPdl => at < ExecPdl /\ toDev[1] \in PdlFrames
      /\ InPdl \/ AtVer \/ pc = "reenumerate" \/ InBsl
      /\ InBsl => toHost = <<>> /\ outcome # "ok" /\ DevBefore(at) /\ at > ExecPdl
  BY <1>1, HeadFacts
<1>3. /\ toDev' \in Seq(Frames) /\ Len(toDev') \in Nat /\ Len(toDev') = Len(toDev) - 1
      /\ \A i \in DOMAIN toDev' : i + 1 \in DOMAIN toDev /\ toDev'[i] = toDev[i + 1]
      /\ ~Quiet' /\ InPdl' = InPdl /\ AtVer' = AtVer /\ InBsl' = InBsl /\ Steady' = Steady
  BY <1>1, FrameTaken
<1>4. NumberInv'
  <2>1. losses' \in 0 .. MaxLosses
    BY <1>1, Numbers DEF NumberInv
  <2>2. alive' = alive /\ greeted' = greeted /\ alive \in BOOLEAN /\ greeted \in BOOLEAN
    BY <1>1 DEF NumberInv
  <2>3. alive' \in BOOLEAN /\ greeted' \in BOOLEAN
    BY <2>2, Zenon
  <2> QED
    BY <1>1, <1>3, <2>1, <2>3 DEF NumberInv
<1>5. SourceInv'
  <2>1. at <= ExecPdl => dev \notin {"app", "entering", "rebooting"}
    BY <1>1 DEF SourceInv
  <2>2. NoPdl' = NoPdl
    BY <1>1 DEF NoPdl
  <2> QED
    BY <1>1, <1>3, <2>1, <2>2 DEF SourceInv
<1>6. QuietInv' /\ PdlInv'
  <2>1. ASSUME InPdl
        PROVE  /\ \A i \in DOMAIN toDev' : toDev'[i] \in PdlFrames
               /\ dev # "pdl" => at = 1
    BY <1>1, <1>3, <2>1 DEF PdlInv
  <2>2. ASSUME InPdl, attempt = 0 PROVE Len(toDev') + Len(toHost) <= 1
    <3>1. Len(toDev) + Len(toHost) <= 1 /\ Len(toHost) \in Nat
      BY <1>1, <2>2 DEF PdlInv, NumberInv
    <3> QED
      BY <1>2, <1>3, <3>1
  <2> QED
    BY <1>1, <1>3, <2>1, <2>2 DEF QuietInv, PdlInv
<1>7. VerInv'
  <2> SUFFICES ASSUME AtVer PROVE VerInv'
    BY <1>3 DEF VerInv
  <2>1. /\ dev \in {"pdl", "fdl1"}
        /\ \A i \in DOMAIN toDev : toDev[i] \in PdlFrames \cup {Script[ExecPdl], Kick}
        /\ \A i, j \in DOMAIN toDev : toDev[i] = Script[ExecPdl] /\ j > i => toDev[j] = Kick
        /\ dev = "fdl1" => \A i \in DOMAIN toDev : toDev[i] = Kick
        /\ attempt = 0 => NoPdl /\ \A i \in DOMAIN toDev : toDev[i] \notin PdlFrames
    BY <1>1 DEF VerInv, Kicks
  <2>2. dev = "fdl1" => \A i \in DOMAIN toHost : toHost[i] # "PDL" => greeted /\ i = Len(toHost)
    BY <1>1 DEF VerInv
  <2>3. \A i \in DOMAIN toDev' : toDev'[i] \in PdlFrames \cup {Script[ExecPdl], Kick}
    BY <1>3, <2>1
  <2>4. \A i, j \in DOMAIN toDev' : toDev'[i] = Script[ExecPdl] /\ j > i => toDev'[j] = Kick
    BY <1>3, <2>1
  <2>5. /\ dev = "fdl1" => \A i \in DOMAIN toDev' : toDev'[i] = Kick
        /\ attempt = 0 => \A i \in DOMAIN toDev' : toDev'[i] \notin PdlFrames
    BY <1>3, <2>1
  <2> QED
    BY <1>1, <2>1, <2>2, <2>3, <2>4, <2>5 DEF VerInv, Kicks, NoPdl
<1>8. RecoverInv'
  <2> SUFFICES ASSUME pc = "reenumerate" PROVE RecoverInv'
    BY <1>1 DEF RecoverInv
  <2>1. /\ attempt = 0 /\ at <= ExecPdl
        /\ \A i \in DOMAIN toDev : toDev[i] \in PdlFrames \cup {Script[ExecPdl], Kick, NormalReset}
        /\ \A i \in DOMAIN toDev : dev = "pdl" /\ toDev[i] = Script[ExecPdl] =>
               toHost = <<>> /\ \A j \in DOMAIN toDev : toDev[j] \notin PdlFrames
    BY <1>1 DEF RecoverInv
  <2> QED
    BY <1>1, <1>3, <2>1 DEF RecoverInv
<1>9. BslInv'
  <2> SUFFICES ASSUME InBsl PROVE BslInv'
    BY <1>3 DEF BslInv
  <2>1. /\ pc = "command" /\ toHost = <<>> /\ outcome # "ok"
        /\ \A i \in DOMAIN toDev : i < Len(toDev) => toDev[i] = Kick
        /\ toDev[Len(toDev)] \in {Kick, Script[at]}
        /\ rate = IF Baud /\ at > BaudAt THEN "fast" ELSE "base"
    BY <1>1 DEF BslInv
  <2>2. DevBefore(at)'
    BY <1>1, <1>2 DEF DevBefore
  <2>3. ASSUME NEW i \in DOMAIN toDev', i < Len(toDev') PROVE toDev'[i] = Kick
    BY <1>2, <1>3, <2>1, <2>3
  <2>4. toDev' # <<>> => toDev'[Len(toDev')] \in {Kick, Script[at]}
    <3>1. toDev' # <<>> => Len(toDev') \in DOMAIN toDev' /\ Len(toDev') + 1 = Len(toDev)
      BY <1>2, <1>3
    <3> QED
      BY <1>3, <2>1, <3>1
  <2> QED
    BY <1>1, <2>1, <2>2, <2>3, <2>4 DEF BslInv
<1>10. DeadInv'
  BY <1>1 DEF DeadInv
<1>11. LossInv'
  <2>1. ASSUME Steady, "loss" \in config.faults, InPdl PROVE Len(toDev') + Len(toHost) <= 1
    <3>1. Len(toDev) + Len(toHost) <= 1 /\ Len(toHost) \in Nat
      BY <1>1, <2>1 DEF LossInv, NumberInv
    <3> QED
      BY <1>2, <1>3, <3>1
  <2>2. ASSUME Steady, "loss" \in config.faults, pc = "reenumerate"
        PROVE  toHost = <<>> /\ \A i \in DOMAIN toDev' : toDev'[i] = NormalReset
    BY <1>1, <1>3, <2>2 DEF LossInv
  <2> QED
    BY <1>1, <1>3, <2>1, <2>2 DEF LossInv
<1>12. RamInv'
  <2> SUFFICES ASSUME Steady PROVE RamInv'
    BY <1>3 DEF RamInv
  <2>1. \A k : RamBefore(k)' = RamBefore(k)
    BY <1>1 DEF RamBefore
  <2>2. \E n \in 0 .. Fdl1 + Fdl2 : ram' = Whole(n)
    BY <1>1 DEF RamInv
  <2>3. ASSUME InPdl
        PROVE  /\ Sent(Len(toDev))'
               /\ toDev' # <<>> \/ toHost # <<>> => RamBefore(at + 1 - Len(toDev'))
    <3>1. Sent(Len(toDev)) /\ RamBefore(at + 1 - Len(toDev))
      BY <1>1, <2>3 DEF RamInv
    <3>2. PICK c \in Nat : c = Len(toDev) /\ c > 0 /\ c - 1 = Len(toDev')
      BY <1>2, <1>3
    <3>3. Sent(c - 1)'
      BY <1>1, <3>1, <3>2, FrameTaken
    <3>4. Sent(Len(toDev))'
      BY <3>2, <3>3 DEF Sent
    <3>5. CASE LoseFrame
      <4>1. "loss" \in config.faults
        BY <3>5 DEF LoseFrame, Fault
      <4>2. c + Len(toHost) <= 1 /\ Len(toHost) \in Nat
        BY <1>1, <2>3, <3>2, <4>1 DEF LossInv, NumberInv
      <4>3. Len(toHost) = 0 /\ Len(toDev') = 0
        BY <3>2, <4>2
      <4>4. toHost = <<>> /\ toDev' = <<>>
        BY <1>1, <1>3, <4>3 DEF NumberInv
      <4> QED
        BY <3>4, <4>4
    <3>6. CASE Ignored
      <4>1. dev # "pdl"
        <5>1. toDev[1].layer # "BSL"
          BY <1>2, <2>3, FrameFacts
        <5> QED
          BY <3>6, <5>1 DEF Ignored, Bsl
      <4>2. at = 1
        BY <1>1, <2>3, <4>1 DEF PdlInv
      <4>3. c = 1
        BY <3>1, <3>2, <4>2 DEF Sent
      <4>4. Len(toDev') = 0 /\ at + 1 - Len(toDev') = 2
        BY <3>2, <4>2, <4>3
      <4>5. RamBefore(2)
        BY Indices DEF RamBefore
      <4> QED
        BY <3>4, <4>4, <4>5
    <3> QED
      BY <3>5, <3>6
  <2>4. ASSUME AtVer \/ pc = "reenumerate", dev = "pdl"
        PROVE  \E c \in 0 .. Len(toDev') : Sent(c)' /\ (c > 0 => RamBefore(at + 1 - c))
    <3>1. PICK c \in 0 .. Len(toDev) : Sent(c) /\ (c > 0 => RamBefore(at + 1 - c))
      BY <1>1, <2>4 DEF RamInv
    <3>2. CASE c = 0
      <4>1. Sent(0)' /\ 0 \in 0 .. Len(toDev')
        BY <1>1, <1>3, <3>1, <3>2, FrameTaken
      <4> QED
        BY <4>1
    <3>3. CASE c # 0
      <4>1. c \in Nat /\ c > 0
        BY <3>3
      <4>2. toDev[1] = Script[at + 1 - c] /\ Sent(c - 1)'
        BY <1>1, <3>1, <4>1, FrameTaken
      <4>3. LoseFrame
        <5>1. at <= ExecPdl /\ c <= at
          BY <1>1, <1>2, <2>4, <3>1, Indices DEF AtVer, RecoverInv, Sent
        <5>2. at + 1 - c \in 1 .. ScriptLen /\ at + 1 - c <= ExecPdl
          BY <1>2, <4>1, <5>1, Indices
        <5>3. toDev[1].layer # "BSL"
          BY <4>2, <5>2, CommandFacts
        <5> QED
          BY <2>4, <5>3 DEF Ignored, Bsl
      <4>4. c = 1
        BY <3>1, <4>1, <4>3 DEF LoseFrame, Fault, Sent
      <4>5. Sent(0)' /\ 0 \in 0 .. Len(toDev')
        BY <1>3, <4>2, <4>4
      <4> QED
        BY <4>5
    <3> QED
      BY <3>2, <3>3
  <2>5. InBsl /\ toDev' # <<>> => RamBefore(at)
    BY <1>1 DEF RamInv
  <2>6. InBsl => toHost' = <<>>
    BY <1>1, <1>2
  <2>7. RamBefore(at + 1 - Len(toDev))' = RamBefore(at + 1 - Len(toDev'))
    BY <1>1 DEF RamBefore
  <2> QED
    BY <1>1, <1>3, <2>1, <2>2, <2>3, <2>4, <2>5, <2>6, <2>7 DEF RamInv
<1> QED
  BY <1>4, <1>5, <1>6, <1>7, <1>8, <1>9, <1>10, <1>11, <1>12 DEF BringUpInv, ChannelInv

\* The reset lands: FDL1 or FDL2 leaves, at once or a second later.
LEMMA LeaveSteps == ASSUME BringUpInv, BslReset \/ SlowLeave PROVE BringUpInv'
<1>1. /\ NumberInv /\ SourceInv /\ QuietInv /\ PdlInv /\ VerInv /\ RecoverInv /\ BslInv /\ DeadInv
      /\ LossInv /\ RamInv
      /\ UNCHANGED <<config, pc, at, kicks, attempt, outcome, rate, ram, greeted, devRate, losses>>
  BY DEF BslReset, SlowLeave, BringUpInv, ChannelInv
<1>2. Steady' = Steady /\ Quiet' = Quiet /\ InPdl' = InPdl /\ AtVer' = AtVer /\ InBsl' = InBsl
  BY <1>1 DEF Steady, Quiet, InPdl, AtVer, InBsl
<1>3. CASE BslReset
  <2>1. toDev # <<>> /\ toDev[1] = NormalReset /\ dev \in {"fdl1", "fdl2"}
    BY <1>3 DEF BslReset, Bsl
  <2>2. pc = "reenumerate" /\ ~Quiet /\ ~InPdl /\ ~AtVer /\ ~InBsl
    <3>1. NormalReset \notin PdlFrames /\ NormalReset # Script[ExecPdl] /\ NormalReset # Kick
          /\ \A k \in 1 .. ScriptLen : NormalReset # Script[k]
      BY FrameFacts DEF Kick, NormalReset, Command
    <3> QED
      BY <2>1, <3>1, HeadFacts
  <2>3. /\ toDev \in Seq(Frames) /\ toHost \in Seq(Replies) /\ attempt = 0 /\ at <= ExecPdl
        /\ rate = "base" /\ devRate = "base" /\ outcome # "ok"
        /\ alive \in BOOLEAN /\ NoPdl
        /\ \A i \in DOMAIN toDev : toDev[i] \in PdlFrames \cup {Script[ExecPdl], Kick, NormalReset}
    BY <1>1, <2>1, <2>2 DEF NumberInv, RecoverInv, SourceInv
  <2>4. \/ dev' = "resetting" /\ toDev' = Tail(toDev) /\ alive' = alive /\ toHost' = toHost
        \/ dev' = "rebooting" /\ toDev' = <<>> /\ toHost' = <<>> /\ alive' = FALSE
    BY <1>3 DEF BslReset, Leave
  <2>5. /\ toDev' \in Seq(Frames) /\ toHost' \in Seq(Replies)
        /\ \A i \in DOMAIN toDev' : \E j \in DOMAIN toDev : toDev'[i] = toDev[j]
        /\ \A i \in DOMAIN toHost' : toHost'[i] # "PDL"
        /\ toHost = <<>> => toHost' = <<>>
        /\ dev' \in {"resetting", "rebooting"}
        /\ dev' = "rebooting" => toDev' = <<>> /\ toHost' = <<>>
    <3>1. CASE dev' = "resetting" /\ toDev' = Tail(toDev) /\ alive' = alive /\ toHost' = toHost
      <4>1. toDev' \in Seq(Frames) /\ \A i \in DOMAIN toDev' : i + 1 \in DOMAIN toDev /\ toDev'[i] = toDev[i + 1]
        BY <2>1, <2>3, <3>1, TailIsRest
      <4> QED
        BY <2>3, <3>1, <4>1 DEF NoPdl
    <3>2. CASE dev' = "rebooting" /\ toDev' = <<>> /\ toHost' = <<>> /\ alive' = FALSE
      BY <3>2
    <3> QED
      BY <2>4, <3>1, <3>2
  <2>6. alive' \in BOOLEAN
    <3>1. alive' = alive \/ alive' = FALSE
      BY <2>4
    <3> QED
      BY <2>3, <3>1, Zenon
  <2>7. NumberInv'
    BY <1>1, <2>5, <2>6 DEF NumberInv
  <2>8. SourceInv'
    BY <1>1, <1>2, <2>3, <2>5 DEF SourceInv, NoPdl
  <2>9. QuietInv' /\ PdlInv' /\ VerInv' /\ BslInv' /\ DeadInv'
    BY <1>1, <1>2, <2>2 DEF QuietInv, PdlInv, VerInv, BslInv, DeadInv
  <2>10. RecoverInv'
    BY <1>1, <2>3, <2>5 DEF RecoverInv
  <2>11. LossInv'
    <3>1. ASSUME Steady, "loss" \in config.faults
          PROVE  toHost' = <<>> /\ \A i \in DOMAIN toDev' : toDev'[i] = NormalReset
      BY <1>1, <2>2, <2>5, <3>1 DEF LossInv
    <3> QED
      BY <1>1, <1>2, <2>2, <3>1 DEF LossInv
  <2>12. RamInv'
    BY <1>1, <1>2, <2>2, <2>5 DEF RamInv
  <2> QED
    BY <2>7, <2>8, <2>9, <2>10, <2>11, <2>12 DEF BringUpInv, ChannelInv
<1>4. CASE SlowLeave
  <2>1. dev = "resetting" /\ dev' = "rebooting" /\ alive' = FALSE /\ toDev' = <<>> /\ toHost' = <<>>
    BY <1>4 DEF SlowLeave, Leave
  <2>2. ~AtVer /\ (InBsl => outcome # "ok")
    BY <1>1, <2>1 DEF VerInv, BslInv, DevBefore
  <2>3. NumberInv'
    <3>1. alive' \in BOOLEAN /\ greeted' \in BOOLEAN
      <4>1. alive' = FALSE /\ greeted' = greeted
        BY <1>1, <2>1
      <4> QED
        BY <1>1, <4>1, Zenon DEF NumberInv
    <3> QED
      BY <1>1, <2>1, <3>1 DEF NumberInv
  <2>4. SourceInv'
    BY <1>1, <1>2, <2>1 DEF SourceInv, NoPdl
  <2>5. QuietInv' /\ VerInv' /\ DeadInv'
    BY <1>1, <1>2, <2>1, <2>2 DEF QuietInv, VerInv, DeadInv
  <2>6. PdlInv'
    BY <1>1, <1>2, <2>1 DEF PdlInv
  <2>7. RecoverInv'
    BY <1>1, <1>2, <2>1 DEF RecoverInv
  <2>8. BslInv'
    BY <1>1, <1>2, <2>1, <2>2 DEF BslInv
  <2>9. LossInv'
    BY <1>1, <1>2, <2>1 DEF LossInv
  <2>10. RamInv'
    <3>1. Sent(0)'
      BY <1>1, <2>1 DEF Sent, NumberInv
    <3> QED
      BY <1>1, <1>2, <2>1, <3>1 DEF RamInv, Sent
  <2> QED
    BY <2>3, <2>4, <2>5, <2>6, <2>7, <2>8, <2>9, <2>10 DEF BringUpInv, ChannelInv
<1> QED
  BY <1>3, <1>4

\* The module is back from its reboot.
LEMMA RebootStep == ASSUME BringUpInv, RebootEnds PROVE BringUpInv'
<1>1. /\ NumberInv /\ SourceInv /\ QuietInv /\ PdlInv /\ VerInv /\ RecoverInv /\ BslInv /\ DeadInv
      /\ LossInv /\ RamInv
      /\ UNCHANGED <<config, pc, at, kicks, attempt, outcome, rate, alive, toDev, toHost, losses>>
      /\ dev \in {"entering", "rebooting"} /\ dev' \in {"app", "pdl"}
      /\ ram' = <<>> /\ devRate' = "base"
  BY DEF RebootEnds, BringUpInv, ChannelInv, portVars
<1>2. /\ Steady' = Steady /\ Quiet' = Quiet /\ InPdl' = InPdl /\ AtVer' = AtVer /\ InBsl' = InBsl
      /\ NoPdl' = NoPdl
  BY <1>1 DEF Steady, Quiet, InPdl, AtVer, InBsl, NoPdl
<1>3. /\ ~AtVer /\ at <= ExecPdl => toDev = <<>> /\ toHost = <<>>
  BY <1>1 DEF VerInv, SourceInv
<1>4. InBsl => toDev = <<>> /\ outcome # "ok" /\ (toHost # <<>> => toHost[1] # "ACK")
  BY <1>1 DEF BslInv, DevBefore
<1>5. at \in Nat /\ ExecPdl \in Nat /\ (InPdl => at <= ExecPdl)
  BY <1>1, Indices DEF NumberInv, InPdl
<1>6. NumberInv'
  <2>1. greeted' \in BOOLEAN
    <3>1. greeted' = FALSE
      BY Zenon DEF RebootEnds
    <3> QED
      BY <3>1, Zenon
  <2> QED
    BY <1>1, <2>1 DEF NumberInv
<1>7. SourceInv'
  BY <1>1, <1>2, <1>3 DEF SourceInv
<1>8. QuietInv' /\ LossInv'
  BY <1>1, <1>2 DEF QuietInv, LossInv
<1>9. PdlInv'
  BY <1>1, <1>2 DEF PdlInv
<1>10. ~AtVer
  BY <1>1 DEF VerInv
<1>11. VerInv' /\ RecoverInv'
  BY <1>1, <1>2, <1>3, <1>10 DEF VerInv, RecoverInv
<1>12. BslInv'
  BY <1>1, <1>2, <1>4 DEF BslInv
<1>13. DeadInv'
  BY <1>1 DEF DeadInv
<1>14. RamInv'
  <2>1. ram' = Whole(0) /\ 0 \in 0 .. Fdl1 + Fdl2
    BY <1>1, Numbers, WholeFacts
  <2>2. toDev = <<>> => Len(toDev') = 0 /\ Sent(0)'
    BY <1>1, <1>5 DEF Sent, NumberInv
  <2>3. InPdl => /\ toDev' = <<>> /\ toHost' = <<>>
                 /\ Sent(Len(toDev))'
    BY <1>1, <1>3, <1>5, <1>10, <2>2 DEF Sent
  <2>4. pc = "reenumerate" => Sent(0)' /\ 0 \in 0 .. Len(toDev')
    <3>1. pc = "reenumerate" => at <= ExecPdl
      BY <1>1 DEF RecoverInv
    <3> QED
      BY <1>3, <1>10, <2>2, <3>1
  <2> QED
    BY <1>1, <1>2, <1>4, <1>10, <2>1, <2>3, <2>4 DEF RamInv
<1> QED
  BY <1>6, <1>7, <1>8, <1>9, <1>11, <1>12, <1>13, <1>14 DEF BringUpInv, ChannelInv

LEMMA Stutters == ASSUME BringUpInv, UNCHANGED vars PROVE BringUpInv'
<1>1. UNCHANGED <<config, pc, at, kicks, attempt, outcome, rate, alive, toDev, toHost, dev, ram,
                  greeted, devRate, losses>>
  BY DEF vars, portVars, devVars
<1>2. /\ Steady' = Steady /\ Quiet' = Quiet /\ InPdl' = InPdl /\ AtVer' = AtVer /\ InBsl' = InBsl
      /\ NoPdl' = NoPdl
      /\ \A k : RamBefore(k)' = RamBefore(k) /\ DevBefore(k)' = DevBefore(k)
      /\ \A c : Sent(c)' = Sent(c)
  BY <1>1 DEF Steady, Quiet, InPdl, AtVer, InBsl, NoPdl, RamBefore, DevBefore, Sent
<1>3. NumberInv /\ SourceInv /\ QuietInv /\ PdlInv /\ VerInv /\ RecoverInv /\ BslInv /\ DeadInv
      /\ LossInv /\ RamInv
  BY DEF BringUpInv, ChannelInv
<1>4. NumberInv' /\ SourceInv' /\ QuietInv' /\ PdlInv'
  BY <1>1, <1>2, <1>3 DEF NumberInv, SourceInv, QuietInv, PdlInv
<1>5. VerInv' /\ RecoverInv' /\ BslInv' /\ DeadInv'
  BY <1>1, <1>2, <1>3 DEF VerInv, Kicks, RecoverInv, BslInv, DeadInv
<1>6. LossInv'
  BY <1>1, <1>2, <1>3 DEF LossInv
<1>7. RamInv'
  <2>1. /\ Sent(Len(toDev))' = Sent(Len(toDev))
        /\ RamBefore(at)' = RamBefore(at) /\ RamBefore(at + 1)' = RamBefore(at + 1)
        /\ RamBefore(at + 1 - Len(toDev))' = RamBefore(at + 1 - Len(toDev))
    BY <1>1 DEF Sent, RamBefore
  <2>2. \A c : RamBefore(at + 1 - c)' = RamBefore(at + 1 - c)
    BY <1>1 DEF RamBefore
  <2> QED
    BY <1>1, <1>2, <1>3, <2>1, <2>2 DEF RamInv
<1> QED
  BY <1>4, <1>5, <1>6, <1>7, <1>3 DEF BringUpInv, ChannelInv

----
(***************************************************************************)
(* The theorems.                                                           *)
(***************************************************************************)
LEMMA BringUpInvariant == Spec => []BringUpInv
<1>1. Init => BringUpInv
  BY InitInv
<1>2. BringUpInv /\ [Next]_vars => BringUpInv'
  <2> SUFFICES ASSUME BringUpInv, [Next]_vars PROVE BringUpInv'
    OBVIOUS
  <2>1. CASE HostStep
    BY <2>1, PortSteps, OpenStep, ReplyLossSteps, ProceedStep, KickStep, FailStep, ReenumeratedStep
    DEF HostStep
  <2>2. CASE PortFails
    BY <2>2, FailStep
  <2>3. CASE DeviceStep
    BY <2>3, PdlAnswerStep, PdlExecStep, GreetStep, LoaderSteps, LeaveSteps, DropStep, RebootStep
    DEF DeviceStep, FrameStep
  <2>4. CASE LoseFrame \/ LoseReply
    BY <2>4, DropStep, ReplyLossSteps
  <2>5. CASE Terminated \/ UNCHANGED vars
    BY <2>5, Stutters DEF Terminated
  <2> QED
    BY <2>1, <2>2, <2>3, <2>4, <2>5 DEF Next
<1> QED
  BY <1>1, <1>2, PTL DEF Spec

\* Every variable keeps its type: no piece, reply or command outside the protocol is ever
\* under way, the script is never overrun, and there is no third attempt.
THEOREM TypeCorrect == Spec => []TypeOK
<1>1. BringUpInv => TypeOK
  <2> SUFFICES ASSUME BringUpInv PROVE TypeOK
    OBVIOUS
  <2>1. NumberInv
    BY DEF BringUpInv, ChannelInv
  <2>2. at \in 1 .. Len(Script) + 1 /\ (outcome # "ok" => at \in DOMAIN Script)
    <3>1. Len(Script) = ScriptLen /\ DOMAIN Script = 1 .. ScriptLen
      BY ScriptFacts, FrameFacts
    <3>2. at \in Nat \ {0} /\ at <= ScriptLen + 1 /\ (outcome # "ok" => at <= ScriptLen)
      BY <2>1 DEF NumberInv
    <3>3. at \in 1 .. ScriptLen + 1 /\ (outcome # "ok" => at \in 1 .. ScriptLen)
      BY <3>2, Indices
    <3> QED
      BY <3>1, <3>3
  <2>3. /\ toDev \in Seq({Script[i] : i \in DOMAIN Script} \cup {Kick, NormalReset})
        /\ toHost \in Seq({"PDL", "VER", "GARBLED", "ACK", "FAILED"})
    BY <2>1 DEF NumberInv, Frames, Replies
  <2>4. alive \in BOOLEAN /\ greeted \in BOOLEAN
    BY <2>1, Zenon DEF NumberInv
  <2> QED
    BY <2>1, <2>2, <2>3, <2>4 DEF NumberInv, TypeOK
<1> QED
  BY <1>1, BringUpInvariant, PTL

\* bring_up succeeds only with the module in the loader it was to be brought up to, and with
\* both ends of the line at the same rate, whatever was lost, late, refused or garbled.
THEOREM BroughtUp == Spec => []OkMeansBroughtUp
<1>1. BringUpInv => OkMeansBroughtUp
  <2> SUFFICES ASSUME BringUpInv, outcome = "ok" PROVE OkMeansBroughtUp
    BY DEF OkMeansBroughtUp
  <2>1. at \in Nat /\ at > ExecPdl
    BY Indices DEF BringUpInv, ChannelInv, NumberInv, SourceInv
  <2>2. /\ at = ScriptLen + 1 /\ DevBefore(at)
        /\ rate = IF Baud /\ at > BaudAt THEN "fast" ELSE "base"
    BY <2>1 DEF BringUpInv, ChannelInv, BslInv, InBsl
  <2>3. (Baud => at > BaudAt) /\ (Fdl2 > 0 => at > ExecBsl)
    BY <2>2, Indices
  <2> QED
    BY <2>2, <2>3 DEF DevBefore, OkMeansBroughtUp
<1> QED
  BY <1>1, BringUpInvariant, PTL

\* On a steady link the module's memory always holds a beginning of a loader, and what an
\* EXEC starts is the whole of it, in the second attempt too.
THEOREM LoadersInStep == Spec => []LoaderInStep
<1>1. BringUpInv => LoaderInStep
  <2> SUFFICES ASSUME BringUpInv, Steady PROVE LoaderInStep
    BY DEF LoaderInStep
  <2>1. \E n \in 0 .. Fdl1 + Fdl2 : ram = Whole(n)
    BY DEF BringUpInv, RamInv
  <2>2. ASSUME toDev # <<>>, dev = "pdl", toDev[1] = Command("PDL", "EXEC", 0)
        PROVE  ram = Whole(Fdl1)
    BY <2>2, WholeAtExec DEF Command
  <2>3. ASSUME toDev # <<>>, dev = "fdl1", toDev[1] = Command("BSL", "EXEC", 0)
        PROVE  ram = Whole(Fdl2)
    <3>1. toDev[1].layer = "BSL" /\ toDev[1].cmd = "EXEC"
      BY <2>3 DEF Command
    <3>2. /\ toDev[1] \notin PdlFrames /\ toDev[1] # Kick /\ toDev[1] # NormalReset
          /\ toDev[1] # Script[ExecPdl]
      BY <3>1, FrameFacts
    <3>3. InBsl /\ toDev[1] = Script[at] /\ at \in 1 .. ScriptLen /\ at > ExecPdl
      BY <2>3, <3>2, HeadFacts
    <3>4. Fdl2 > 0 /\ at = ExecBsl
      BY <3>1, <3>3, CommandFacts, Indices
    <3>5. RamBefore(at)
      BY <2>3, <3>3 DEF BringUpInv, RamInv
    <3> QED
      BY <3>4, <3>5 DEF RamBefore
  <2> QED
    BY <2>1, <2>2, <2>3 DEF LoaderInStep
<1> QED
  BY <1>1, BringUpInvariant, PTL
====

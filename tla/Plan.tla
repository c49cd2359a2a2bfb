---- MODULE Plan ----
(***************************************************************************)
(* The flash plan of a PAC (crates/sprdflash-core/src/plan.rs): which      *)
(* entries are loaders, payload partitions, format erases and data-bearing *)
(* markers, each list in PAC order.                                        *)
(*                                                                         *)
(* An entry is [id, address, size].  The names the code compares an id     *)
(* with, whatever the case of its letters, are sets of ids.                *)
(***************************************************************************)
EXTENDS Naturals, Sequences, FiniteSets

CONSTANTS Pac,           \* the entries of the PAC, in its order
          LogicalBase,   \* LOGICAL_ADDRESS_BASE
          FdlPrefixed,   \* ids that begin with FDL or HOST_FDL
          Fdl2Prefixed,  \* ids that begin with FDL2, which begin with FDL too
          FormatNames    \* the ids erase_param knows: FMT_FSSYS and FLASH

PacEntries == [id : STRING, address : Nat, size : Nat]

ASSUME PlanAssumption ==
    /\ Pac \in Seq(PacEntries)
    /\ \A i, j \in DOMAIN Pac : Pac[i].id = Pac[j].id => i = j
    /\ LogicalBase \in Nat \ {0}
    /\ Fdl2Prefixed \subseteq FdlPrefixed
    /\ FormatNames \cap FdlPrefixed = {}

Logical(e) == e.address >= LogicalBase

\* A marker is told by size and address before any name is looked at, and
\* FDL2 before the prefix it shares with FDL1.
Classify(e) ==
    IF e.size = 0 \/ e.address = 0 \/ Logical(e) THEN "marker"
    ELSE IF e.id \in Fdl2Prefixed THEN "fdl2"
    ELSE IF e.id \in FdlPrefixed THEN "fdl1"
    ELSE "flash"

\* The ids of the entries at the indices in S, in PAC order.
Nth(S, k) == CHOOSE i \in S : Cardinality({j \in S : j <= i}) = k
Ids(S) == [k \in 1 .. Cardinality(S) |-> Pac[Nth(S, k)].id]

\* Zero-size markers with a known parameter.
IsErase(e) == e.size = 0 /\ Logical(e) /\ e.id \in FormatNames

\* Two markers of one address are one erase.
Repeated(i) ==
    \E j \in 1 .. i - 1 : IsErase(Pac[j]) /\ Pac[j].address = Pac[i].address
EraseOps == Ids({i \in DOMAIN Pac : IsErase(Pac[i]) /\ ~Repeated(i)})

\* Mutant of IsData: the first logical address does not count.
IsDataAbove(e) == e.size # 0 /\ e.address > LogicalBase

IsData(e) == e.size # 0 /\ Logical(e)
DataMarkers == Ids({i \in DOMAIN Pac : IsData(Pac[i])})

\* The payloads, and the loaders, of which the first of each kind is used;
\* build fails without an FDL1.
WithRole(role) == {i \in DOMAIN Pac : Classify(Pac[i]) = role}
OfRole(role) == Ids(WithRole(role))
PlanPartitions == OfRole("flash")
Fdl1s == OfRole("fdl1")
Fdl2s == OfRole("fdl2")
Buildable == Fdl1s # << >>
====

---- MODULE PacSession ----
(***************************************************************************)
(* The session for the plan of a PAC: plan.rs and flasher.rs together.     *)
(* The constants Partitions, Erases, Markers and Size of BslSession are    *)
(* those the plan gives, and Overlaps is what the addresses say.           *)
(***************************************************************************)
EXTENDS BslSession, Plan

\* A payload occupies its size from its address on; a logical address names a
\* region, whatever is written there.
Overlapping(e, f) ==
    IF Logical(e) \/ Logical(f) THEN e.address = f.address
    ELSE e.address < f.address + f.size /\ f.address < e.address + e.size

PacOverlaps ==
    {p \in Entries \X Entries :
        /\ p[1] # p[2]
        /\ \E i, j \in DOMAIN Pac :
              Pac[i].id = p[1] /\ Pac[j].id = p[2] /\ Overlapping(Pac[i], Pac[j])}

ASSUME PlanOfPac ==
    /\ Buildable
    /\ Partitions = PlanPartitions
    /\ Erases = EraseOps
    /\ Markers = DataMarkers
    /\ Overlaps = PacOverlaps

\* What the PAC wants of the flash, said of its entries and not of the plan.
Loader(e) == e.id \in FdlPrefixed /\ ~Logical(e)
Wanted(e) == e.size > 0 /\ e.address > 0 /\ ~Loader(e) /\ (Logical(e) => Format)
Erasable(e) == Format /\ e.size = 0 /\ Logical(e) /\ e.id \in FormatNames
Reaches(e, f) == f.address = e.address /\ f.id \in Entries

\* After an Ok every entry of the PAC that carries data, but for the loaders,
\* is in the plan and on the flash as the PAC has it, and with --format the
\* address of every format marker is erased, by its own or an earlier marker's
\* erase (plan.rs:4-17, 39-108 with Flasher::run): no entry falls between the
\* lists of the plan.  What a later operation of the plan overlaps is excepted.
PacIsFlashed ==
    outcome = "ok" =>
        \A i \in DOMAIN Pac :
            /\ Wanted(Pac[i]) => /\ Pac[i].id \in Entries
                                 /\ Kept(Pac[i].id) => flash[Pac[i].id] = Image(Pac[i].id)
            /\ Erasable(Pac[i]) =>
                   \E j \in DOMAIN Pac :
                       /\ Reaches(Pac[i], Pac[j])
                       /\ Kept(Pac[j].id) => flash[Pac[j].id] = << >>
====

---- MODULE MCBslSession ----
(***************************************************************************)
(* A small PAC, with the markers of a real one, for the runs of            *)
(* BslSession.  FLASH has the address of FMT_FSSYS here, so that one of    *)
(* the two erases is left out, and PREPACK the lowest logical address.     *)
(* AP takes the last unit of BOOT, and PS begins where AP ends.            *)
(***************************************************************************)
EXTENDS PacSession

PacEntry(id, address, size) == [id |-> id, address |-> address, size |-> size]

MCPac == <<
    PacEntry("HOST_FDL", 10, 2), PacEntry("FDL2", 12, 3),
    PacEntry("BOOT", 59, 2), PacEntry("AP", 60, 5), PacEntry("PS", 65, 2),
    PacEntry("PhaseCheck", 102, 0), PacEntry("FMT_FSSYS", 106, 0),
    PacEntry("FMT_FSEXT", 106, 0), PacEntry("FLASH", 106, 0),
    PacEntry("NV", 103, 3), PacEntry("PREPACK", 100, 1) >>
MCSize == [e \in Entries |-> (CHOOSE p \in {Pac[i] : i \in DOMAIN Pac} : p.id = e).size]

MCFdlPrefixed == {"HOST_FDL", "FDL2"}
MCFdl2Prefixed == {"FDL2"}
MCFormatNames == {"FMT_FSSYS", "FLASH"}
====

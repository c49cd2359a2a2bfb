---- MODULE MCBringUp ----
(* Every state a module may be found in, with every way of calling the flash. *)
EXTENDS BringUp

Situations(starts, faults) ==
    {c \in [explicit : BOOLEAN, enter : BOOLEAN, bootable : BOOLEAN, start : starts,
            faults : faults] : c.start = "app" => c.bootable}

\* Each fault by itself, and losses together with late replies.
MCConfigs ==
    Situations({"app", "pdl", "fdl1", "fdl2"},
               {{}, {"loss", "late"}} \cup {{f} : f \in AllFaults})
====

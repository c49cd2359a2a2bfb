---- MODULE FlashJob ----
(***************************************************************************)
(* What a flash session promises to the caller of Flasher::run, with the   *)
(* link, the chunking and the retries left out.  A job is a sequence of    *)
(* entries.  The device may rewrite the entry being worked on any number   *)
(* of times, well or badly, and no other but those that overlap it; an     *)
(* entry is confirmed only while the device holds it as wanted; the job    *)
(* succeeds only with every entry confirmed; the module is rebooted only   *)
(* after it has succeeded.                                                 *)
(***************************************************************************)
EXTENDS Naturals, Sequences

CONSTANTS Job,       \* the entries, in the order they are written
          Overlaps   \* the pairs <<e, f>> where what is written of e may spoil f

VARIABLES
    confirmed,  \* how many entries, from the first, are known to be written
    good,       \* for each entry, whether the device holds what is wanted
    outcome,    \* "running", "ok" or "err": what run() has returned
    rebooted    \* whether the module has left download mode

jobVars == <<confirmed, good, outcome, rebooted>>

Entries == {Job[i] : i \in DOMAIN Job}

Init ==
    /\ confirmed = 0
    /\ good \in [Entries -> BOOLEAN]
    /\ outcome = "running"
    /\ rebooted = FALSE

Current == Job[confirmed + 1]

\* The device rewrites the entry being worked on, also after the host gave up.
Write ==
    /\ outcome # "ok"
    /\ confirmed < Len(Job)
    /\ good' \in [Entries -> BOOLEAN]
    /\ \A e \in Entries \ {Current} : <<Current, e>> \notin Overlaps => good'[e] = good[e]
    /\ UNCHANGED <<confirmed, outcome, rebooted>>

Confirm ==
    /\ outcome = "running"
    /\ confirmed < Len(Job)
    /\ good[Current]
    /\ confirmed' = confirmed + 1
    /\ UNCHANGED <<good, outcome, rebooted>>

Succeed ==
    /\ outcome = "running"
    /\ confirmed = Len(Job)
    /\ outcome' = "ok"
    /\ UNCHANGED <<confirmed, good, rebooted>>

\* Also with every entry confirmed: the reboot command may not reach the device.
Fail ==
    /\ outcome = "running"
    /\ outcome' = "err"
    /\ UNCHANGED <<confirmed, good, rebooted>>

Reboot ==
    /\ outcome = "ok"
    /\ rebooted' = TRUE
    /\ UNCHANGED <<confirmed, good, outcome>>

Next == Write \/ Confirm \/ Succeed \/ Fail \/ Reboot

Spec == Init /\ [][Next]_jobVars
====

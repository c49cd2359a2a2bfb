---- MODULE MCFlashDump ----
(* Flash lengths on, below and above block boundaries, and beyond the cap. *)
EXTENDS FlashDump

MCChips == 0 .. 20
====

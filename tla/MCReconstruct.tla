---- MODULE MCReconstruct ----
(* Images of four blocks and a part of a fifth for Reconstruct. *)
EXTENDS Reconstruct

MCLengths == {16, 18}
MCImageSizes == {1, 6, 8}
MCPacks == {2}
MCGens == {1, 2}
====

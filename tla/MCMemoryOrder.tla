--------------------------- MODULE MCMemoryOrder ---------------------------
(***************************************************************************)
(* All the programs of MemoryOrder for TLC, with short loops.              *)
(***************************************************************************)
EXTENDS MemoryOrder

AllPrograms == DOMAIN Code
=============================================================================

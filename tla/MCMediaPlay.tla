---------------------------- MODULE MCMediaPlay ----------------------------
(* A small instance of MediaPlay for TLC.  Ports are only compared. *)
EXTENDS MediaPlay, TLC
Ports == Permutations(Port)
=============================================================================

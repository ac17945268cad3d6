---------------------------- MODULE MCSharedRam ----------------------------
(* Instances of SharedRam for TLC. *)
EXTENDS SharedRam
=============================================================================

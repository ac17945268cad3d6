------------------------ MODULE MCMultiMasterBusMux ------------------------
(* Instances of MultiMasterBusMux for TLC. *)
EXTENDS MultiMasterBusMux
=============================================================================

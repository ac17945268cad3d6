------------------------------ MODULE MCWrBuf ------------------------------
(* An instance of WrBuf for TLC. *)
EXTENDS WrBuf
=============================================================================

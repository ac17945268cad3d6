--------------------------- MODULE MCAsyncBusAcc ---------------------------
(* Instances of AsyncBusAcc for TLC. *)
EXTENDS AsyncBusAcc
=============================================================================

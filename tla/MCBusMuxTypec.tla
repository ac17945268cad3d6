--------------------------- MODULE MCBusMuxTypec ---------------------------
(* Instances of BusMuxTypec for TLC. *)
EXTENDS BusMuxTypec

Dma(en, b32, b16, grp) ==
  [en |-> en, wr |-> FALSE, burst32 |-> b32, burst16 |-> b16, bgrp |-> grp,
   left |-> IF b32 THEN LongLen - 1 ELSE IF b16 THEN ShortLen - 1 ELSE 0]

\* A short burst, a word inside a burst group, and a group that pauses.
MixedDma == {DmaQuiet, Dma(FALSE, FALSE, FALSE, TRUE), Dma(TRUE, FALSE, TRUE, FALSE)}
WordDma == {DmaQuiet, Dma(TRUE, FALSE, FALSE, FALSE)}
=============================================================================

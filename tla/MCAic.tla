------------------------------- MODULE MCAic -------------------------------
(* Instances of Aic for TLC: two lines. *)
EXTENDS Aic

Both(a, b) == [i \in Lines |-> IF i = 0 THEN a ELSE b]
\* Both off, and line 0 above line 1.
AllOrNothing == {Both(0, 0), Both(2, 1)}
\* Both on, and line 1 switched off.
OneByOne == {Both(1, 2), Both(1, 0)}
=============================================================================

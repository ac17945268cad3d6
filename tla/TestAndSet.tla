----------------------------- MODULE TestAndSet -----------------------------
(***************************************************************************)
(* What the locked sections of the shared RAM are for: the TAS.B of a cpu  *)
(* is one step, in which it looks at the lock byte and sets it.  Who found *)
(* it clear holds the lock, until it clears the byte.                      *)
(***************************************************************************)
CONSTANT Cpus

VARIABLES
  taken,  \* the lock byte
  holds   \* the cpus that hold the lock

Init == taken = FALSE /\ holds = {}

Tas(i) ==
  /\ i \notin holds
  /\ taken' = TRUE
  /\ holds' = IF taken THEN holds ELSE holds \cup {i}

Clear(i) == i \in holds /\ taken' = FALSE /\ holds' = holds \ {i}

Next == \E i \in Cpus : Tas(i) \/ Clear(i)
Spec == Init /\ [][Next]_<<taken, holds>>
=============================================================================

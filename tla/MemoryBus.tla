----------------------------- MODULE MemoryBus -----------------------------
(***************************************************************************)
(* What one master of a cpu_data bus is promised: it holds a request until *)
(* its acknowledge, the request takes effect once, and a read returns what *)
(* the last write to the address left there.                               *)
(***************************************************************************)
CONSTANTS Addr, Value, Zero  \* Zero \in Value, see WrBuf

VARIABLES
  a,     \* what the master drives
  cell,  \* the memory as the master sees it
  reply  \* the data of the last acknowledged read

Access == [wr : BOOLEAN, a : Addr, d : Value]
\* A read drives no data (x"00000000" in the buffer's entries).
Accesses == {x \in Access : ~x.wr => x.d = Zero}
Idle == [en |-> FALSE]
Request == {[en |-> TRUE, acc |-> x] : x \in Accesses}
Drives == {Idle} \cup Request

Init == a = Idle /\ cell = [x \in Addr |-> Zero] /\ reply = Zero

Issue == ~a.en /\ a' \in Drives /\ UNCHANGED <<cell, reply>>

Complete ==
  /\ a.en
  /\ a' \in Drives
  /\ IF a.acc.wr
       THEN cell' = [cell EXCEPT ![a.acc.a] = a.acc.d] /\ UNCHANGED reply
       ELSE reply' = cell[a.acc.a] /\ UNCHANGED cell

Next == Issue \/ Complete
Spec == Init /\ [][Next]_<<a, cell, reply>>
=============================================================================

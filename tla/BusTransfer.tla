----------------------------- MODULE BusTransfer -----------------------------
(***************************************************************************)
(* What a bridge between a bus master and a bus slave promises: the slave  *)
(* does the access that the master holds, once, and the master is then     *)
(* acknowledged, with the data that the slave answered a read with.        *)
(***************************************************************************)
EXTENDS Sequences

CONSTANTS
  Access,  \* what a master may drive: records with the fields en and wr
  Idle,    \* what it drives without a request
  Data

VARIABLES
  req,     \* what the master drives
  served,  \* the accesses that the slave has done for it
  answer,  \* the data of the slave's last answer
  data     \* the data that the master would be given now

Drives == {Idle} \cup {x \in Access : x.en}

Init == req = Idle /\ served = <<>> /\ answer \in Data

Issue == ~req.en /\ req' \in Drives /\ UNCHANGED <<served, answer>>

Serve ==
  /\ req.en /\ served = <<>>
  /\ served' = <<req>> /\ answer' \in Data
  /\ UNCHANGED req

Complete ==
  /\ req.en /\ served = <<req>>
  /\ ~req.wr => data = answer
  /\ req' \in Drives /\ served' = <<>>
  /\ UNCHANGED answer

Next == Issue \/ Serve \/ Complete
Spec == Init /\ [][Next]_<<req, served, answer>>
=============================================================================

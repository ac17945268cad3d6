---------------------------- MODULE AsyncBusAcc ----------------------------
(***************************************************************************)
(* The bridge between a bus master on clock A and a bus slave on clock B   *)
(* (async_busacc).  The two sides own one bit each: A asks by making the   *)
(* bits differ, B answers by making them equal again, and each side looks  *)
(* at the comparison through two registers (METASTABLE, STABLE).  The      *)
(* access and the read data cross beside the bits, without a handshake of  *)
(* their own.                                                              *)
(*                                                                         *)
(* The clocks are independent: an edge of A, an edge of B, or both at      *)
(* once.  When a register samples the other side at the moment it changes, *)
(* a bit is the old or the new one and a word is anything.                 *)
(***************************************************************************)
EXTENDS Naturals, Sequences

CONSTANTS
  Data,       \* what tells accesses, and read data, apart
  NullData,   \* the data of NULL_DATA_O
  MaxA, MaxB  \* edges of one clock from one edge of the other to the next, both included
ASSUME DataAssumption == NullData \in Data
ASSUME RatioAssumption == MaxA \in Nat \ {0} /\ MaxB \in Nat \ {0}

Access == [en : BOOLEAN, wr : BOOLEAN, d : Data]
Null == [en |-> FALSE, wr |-> FALSE, d |-> NullData]

VARIABLES
  db_a_o,              \* what the master drives
  aV, aM, aS,          \* thisa.en0: VALUE, METASTABLE, STABLE
  dbV,                 \* thisa.db0(VALUE)
  dtM, dtS,            \* thisa.dt0
  en_pre, en_pre_del1, en_return, a_ack, ack_1del,
  bV, bM, bS,          \* thisb.en0
  dbM, dbS,            \* thisb.db0
  dtV,                 \* thisb.dt0(VALUE)
  state, en_1del, b_ack,
  runA, runB,          \* edges of A since the last one of B (included), and the reverse
  warm,                \* B's pipeline has seen an edge that found the bits equal
  served, answer       \* what the slave did for the master's request, data of the last

sideA == <<db_a_o, aV, aM, aS, dbV, dtM, dtS, en_pre, en_pre_del1, en_return, a_ack, ack_1del>>
sideB == <<bV, bM, bS, dbM, dbS, dtV, state, en_1del, b_ack>>
vars == <<sideA, sideB, runA, runB, warm, served, answer>>

Init ==
  /\ db_a_o = Null
  /\ aV = FALSE /\ aM = FALSE /\ aS = FALSE /\ dbV = Null /\ dtM = NullData /\ dtS = NullData
  /\ en_pre = FALSE /\ en_pre_del1 = FALSE /\ en_return = FALSE
  /\ a_ack = FALSE /\ ack_1del = FALSE
  /\ bV = FALSE /\ bM = FALSE /\ bS = FALSE /\ dbM = Null /\ dbS = Null /\ dtV = NullData
  /\ state = "IDLE" /\ en_1del = FALSE /\ b_ack = FALSE
  /\ runA = 0 /\ runB = 0 /\ warm = FALSE /\ served = <<>> /\ answer = NullData

\* What a register may hold after it sampled a signal that goes from old to new.
Bit(old, new) == {old, new}
Word(old, new, All) == IF old = new THEN {old} ELSE All

-----------------------------------------------------------------------------
(* Clock A.                                                                *)

\* Mutant: the acknowledge overtakes the data.
AckedEarly == ~aM /\ aS
\* db_a_i.ack: the comparison, as A sees it, has just become equal.
Acked == ~aS /\ en_return

\* Mutant: the request after an acknowledge is not held back.
LaunchEager == en_pre /\ (~en_pre_del1 \/ a_ack)
\* Mutant: a request that follows the last one directly is not sent.
LaunchFirst == en_pre /\ ~en_pre_del1
\* The access sampled in the cycle before is a new one: the line was low, or the
\* acknowledge was two cycles ago.
Launch == en_pre /\ (~en_pre_del1 \/ ack_1del)

\* The registers of B come out of reset as if a request were pending, so that they
\* take no notice of one: the master makes its first access after they have settled.

\* The rising edge of A.  other, mine: bV as sampled for the comparison and for the
\* flancter; word: dtV as sampled.
EdgeOfA(other, mine, word) ==
  /\ a_ack' = Acked /\ ack_1del' = a_ack
  /\ en_return' = aS /\ aS' = aM /\ aM' = (other # aV)
  /\ dtS' = dtM /\ dtM' = word
  /\ aV' = IF Launch THEN ~mine ELSE aV
  /\ dbV' = db_a_o /\ en_pre' = db_a_o.en /\ en_pre_del1' = en_pre
  /\ IF db_a_o.en /\ ~Acked THEN db_a_o' = db_a_o
     ELSE db_a_o' \in {Null} \cup {x \in Access : x.en /\ warm}

-----------------------------------------------------------------------------
(* Clock B.                                                                *)

Start == en_1del /\ ~bS
\* db_b_o.en
Presented == Start \/ state = "IN_CYCLE"

\* Mutant: a read is answered as early as a write.
ReturnEarly(ack) == ack
\* A read is answered one cycle after its data was taken, a write at once.
Return(ack) == IF dbS.wr THEN ack ELSE b_ack

\* Mutant: the access is presented again until the answer is seen.
NextStateAgain(ack) == IF ~bS /\ ~ack THEN "IN_CYCLE" ELSE "IDLE"
NextState(ack) == IF Presented /\ ~ack THEN "IN_CYCLE" ELSE "IDLE"

\* The rising edge of B; ack and d are what the slave drives in the cycle it ends.
EdgeOfB(other, theirs, word, ack, d) ==
  /\ ack => Presented
  /\ state' = NextState(ack)
  /\ en_1del' = bS /\ bS' = bM /\ bM' = (bV = other)
  /\ dbS' = dbM /\ dbM' = word
  /\ bV' = IF Return(ack) THEN theirs ELSE bV
  /\ dtV' = IF ack THEN d ELSE dtV
  /\ b_ack' = ack

-----------------------------------------------------------------------------

\* The bookkeeping of the slave's accesses per request of the master (two at most).
Count(new, ack, d) ==
  /\ warm' = (warm \/ en_1del)
  /\ LET kept == IF new THEN <<>> ELSE served
     IN  served' = IF ack /\ Len(kept) < 2 THEN Append(kept, dbS) ELSE kept
  /\ answer' = IF ack THEN d ELSE answer

ClockA ==
  /\ runA < MaxA
  /\ EdgeOfA(bV, bV, dtV)
  /\ Count(~db_a_o.en \/ Acked, FALSE, NullData)
  /\ runA' = runA + 1 /\ runB' = 0
  /\ UNCHANGED sideB

\* The slave drives data with its acknowledge.
Driven(ack) == IF ack THEN Data ELSE {NullData}

ClockB(ack) ==
  /\ runB < MaxB
  /\ \E d \in Driven(ack) : EdgeOfB(aV, aV, dbV, ack, d) /\ Count(FALSE, ack, d)
  /\ runB' = runB + 1 /\ runA' = 0
  /\ UNCHANGED sideA

\* Both edges at once: what one side changes, the other samples old, new or mixed.
ClockBoth(ack) ==
  /\ \E d \in Driven(ack), am, at, bm, bt \in BOOLEAN :
       /\ \E word \in Word(dtV, IF ack THEN d ELSE dtV, Data) : EdgeOfA(am, at, word)
       /\ \E word \in Word(dbV, db_a_o, Access) : EdgeOfB(bm, bt, word, ack, d)
       /\ {am, at} \subseteq {bV, bV'} /\ {bm, bt} \subseteq {aV, aV'}
       /\ Count(~db_a_o.en \/ Acked, ack, d)
  /\ runA < MaxA /\ runB < MaxB
  /\ runA' = 1 /\ runB' = 1

SlaveAcks == ClockB(TRUE) \/ ClockBoth(TRUE)
SlaveWaits == ClockB(FALSE) \/ ClockBoth(FALSE)
Next == ClockA \/ SlaveAcks \/ SlaveWaits
Spec == Init /\ [][Next]_vars

\* Both clocks run (a stopped one stops the other by MaxA, MaxB) and the slave
\* answers in the end.
Answers == []<>(~Presented \/ b_ack)
FairSpec == Spec /\ WF_vars(Next) /\ Answers

-----------------------------------------------------------------------------

\* The slave is shown the access that the master holds, never a mixture of it and
\* an older one, and never an access that it has already done.
ShownOnce == Presented => dbS = db_a_o /\ served = <<>>

\* An acknowledge of the master means that the slave has done its access, and the
\* data of a read is what the slave answered.
AckIsAnswer ==
  Acked => /\ db_a_o.en /\ served = <<db_a_o>>
           /\ ~db_a_o.wr => dtS = answer

\* The two bits of a flancter must not move together: A asks only when the bits
\* are equal, B answers only when they differ.
Flancter ==
  [][/\ aV' # aV => aV = bV
     /\ bV' # bV => aV # bV]_vars

\* The bridge is a transfer of the master's access to the slave and of the answer
\* back, in the order of BusTransfer (async_busacc).
Transfer == INSTANCE BusTransfer WITH
  Idle <- Null, req <- db_a_o, data <- dtS
OneTransfer == Transfer!Spec

\* Every request is acknowledged.
EveryRequestAcked == db_a_o.en ~> Acked
=============================================================================

-------------------------- MODULE AsyncBusAccProofs --------------------------
(***************************************************************************)
(* What the bridge between two clocks guarantees, proved for every ratio   *)
(* of the clocks, whatever MaxA and MaxB are: the slave is shown each      *)
(* access of the master once and whole, an acknowledge comes after the     *)
(* slave's and with its data, and the two bits never move together.        *)
(***************************************************************************)
EXTENDS AsyncBusAcc, TLAPS

TypeOK ==
  /\ db_a_o \in Access /\ dbV \in Access /\ dbM \in Access /\ dbS \in Access
  /\ dtM \in Data /\ dtS \in Data /\ dtV \in Data
  /\ aV \in BOOLEAN /\ aM \in BOOLEAN /\ aS \in BOOLEAN
  /\ en_pre \in BOOLEAN /\ en_pre_del1 \in BOOLEAN /\ en_return \in BOOLEAN
  /\ a_ack \in BOOLEAN /\ ack_1del \in BOOLEAN
  /\ bV \in BOOLEAN /\ bM \in BOOLEAN /\ bS \in BOOLEAN
  /\ state \in {"IDLE", "IN_CYCLE"} /\ en_1del \in BOOLEAN /\ b_ack \in BOOLEAN

\* The request that the master holds has been sent: en has been up for two edges
\* and no acknowledge was in between.
Asked == db_a_o.en /\ en_pre /\ en_pre_del1 /\ ~a_ack /\ ~ack_1del
Pending == aV # bV

\* What is about to be sent is what the master drives, and it has crossed into
\* dbV; an acknowledge leaves a mark of two edges.
Prepared ==
  /\ en_pre /\ ~a_ack => db_a_o.en /\ dbV = db_a_o
  /\ a_ack => en_pre /\ en_pre_del1 /\ ~ack_1del
\* Without a request that was sent, nothing is under way on the side of A.
Quiet == ~Asked => ~Pending /\ ~aM /\ ~aS /\ ~en_return /\ served = <<>>
\* A falling edge of B's comparison that is still in the pipeline is a new request,
\* with its access beside it.
Noticed ==
  bS /\ ~bM => Pending /\ dbM = db_a_o /\ served = <<>> /\ ~b_ack /\ state = "IDLE"
\* What is presented is that access, and nothing else is in the pipeline.
Shown ==
  /\ Presented => /\ Pending /\ served = <<>> /\ ~bM /\ ~bS /\ ~b_ack
                  /\ dbM = db_a_o /\ dbS = db_a_o
  /\ state = "IN_CYCLE" => ~en_1del
\* In the cycle after the slave's acknowledge a read is still to be returned.
Answering ==
  b_ack => /\ ~bM /\ ~bS /\ ~en_1del /\ state = "IDLE"
           /\ ~dbS.wr => Pending /\ served = <<db_a_o>>
\* The bits are equal again once the slave has done the access, but for a read
\* that is to be returned.
Counted ==
  Asked => IF Pending THEN served = <<>> \/ (served = <<db_a_o>> /\ b_ack /\ ~dbS.wr)
           ELSE served = <<db_a_o>>
Kept == answer = dtV
\* A falling edge of A's comparison follows the data of a read.
Back ==
  /\ aS /\ ~aM => ~Pending /\ (~db_a_o.wr => dtM = dtV)
  /\ Acked => ~Pending /\ ~aM /\ (~db_a_o.wr => dtS = dtV)

IInv == /\ TypeOK /\ Prepared /\ Quiet /\ Noticed /\ Shown
        /\ Answering /\ Counted /\ Kept /\ Back

-----------------------------------------------------------------------------
(* A step, seen from each side.                                            *)

\* What a side that has an edge samples of the other one: a bit before or after its
\* change, a word as it is unless it changes.
MoveA ==
  \E other, mine \in {bV, bV'}, word \in Data :
    (dtV' = dtV => word = dtV) /\ EdgeOfA(other, mine, word)
MoveB(ack) ==
  \E other, theirs \in {aV, aV'}, word \in Access, d \in Data :
    /\ dbV' = dbV => word = dbV
    /\ EdgeOfB(other, theirs, word, ack, d)
    /\ ack => answer' = d

\* The edges of a step: of A (ma), of B (mb), with an acknowledge of the slave (ack).
Edges(ma, mb, ack) ==
  /\ IF ma THEN MoveA ELSE UNCHANGED sideA
  /\ IF mb THEN MoveB(ack) ELSE ~ack /\ UNCHANGED sideB
  /\ served' = LET kept == IF ma /\ (~db_a_o.en \/ Acked) THEN <<>> ELSE served
               IN  IF ack /\ Len(kept) < 2 THEN Append(kept, dbS) ELSE kept
  /\ ~ack => answer' = answer

LEMMA StepHasEdges ==
  ASSUME TypeOK, Next PROVE \E ma, mb, ack \in BOOLEAN : Edges(ma, mb, ack)
<1>1. CASE ClockA
  <2>1. UNCHANGED sideB BY <1>1 DEF ClockA
  <2>2. bV' = bV /\ dtV' = dtV BY <2>1 DEF sideB
  <2>3. MoveA BY <1>1, <2>2 DEF ClockA, MoveA, TypeOK
  <2>4. Edges(TRUE, FALSE, FALSE) BY <1>1, <2>1, <2>3 DEF ClockA, Edges, Count
  <2> QED BY <2>4
<1>2. ASSUME NEW ack \in BOOLEAN, ClockB(ack) PROVE \E ma, mb, a \in BOOLEAN : Edges(ma, mb, a)
  <2>1. UNCHANGED sideA BY <1>2 DEF ClockB
  <2>2. PICK d \in Driven(ack) : EdgeOfB(aV, aV, dbV, ack, d) /\ Count(FALSE, ack, d)
    BY <1>2 DEF ClockB
  <2>3. d \in Data BY DataAssumption DEF Driven
  <2>4. MoveB(ack) BY <2>2, <2>3 DEF MoveB, TypeOK, Count
  <2>5. Edges(FALSE, TRUE, ack) BY <2>1, <2>2, <2>4 DEF Edges, Count
  <2> QED BY <2>5
<1>3. ASSUME NEW ack \in BOOLEAN, ClockBoth(ack) PROVE \E ma, mb, a \in BOOLEAN : Edges(ma, mb, a)
  <2>1. PICK d \in Driven(ack), am \in BOOLEAN, at \in BOOLEAN, bm \in BOOLEAN, bt \in BOOLEAN :
          /\ \E word \in Word(dtV, IF ack THEN d ELSE dtV, Data) : EdgeOfA(am, at, word)
          /\ \E word \in Word(dbV, db_a_o, Access) : EdgeOfB(bm, bt, word, ack, d)
          /\ {am, at} \subseteq {bV, bV'} /\ {bm, bt} \subseteq {aV, aV'}
          /\ Count(~db_a_o.en \/ Acked, ack, d)
    BY <1>3 DEF ClockBoth
  <2>2. d \in Data BY DataAssumption DEF Driven
  <2>3. PICK w \in Word(dtV, IF ack THEN d ELSE dtV, Data) : EdgeOfA(am, at, w) BY <2>1
  <2>4. PICK x \in Word(dbV, db_a_o, Access) : EdgeOfB(bm, bt, x, ack, d) BY <2>1
  <2>5. dtV' = (IF ack THEN d ELSE dtV) /\ dbV' = db_a_o BY <2>3, <2>4 DEF EdgeOfA, EdgeOfB
  <2>6. w \in Data /\ (dtV' = dtV => w = dtV) BY <2>2, <2>5 DEF Word, TypeOK
  <2>7. x \in Access /\ (dbV' = dbV => x = dbV) BY <2>5 DEF Word, TypeOK
  <2>8. MoveA BY <2>1, <2>3, <2>6 DEF MoveA
  <2>9. ack => answer' = d BY <2>1 DEF Count
  <2>10. MoveB(ack) BY <2>1, <2>2, <2>4, <2>7, <2>9 DEF MoveB
  <2>11. Edges(TRUE, TRUE, ack) BY <2>1, <2>8, <2>10 DEF Edges, Count
  <2> QED BY <2>11
<1> QED BY <1>1, <1>2, <1>3 DEF Next, SlaveAcks, SlaveWaits

-----------------------------------------------------------------------------
LEMMA InitIInv == Init => IInv
<1> SUFFICES ASSUME Init PROVE IInv OBVIOUS
<1>1. Null \in Access /\ ~Null.en BY DataAssumption DEF Null, Access
<1>2. TypeOK BY <1>1, DataAssumption DEF Init, TypeOK
<1>3. ~Asked /\ ~Presented /\ ~Acked BY DEF Init, Asked, Presented, Start, Acked
<1>4. Prepared /\ Quiet /\ Noticed BY <1>3 DEF Init, Prepared, Quiet, Noticed, Pending
<1>5. Shown /\ Answering /\ Counted /\ Kept /\ Back
  BY <1>3 DEF Init, Shown, Answering, Counted, Kept, Back
<1> QED BY <1>2, <1>4, <1>5 DEF IInv

LEMMA TypeStep ==
  ASSUME TypeOK, NEW ma \in BOOLEAN, NEW mb \in BOOLEAN, NEW ack \in BOOLEAN, Edges(ma, mb, ack)
  PROVE  TypeOK'
<1>1. Null \in Access BY DataAssumption DEF Null, Access
<1>2. ASSUME NEW other \in BOOLEAN, NEW mine \in BOOLEAN, NEW word \in Data, EdgeOfA(other, mine, word)
      PROVE  /\ db_a_o' \in Access /\ dbV' \in Access /\ dtM' \in Data /\ dtS' \in Data
             /\ aV' \in BOOLEAN /\ aM' \in BOOLEAN /\ aS' \in BOOLEAN
             /\ en_pre' \in BOOLEAN /\ en_pre_del1' \in BOOLEAN /\ en_return' \in BOOLEAN
             /\ a_ack' \in BOOLEAN /\ ack_1del' \in BOOLEAN
  <2>1. db_a_o' \in Access BY <1>1, <1>2 DEF EdgeOfA, TypeOK
  <2>2. en_pre' \in BOOLEAN BY <1>2 DEF EdgeOfA, TypeOK, Access
  <2>3. a_ack' \in BOOLEAN /\ aM' \in BOOLEAN /\ aV' \in BOOLEAN BY <1>2 DEF EdgeOfA, TypeOK, Acked
  <2> QED BY <1>2, <2>1, <2>2, <2>3 DEF EdgeOfA, TypeOK
<1>3. ASSUME NEW other \in BOOLEAN, NEW theirs \in BOOLEAN, NEW word \in Access, NEW d \in Data,
             EdgeOfB(other, theirs, word, ack, d)
      PROVE  /\ dbM' \in Access /\ dbS' \in Access /\ dtV' \in Data
             /\ bV' \in BOOLEAN /\ bM' \in BOOLEAN /\ bS' \in BOOLEAN
             /\ state' \in {"IDLE", "IN_CYCLE"} /\ en_1del' \in BOOLEAN /\ b_ack' \in BOOLEAN
  BY <1>3 DEF EdgeOfB, TypeOK, NextState
<1>4. ~ma => bV \in BOOLEAN /\ aV' = aV BY DEF Edges, sideA, TypeOK
<1>5. ~mb => bV' = bV BY DEF Edges, sideB
<1>6. \A b \in {bV, bV'}, c \in {aV, aV'} : b \in BOOLEAN /\ c \in BOOLEAN
  <2>1. ma => aV' \in BOOLEAN BY DEF Edges, MoveA, EdgeOfA, TypeOK
  <2>2. mb => bV' \in BOOLEAN BY <1>4, <2>1 DEF Edges, MoveB, EdgeOfB, TypeOK
  <2> QED BY <1>4, <1>5, <2>1, <2>2 DEF TypeOK
<1>7. CASE ma /\ mb BY <1>2, <1>3, <1>6, <1>7 DEF Edges, MoveA, MoveB, TypeOK
<1>8. CASE ma /\ ~mb BY <1>2, <1>6, <1>8 DEF Edges, MoveA, sideB, TypeOK
<1>9. CASE ~ma /\ mb BY <1>3, <1>6, <1>9 DEF Edges, MoveB, sideA, TypeOK
<1>10. CASE ~ma /\ ~mb BY <1>10 DEF Edges, sideA, sideB, TypeOK
<1> QED BY <1>7, <1>8, <1>9, <1>10

\* Nothing is presented while a new request is still in the pipeline, or in the
\* cycle after the slave's acknowledge.
LEMMA Silent ==
  ASSUME IInv, bM \/ b_ack \/ bS PROVE ~Presented
BY DEF IInv, Shown, Answering, Noticed, Presented, Start

\* While a request is pending the master and its bit stand still.
LEMMA Waits ==
  ASSUME IInv, Pending, NEW ma \in BOOLEAN, NEW mb \in BOOLEAN, NEW ack \in BOOLEAN, Edges(ma, mb, ack)
  PROVE  /\ Asked /\ Asked' /\ ~Acked
         /\ aV' = aV /\ dbV = db_a_o /\ dbV' = dbV /\ db_a_o' = db_a_o
         /\ ack => Presented
         /\ served' = IF ack THEN <<db_a_o>> ELSE served
<1>1. Asked BY DEF IInv, Quiet
<1>2. ~Acked BY DEF IInv, Back
<1>3. dbV = db_a_o BY <1>1 DEF IInv, Prepared, Asked
<1>4. ~Launch BY <1>1 DEF Launch, Asked, IInv, TypeOK
<1>5. /\ Asked' /\ aV' = aV /\ dbV' = dbV /\ db_a_o' = db_a_o
  <2>1. CASE ma BY <1>1, <1>2, <1>3, <1>4, <2>1 DEF Edges, MoveA, EdgeOfA, Asked
  <2>2. CASE ~ma BY <1>1, <2>2 DEF Edges, sideA, Asked
  <2> QED BY <2>1, <2>2
<1>6. ack => Presented BY DEF Edges, MoveB, EdgeOfB
<1>7. served' = IF ack /\ Len(served) < 2 THEN Append(served, dbS) ELSE served
  BY <1>1, <1>2 DEF Edges, Asked
<1>8. ack => served = <<>> /\ dbS = db_a_o BY <1>6 DEF IInv, Shown
<1>9. Len(<<>>) < 2 /\ Append(<<>>, db_a_o) = <<db_a_o>> OBVIOUS
<1>10. served' = IF ack THEN <<db_a_o>> ELSE served BY <1>7, <1>8, <1>9
<1> QED BY <1>1, <1>2, <1>3, <1>5, <1>6, <1>10

\* While none is, B and its bit stand still.
LEMMA Rests ==
  ASSUME IInv, ~Pending, NEW ma \in BOOLEAN, NEW mb \in BOOLEAN, NEW ack \in BOOLEAN, Edges(ma, mb, ack)
  PROVE  /\ ~ack /\ bV' = bV /\ dtV' = dtV /\ state = "IDLE" /\ ~Presented
         /\ served' = IF ma /\ (~db_a_o.en \/ Acked) THEN <<>> ELSE served
<1>1. ~Presented BY DEF IInv, Shown
<1>2. ~ack BY <1>1 DEF Edges, MoveB, EdgeOfB
<1>3. b_ack => dbS.wr BY DEF IInv, Answering
<1>4. ~Return(ack) BY <1>2, <1>3 DEF Return, IInv, TypeOK
<1>5. bV' = bV /\ dtV' = dtV
  <2>1. CASE mb BY <1>2, <1>4, <2>1 DEF Edges, MoveB, EdgeOfB
  <2>2. CASE ~mb BY <2>2 DEF Edges, sideB
  <2> QED BY <2>1, <2>2
<1> QED BY <1>1, <1>2, <1>5 DEF Edges, Presented, IInv, TypeOK

\* A's bit changes when the request that is now held is sent.
LEMMA Launches ==
  ASSUME IInv, NEW ma \in BOOLEAN, NEW mb \in BOOLEAN, NEW ack \in BOOLEAN, Edges(ma, mb, ack), ~Asked
  PROVE  /\ aV' = (IF ma /\ Launch THEN ~bV ELSE aV)
         /\ ma /\ Launch => Asked' /\ Pending' /\ dbV = db_a_o /\ dbV' = dbV /\ db_a_o' = db_a_o
         /\ Asked' => ma /\ Launch
<1>1. ~Pending /\ ~Acked BY DEF IInv, Quiet, Acked
<1>2. bV' = bV BY <1>1, Rests
<1>3. aV' = (IF ma /\ Launch THEN ~bV ELSE aV)
  BY <1>2 DEF Edges, MoveA, EdgeOfA, sideA
<1>4. Launch => ~a_ack BY DEF IInv, Prepared, Launch
<1>5. ASSUME ma, Launch
      PROVE  Asked' /\ dbV = db_a_o /\ dbV' = dbV /\ db_a_o' = db_a_o
  <2>1. db_a_o.en /\ dbV = db_a_o BY <1>4, <1>5 DEF IInv, Prepared, Launch
  <2> QED BY <1>1, <1>4, <1>5, <2>1 DEF Edges, MoveA, EdgeOfA, Asked, Launch
<1>6. ma /\ Launch => Pending' BY <1>2, <1>3 DEF Pending, IInv, TypeOK
<1>7. Asked' => ma /\ Launch
  <2>1. CASE ma BY <2>1 DEF Edges, MoveA, EdgeOfA, Asked, Launch
  <2>2. CASE ~ma BY <2>2 DEF Edges, sideA, Asked
  <2> QED BY <2>1, <2>2
<1> QED BY <1>3, <1>5, <1>6, <1>7

\* B's bit changes when the slave has done the access.
LEMMA Returns ==
  ASSUME IInv, NEW ma \in BOOLEAN, NEW mb \in BOOLEAN, NEW ack \in BOOLEAN, Edges(ma, mb, ack), bV' # bV
  PROVE  /\ Pending /\ mb /\ bV' = aV
         /\ \/ ack /\ Presented /\ db_a_o.wr
            \/ ~ack /\ b_ack /\ ~dbS.wr
<1>1. Pending BY Rests
<1>2. mb BY DEF Edges, sideB
<1>3. aV' = aV BY <1>1, Waits
<1>4. Return(ack) /\ bV' = aV BY <1>2, <1>3 DEF Edges, MoveB, EdgeOfB
<1>5. ack => Presented BY <1>2 DEF Edges, MoveB, EdgeOfB
<1>6. Presented => dbS = db_a_o /\ ~b_ack BY DEF IInv, Shown
<1> QED BY <1>1, <1>2, <1>4, <1>5, <1>6 DEF Return

-----------------------------------------------------------------------------
(* The parts of the invariant, one by one.                                 *)

LEMMA PreparedStep ==
  ASSUME IInv, NEW ma \in BOOLEAN, NEW mb \in BOOLEAN, NEW ack \in BOOLEAN, Edges(ma, mb, ack)
  PROVE  Prepared'
<1>1. Acked => Asked BY DEF IInv, Quiet, Acked
<1>2. CASE ma BY <1>1, <1>2 DEF Edges, MoveA, EdgeOfA, Prepared, Asked
<1>3. CASE ~ma BY <1>3 DEF Edges, sideA, IInv, Prepared
<1> QED BY <1>2, <1>3

LEMMA QuietStep ==
  ASSUME IInv, NEW ma \in BOOLEAN, NEW mb \in BOOLEAN, NEW ack \in BOOLEAN, Edges(ma, mb, ack)
  PROVE  Quiet'
<1> SUFFICES ASSUME ~Asked' PROVE ~Pending' /\ ~aM' /\ ~aS' /\ ~en_return' /\ served' = <<>>
  BY DEF Quiet
<1>1. ~Pending BY Waits
<1>2. bV' = bV /\ served' = IF ma /\ (~db_a_o.en \/ Acked) THEN <<>> ELSE served BY <1>1, Rests
<1>3. CASE ~Asked
  <2>1. aV' = aV BY <1>3, Launches
  <2>2. ~aM /\ ~aS /\ ~en_return /\ served = <<>> BY <1>3 DEF IInv, Quiet
  <2> QED BY <1>1, <1>2, <2>1, <2>2 DEF Edges, MoveA, EdgeOfA, sideA, Pending
<1>4. CASE Asked
  <2>1. ma /\ Acked
    <3>1. CASE ~ma BY <1>4, <3>1 DEF Edges, sideA, Asked
    <3>2. CASE ma /\ ~Acked BY <1>4, <3>2 DEF Edges, MoveA, EdgeOfA, Asked
    <3> QED BY <3>1, <3>2
  <2>2. ~Launch BY <1>4 DEF Launch, Asked, IInv, TypeOK
  <2>3. ~aM /\ ~aS BY <2>1 DEF IInv, Back, Acked
  <2> QED BY <1>1, <1>2, <2>1, <2>2, <2>3 DEF Edges, MoveA, EdgeOfA, Pending
<1> QED BY <1>3, <1>4

\* A low sample of B's comparison, after a high one, and the word beside it.
LEMMA Samples ==
  ASSUME IInv, NEW ma \in BOOLEAN, NEW ack \in BOOLEAN, Edges(ma, TRUE, ack), bM, ~bM'
  PROVE  Pending' /\ dbM' = db_a_o' /\ served' = <<>> /\ ~ack /\ state' = "IDLE"
<1>1. ~Presented BY Silent
<1>2. ~ack BY <1>1 DEF Edges, MoveB, EdgeOfB
<1>3. state' = "IDLE" BY <1>1 DEF Edges, MoveB, EdgeOfB, NextState
<1>4. PICK other \in {aV, aV'}, word \in Access : /\ bM' = (bV = other) /\ dbM' = word
                                                  /\ dbV' = dbV => word = dbV
  BY DEF Edges, MoveB, EdgeOfB
<1>5. bV' = bV
  <2>1. ~b_ack BY DEF IInv, Answering
  <2> QED BY <1>2, <2>1, Returns
<1>6. CASE Pending
  <2>1. aV' = aV /\ dbV = db_a_o /\ dbV' = dbV /\ db_a_o' = db_a_o /\ served' = served /\ Asked
    BY <1>2, <1>6, Waits
  <2>2. served = <<>> BY <1>6, <2>1 DEF IInv, Counted, Answering
  <2> QED BY <1>2, <1>3, <1>4, <1>5, <1>6, <2>1, <2>2 DEF Pending
<1>7. CASE ~Pending
  <2>1. aV' # aV BY <1>4, <1>7 DEF Pending
  <2>2. ~Asked
    <3>1. Asked => ~Launch BY DEF Launch, Asked, IInv, TypeOK
    <3> QED BY <2>1, <3>1 DEF Edges, MoveA, EdgeOfA, sideA
  <2>3. Pending' /\ dbV = db_a_o /\ dbV' = dbV /\ db_a_o' = db_a_o
    BY <2>1, <2>2, Launches
  <2>4. served' = <<>> BY <1>7, <2>2, Rests DEF IInv, Quiet
  <2> QED BY <1>2, <1>3, <1>4, <2>3, <2>4
<1> QED BY <1>6, <1>7

LEMMA NoticedStep ==
  ASSUME IInv, NEW ma \in BOOLEAN, NEW mb \in BOOLEAN, NEW ack \in BOOLEAN, Edges(ma, mb, ack)
  PROVE  Noticed'
<1> SUFFICES ASSUME bS', ~bM'
             PROVE  Pending' /\ dbM' = db_a_o' /\ served' = <<>> /\ ~b_ack' /\ state' = "IDLE"
  BY DEF Noticed
<1>1. CASE mb
  <2>1. bM /\ b_ack' = ack BY <1>1 DEF Edges, MoveB, EdgeOfB
  <2>2. mb = TRUE BY <1>1
  <2> QED BY <2>1, <2>2, Samples
<1>2. CASE ~mb
  <2>1. ~ack /\ bS /\ ~bM /\ UNCHANGED sideB BY <1>2 DEF Edges, sideB
  <2>2. Pending /\ dbM = db_a_o /\ served = <<>> /\ ~b_ack /\ state = "IDLE"
    BY <2>1 DEF IInv, Noticed
  <2>3. aV' = aV /\ db_a_o' = db_a_o /\ served' = served BY <2>1, <2>2, Waits
  <2> QED BY <2>1, <2>2, <2>3 DEF sideB, Pending
<1> QED BY <1>1, <1>2

\* What an edge of B leaves while a request is pending.
LEMMA EdgeWhilePending ==
  ASSUME IInv, Pending, NEW ma \in BOOLEAN, NEW ack \in BOOLEAN, Edges(ma, TRUE, ack)
  PROVE  /\ ~bM' /\ bS' = bM /\ en_1del' = bS /\ b_ack' = ack
         /\ dbS' = dbM /\ dbM' = db_a_o
         /\ state' = NextState(ack)
<1>1. aV' = aV /\ dbV' = dbV /\ dbV = db_a_o BY Waits
<1> QED BY <1>1 DEF Edges, MoveB, EdgeOfB, Pending

LEMMA ShownStep ==
  ASSUME IInv, NEW ma \in BOOLEAN, NEW mb \in BOOLEAN, NEW ack \in BOOLEAN, Edges(ma, mb, ack)
  PROVE  Shown'
<1>1. CASE mb
  <2>1. CASE bS /\ ~bM
    <3>1. Pending /\ dbM = db_a_o /\ served = <<>> /\ ~b_ack BY <2>1 DEF IInv, Noticed
    <3>2. ~Presented BY <2>1, Silent
    <3>3. ~ack BY <1>1, <3>2 DEF Edges, MoveB, EdgeOfB
    <3>4. bV' = bV BY <3>1, <3>3, Returns
    <3>5. aV' = aV /\ db_a_o' = db_a_o /\ served' = served BY <3>1, <3>3, Waits
    <3>6. /\ ~bM' /\ bS' = bM /\ b_ack' = ack /\ dbS' = dbM /\ dbM' = db_a_o /\ state' = NextState(ack)
      BY <1>1, <3>1, EdgeWhilePending
    <3>7. state' = "IDLE" BY <3>2, <3>6 DEF NextState
    <3> QED BY <2>1, <3>1, <3>3, <3>4, <3>5, <3>6, <3>7 DEF Shown, Pending
  <2>2. CASE Presented /\ ~ack
    <3>1. Pending /\ served = <<>> /\ ~bM /\ ~bS /\ ~b_ack /\ dbM = db_a_o
      BY <2>2 DEF IInv, Shown
    <3>2. bV' = bV BY <2>2, <3>1, Returns
    <3>3. aV' = aV /\ db_a_o' = db_a_o /\ served' = served BY <2>2, <3>1, Waits
    <3>4. /\ ~bM' /\ bS' = bM /\ en_1del' = bS /\ b_ack' = ack /\ dbS' = dbM /\ dbM' = db_a_o
      BY <1>1, <3>1, EdgeWhilePending
    <3> QED BY <2>2, <3>1, <3>2, <3>3, <3>4 DEF Shown, Pending
  <2>3. CASE ~(bS /\ ~bM) /\ ~(Presented /\ ~ack)
    <3>1. state' = "IDLE" /\ en_1del' = bS /\ bS' = bM
      BY <1>1, <2>3 DEF Edges, MoveB, EdgeOfB, NextState
    <3>2. ~Presented' BY <2>3, <3>1 DEF Presented, Start, IInv, TypeOK
    <3> QED BY <3>1, <3>2 DEF Shown
  <2> QED BY <2>1, <2>2, <2>3
<1>2. CASE ~mb
  <2>1. ~ack /\ UNCHANGED sideB BY <1>2 DEF Edges
  <2>2. Presented' = Presented BY <2>1 DEF sideB, Presented, Start
  <2>3. ASSUME Presented
        PROVE  aV' = aV /\ db_a_o' = db_a_o /\ served' = served
    BY <2>1, <2>3, Waits DEF IInv, Shown
  <2> QED BY <2>1, <2>2, <2>3 DEF IInv, Shown, sideB, Pending
<1> QED BY <1>1, <1>2

LEMMA AnsweringStep ==
  ASSUME IInv, NEW ma \in BOOLEAN, NEW mb \in BOOLEAN, NEW ack \in BOOLEAN, Edges(ma, mb, ack)
  PROVE  Answering'
<1>1. CASE mb
  <2>1. b_ack' = ack /\ (ack => Presented) BY <1>1 DEF Edges, MoveB, EdgeOfB
  <2> SUFFICES ASSUME ack
               PROVE  /\ ~bM' /\ ~bS' /\ ~en_1del' /\ state' = "IDLE"
                      /\ ~dbS'.wr => Pending' /\ served' = <<db_a_o'>>
    BY <2>1 DEF Answering
  <2>2. Pending /\ ~bM /\ ~bS /\ ~b_ack /\ dbM = db_a_o /\ dbS = db_a_o
    BY <2>1 DEF IInv, Shown
  <2>3. /\ ~bM' /\ bS' = bM /\ en_1del' = bS /\ dbS' = dbM /\ state' = NextState(ack)
    BY <1>1, <2>2, EdgeWhilePending
  <2>4. aV' = aV /\ db_a_o' = db_a_o /\ served' = <<db_a_o>> BY <2>2, Waits
  <2>5. ~dbS'.wr => bV' = bV BY <2>2, <2>3, Returns
  <2> QED BY <2>2, <2>3, <2>4, <2>5 DEF NextState, Pending
<1>2. CASE ~mb
  <2>1. ~ack /\ UNCHANGED sideB BY <1>2 DEF Edges
  <2>2. ASSUME b_ack, ~dbS.wr
        PROVE  Pending' /\ served' = <<db_a_o'>>
    <3>1. Pending /\ served = <<db_a_o>> BY <2>2 DEF IInv, Answering
    <3> QED BY <2>1, <3>1, Waits DEF sideB, Pending
  <2> QED BY <2>1, <2>2 DEF IInv, Answering, sideB
<1> QED BY <1>1, <1>2

LEMMA CountedStep ==
  ASSUME IInv, NEW ma \in BOOLEAN, NEW mb \in BOOLEAN, NEW ack \in BOOLEAN, Edges(ma, mb, ack)
  PROVE  Counted'
<1> SUFFICES ASSUME Asked'
             PROVE  IF Pending' THEN served' = <<>> \/ (served' = <<db_a_o'>> /\ b_ack' /\ ~dbS'.wr)
                    ELSE served' = <<db_a_o'>>
  BY DEF Counted
<1>1. CASE Pending
  <2>1. aV' = aV /\ db_a_o' = db_a_o /\ served' = IF ack THEN <<db_a_o>> ELSE served
    BY <1>1, Waits
  <2>2. Asked BY <1>1, Waits
  <2>3. CASE ack
    <3>1. Presented BY <1>1, <2>3, Waits
    <3>2. mb = TRUE BY <2>3 DEF Edges
    <3>3. dbM = db_a_o /\ dbS = db_a_o BY <3>1 DEF IInv, Shown
    <3>4. b_ack' = ack /\ dbS' = dbM BY <1>1, <3>2, EdgeWhilePending
    <3>5. db_a_o.wr => bV' = aV BY <2>1, <2>3, <3>2, <3>3 DEF Edges, MoveB, EdgeOfB, Return
    <3> QED BY <2>1, <2>3, <3>3, <3>4, <3>5 DEF Pending
  <2>4. CASE ~ack /\ served = <<>>
    <3>1. ~(b_ack /\ ~dbS.wr) BY <2>4 DEF IInv, Answering
    <3>2. bV' = bV BY <2>4, <3>1, Returns
    <3> QED BY <1>1, <2>1, <2>4, <3>2 DEF Pending
  <2>5. CASE ~ack /\ served # <<>>
    <3>1. served = <<db_a_o>> /\ b_ack /\ ~dbS.wr BY <1>1, <2>2, <2>5 DEF IInv, Counted
    <3>2. CASE mb
      <4>1. bV' = aV BY <2>1, <2>5, <3>1, <3>2 DEF Edges, MoveB, EdgeOfB, Return
      <4> QED BY <2>1, <2>5, <3>1, <4>1 DEF Pending
    <3>3. CASE ~mb BY <2>1, <2>5, <3>1, <3>3 DEF Edges, sideB, Pending
    <3> QED BY <3>2, <3>3
  <2> QED BY <2>3, <2>4, <2>5
<1>2. CASE ~Pending /\ Asked
  <2>1. ~Launch BY <1>2 DEF Launch, Asked, IInv, TypeOK
  <2>2. bV' = bV /\ served' = IF ma /\ (~db_a_o.en \/ Acked) THEN <<>> ELSE served BY <1>2, Rests
  <2>3. CASE ma
    <3>1. ~Acked BY <2>3 DEF Edges, MoveA, EdgeOfA, Asked
    <3>2. db_a_o.en BY <1>2 DEF Asked
    <3>3. aV' = aV /\ db_a_o' = db_a_o BY <2>1, <2>3, <3>1, <3>2 DEF Edges, MoveA, EdgeOfA
    <3> QED BY <1>2, <2>2, <3>1, <3>2, <3>3 DEF Pending, IInv, Counted
  <2>4. CASE ~ma BY <1>2, <2>2, <2>4 DEF Edges, sideA, Pending, IInv, Counted
  <2> QED BY <2>3, <2>4
<1>3. CASE ~Pending /\ ~Asked
  <2>1. Pending' BY <1>3, Launches
  <2>2. served' = <<>> BY <1>3, Rests DEF IInv, Quiet
  <2> QED BY <2>1, <2>2
<1> QED BY <1>1, <1>2, <1>3

LEMMA KeptStep ==
  ASSUME IInv, NEW ma \in BOOLEAN, NEW mb \in BOOLEAN, NEW ack \in BOOLEAN, Edges(ma, mb, ack)
  PROVE  Kept'
BY DEF IInv, Kept, Edges, MoveB, EdgeOfB, sideB

\* A low sample of A's comparison, after a high one, and the word beside it.
LEMMA SamplesBack ==
  ASSUME IInv, NEW mb \in BOOLEAN, NEW ack \in BOOLEAN, Edges(TRUE, mb, ack), aM, ~aM'
  PROVE  ~Pending' /\ (~db_a_o'.wr => dtM' = dtV')
<1>1. Asked BY DEF IInv, Quiet
<1>2. ~Launch BY <1>1 DEF Launch, Asked, IInv, TypeOK
<1>3. aV' = aV BY <1>2 DEF Edges, MoveA, EdgeOfA
<1>4. ~Acked BY DEF IInv, Back
<1>5. db_a_o' = db_a_o BY <1>1, <1>4 DEF Edges, MoveA, EdgeOfA, Asked
<1>6. PICK other \in {bV, bV'}, word \in Data : /\ aM' = (other # aV) /\ dtM' = word
                                                /\ dtV' = dtV => word = dtV
  BY DEF Edges, MoveA, EdgeOfA
<1>7. CASE bV' = bV
  <2>1. ~Pending BY <1>6, <1>7 DEF Pending
  <2>2. dtV' = dtV BY <2>1, Rests
  <2> QED BY <1>3, <1>6, <1>7, <2>1, <2>2 DEF Pending
<1>8. CASE bV' # bV
  <2>1. bV' = aV BY <1>8, Returns
  <2>2. CASE db_a_o.wr BY <1>3, <1>5, <2>1, <2>2 DEF Pending
  <2>3. CASE ~db_a_o.wr
    <3>1. ~ack BY <1>8, <2>3, Returns
    <3>2. dtV' = dtV BY <3>1 DEF Edges, MoveB, EdgeOfB, sideB
    <3> QED BY <1>3, <1>6, <2>1, <3>2 DEF Pending
  <2> QED BY <2>2, <2>3
<1> QED BY <1>7, <1>8

LEMMA BackStep ==
  ASSUME IInv, NEW ma \in BOOLEAN, NEW mb \in BOOLEAN, NEW ack \in BOOLEAN, Edges(ma, mb, ack)
  PROVE  Back'
<1>1. CASE ma
  <2>1. aS' = aM /\ en_return' = aS /\ dtS' = dtM BY <1>1 DEF Edges, MoveA, EdgeOfA
  <2>2. aS' /\ ~aM' => ~Pending' /\ (~db_a_o'.wr => dtM' = dtV')
    <3>1. ma = TRUE BY <1>1
    <3> QED BY <2>1, <3>1, SamplesBack
  <2>3. ASSUME Acked' PROVE ~Pending' /\ ~aM' /\ (~db_a_o'.wr => dtS' = dtV')
    <3>1. aS /\ ~aM BY <2>1, <2>3 DEF Acked
    <3>2. ~Pending /\ (~db_a_o.wr => dtM = dtV) BY <3>1 DEF IInv, Back
    <3>3. Asked BY <3>1 DEF IInv, Quiet
    <3>4. bV' = bV /\ dtV' = dtV BY <3>2, Rests
    <3>5. ~Launch BY <3>3 DEF Launch, Asked, IInv, TypeOK
    <3>6. ~Acked BY <3>1 DEF Acked
    <3>7. aV' = aV /\ db_a_o' = db_a_o
      BY <1>1, <3>3, <3>5, <3>6 DEF Edges, MoveA, EdgeOfA, Asked
    <3>8. ~aM' BY <1>1, <3>2, <3>4 DEF Edges, MoveA, EdgeOfA, Pending
    <3> QED BY <2>1, <3>2, <3>4, <3>7, <3>8 DEF Pending
  <2> QED BY <2>2, <2>3 DEF Back
<1>2. CASE ~ma
  <2>1. UNCHANGED sideA BY <1>2 DEF Edges
  <2>2. ASSUME ~Pending PROVE bV' = bV /\ dtV' = dtV BY <2>2, Rests
  <2> QED BY <2>1, <2>2 DEF IInv, Back, sideA, Acked, Pending
<1> QED BY <1>1, <1>2

LEMMA UnchangedIInv == IInv /\ UNCHANGED vars => IInv'
BY DEF IInv, vars, sideA, sideB, TypeOK, Prepared, Quiet, Noticed, Shown, Answering, Counted, Kept, Back,
   Asked, Pending, Presented, Start, Acked

-----------------------------------------------------------------------------
\* What is under way on each side, and what is beside the bits when they change:
\* the inductive invariant of the bridge, for any two clocks (async_busacc).
THEOREM Invariance == Spec => []IInv
<1>1. IInv /\ [Next]_vars => IInv'
  <2> SUFFICES ASSUME IInv, [Next]_vars PROVE IInv' OBVIOUS
  <2>1. CASE Next
    <3>1. PICK ma \in BOOLEAN, mb \in BOOLEAN, ack \in BOOLEAN : Edges(ma, mb, ack)
      BY <2>1, StepHasEdges DEF IInv
    <3>2. TypeOK' BY <3>1, TypeStep DEF IInv
    <3>3. Prepared' /\ Quiet' BY <3>1, PreparedStep, QuietStep
    <3>4. Noticed' /\ Shown' BY <3>1, NoticedStep, ShownStep
    <3>5. Answering' /\ Counted' BY <3>1, AnsweringStep, CountedStep
    <3>6. Kept' /\ Back' BY <3>1, KeptStep, BackStep
    <3> QED BY <3>2, <3>3, <3>4, <3>5, <3>6 DEF IInv
  <2>2. CASE UNCHANGED vars BY <2>2, UnchangedIInv
  <2> QED BY <2>1, <2>2
<1> QED BY <1>1, InitIInv, PTL DEF Spec

\* The slave is shown the access that the master holds, whole, and never one that it
\* has done, for any two clocks (thisb.db0, db_b_o.en of async_busacc).
THEOREM EachShownOnce == Spec => []ShownOnce
<1>1. IInv => ShownOnce BY DEF IInv, Shown, ShownOnce
<1> QED BY <1>1, Invariance, PTL

\* An acknowledge of the master means that the slave has done the access, and comes
\* with the data of the slave's answer, for any two clocks (db_a_i of async_busacc).
THEOREM AcksAreAnswers == Spec => []AckIsAnswer
<1>1. ASSUME IInv PROVE AckIsAnswer
  <2> SUFFICES ASSUME Acked
               PROVE  db_a_o.en /\ served = <<db_a_o>> /\ (~db_a_o.wr => dtS = answer)
    BY DEF AckIsAnswer
  <2>1. Asked BY <1>1 DEF IInv, Quiet, Acked
  <2>2. ~Pending /\ (~db_a_o.wr => dtS = dtV) BY <1>1 DEF IInv, Back
  <2> QED BY <1>1, <2>1, <2>2 DEF IInv, Counted, Kept, Asked
<1> QED BY <1>1, Invariance, PTL

\* A asks only while the bits are equal and B answers only while they differ, for any
\* two clocks: no edge finds both of them changing (en0(VALUE) of async_busacc).
THEOREM BitsTakeTurns == Spec => Flancter
<1>1. ASSUME IInv, [Next]_vars
      PROVE  [/\ aV' # aV => aV = bV
              /\ bV' # bV => aV # bV]_vars
  <2>1. ASSUME Next PROVE (aV' # aV => aV = bV) /\ (bV' # bV => aV # bV)
    <3>1. PICK ma \in BOOLEAN, mb \in BOOLEAN, ack \in BOOLEAN : Edges(ma, mb, ack)
      BY <2>1, <1>1, StepHasEdges DEF IInv
    <3>2. aV' # aV => ~Pending BY <1>1, <3>1, Waits
    <3>3. bV' # bV => Pending BY <1>1, <3>1, Returns
    <3> QED BY <3>2, <3>3 DEF Pending
  <2> QED BY <1>1, <2>1
<1> QED BY <1>1, Invariance, PTL DEF Spec, Flancter

-----------------------------------------------------------------------------
\* A step of the bridge, as the transfer sees it.
LEMMA StepTransfers ==
  ASSUME IInv, IInv', NEW ma \in BOOLEAN, NEW mb \in BOOLEAN, NEW ack \in BOOLEAN, Edges(ma, mb, ack)
  PROVE  [Transfer!Next]_<<db_a_o, served, answer>>
<1>1. CASE Pending
  <2>1. db_a_o' = db_a_o /\ db_a_o.en /\ served' = IF ack THEN <<db_a_o>> ELSE served
    BY <1>1, Waits DEF Asked
  <2>2. CASE ack
    <3>1. Presented BY <1>1, <2>2, Waits
    <3>2. served = <<>> BY <3>1 DEF IInv, Shown
    <3>3. answer' \in Data BY DEF IInv, Kept, TypeOK
    <3>4. Transfer!Serve BY <2>1, <2>2, <3>2, <3>3 DEF Transfer!Serve
    <3> QED BY <3>4 DEF Transfer!Next
  <2>3. CASE ~ack BY <2>1, <2>3 DEF Edges
  <2> QED BY <2>2, <2>3
<1>2. CASE ~Pending
  <2>1. answer' = answer /\ served' = IF ma /\ (~db_a_o.en \/ Acked) THEN <<>> ELSE served
    BY <1>2, Rests DEF Edges
  <2>2. CASE ma /\ (~db_a_o.en \/ Acked)
    <3>1. db_a_o' \in Transfer!Drives BY <2>2 DEF Edges, MoveA, EdgeOfA, Transfer!Drives
    <3>2. CASE ~db_a_o.en
      <4>1. served = <<>> BY <3>2 DEF IInv, Quiet, Asked
      <4>2. Transfer!Issue BY <2>1, <2>2, <3>1, <3>2, <4>1 DEF Transfer!Issue
      <4> QED BY <4>2 DEF Transfer!Next
    <3>3. CASE db_a_o.en
      <4>1. Acked BY <2>2, <3>3
      <4>2. Asked BY <4>1 DEF IInv, Quiet, Acked
      <4>3. served = <<db_a_o>> BY <1>2, <4>2 DEF IInv, Counted
      <4>4. ~db_a_o.wr => dtS = answer BY <4>1 DEF IInv, Back, Kept
      <4>5. Transfer!Complete BY <2>1, <2>2, <3>1, <3>3, <4>3, <4>4 DEF Transfer!Complete
      <4> QED BY <4>5 DEF Transfer!Next
    <3> QED BY <3>2, <3>3
  <2>3. CASE ~(ma /\ (~db_a_o.en \/ Acked))
    <3>1. db_a_o' = db_a_o BY <2>3 DEF Edges, MoveA, EdgeOfA, sideA
    <3> QED BY <2>1, <2>3, <3>1
  <2> QED BY <2>2, <2>3
<1> QED BY <1>1, <1>2

\* The bridge implements the transfer: for any two clocks the slave does the access
\* that the master holds, once, before the acknowledge that carries its answer.
THEOREM BridgeTransfers == Spec => OneTransfer
<1>1. Init => Transfer!Init BY DataAssumption DEF Init, Transfer!Init
<1>2. ASSUME IInv, IInv', [Next]_vars PROVE [Transfer!Next]_<<db_a_o, served, answer>>
  <2>1. CASE Next
    <3>1. PICK ma \in BOOLEAN, mb \in BOOLEAN, ack \in BOOLEAN : Edges(ma, mb, ack)
      BY <2>1, <1>2, StepHasEdges DEF IInv
    <3> QED BY <1>2, <3>1, StepTransfers
  <2>2. CASE UNCHANGED vars BY <2>2 DEF vars, sideA
  <2> QED BY <1>2, <2>1, <2>2
<1> QED BY <1>1, <1>2, Invariance, PTL DEF Spec, OneTransfer, Transfer!Spec
=============================================================================

----------------------- MODULE MultiMasterBusMuxProofs -----------------------
(***************************************************************************)
(* What the arbiters between two masters guarantee in every state, proved    *)
(* for each of them: no access is shown twice, none is taken away before     *)
(* its acknowledge, and a locked section is of one master and is announced   *)
(* to the next arbiter.                                                      *)
(***************************************************************************)
EXTENDS MultiMasterBusMux, TLAPS

TypeOK ==
  /\ kind \in {"mux", "ff", "lock"}
  /\ state \in States /\ (kind # "lock" => state \in {"M1", "M2"})
  /\ slave_ack \in BOOLEAN
  /\ o \in [Masters -> Drives]
  /\ d \in [Masters -> Drive]
  /\ acked \in [Masters -> BOOLEAN]
  /\ waiting \in [who : {0, 1, 2}, req : Drive]
  /\ holder \in {0, 1, 2}

\* What the registers of "ff" still know of the requests: an access that was not
\* just acknowledged is requested now as it was before.
Lagging ==
  kind = "ff" => \A i \in Masters : /\ acked[i] => slave_ack
                                    /\ d[i].en /\ ~acked[i] => o[i] = d[i]
\* What a waiting access finds: its master still drives it, the register has it,
\* and the state is the one that keeps it selected.
Kept ==
  waiting.who # 0 =>
    /\ waiting.req.en /\ o[waiting.who] = waiting.req
    /\ ~slave_ack
    /\ kind = "ff" => d[waiting.who] = waiting.req
    /\ state = IF LockedRead(waiting.req) THEN Lock1(waiting.who) ELSE Plain(waiting.who)
\* A section is open between its accesses, in the second locked state of its
\* master, or its master has an access waiting.
Sections ==
  /\ holder # 0 => kind = "lock" /\ (state = Lock2(holder) \/ waiting.who = holder)
  /\ \A i \in Masters : state = Lock2(i) => holder = i
  /\ \A i \in Masters : state = Lock1(i) => waiting.who = i

IInv == TypeOK /\ Lagging /\ Kept /\ Sections

-----------------------------------------------------------------------------
USE DEF Masters

LEMMA Selected ==
  ASSUME TypeOK
  PROVE  /\ Sel \in Masters
         /\ kind # "lock" => ~LockedRead(o[1]) /\ ~LockedRead(o[2])
BY DEF TypeOK, Sel, SelMux, SelFF, SelLock, Drives, LockedRead

\* What is presented is the selected master's request.
LEMMA Shown ==
  ASSUME TypeOK, Lagging, Presented.en PROVE Presented = o[Sel] /\ (kind = "ff" => ~slave_ack)
<1>1. CASE kind # "ff" BY <1>1 DEF Presented
<1>2. CASE kind = "ff" /\ slave_ack
  <2>1. d[Sel] \in Drive BY Selected DEF TypeOK
  <2>2. ~[d[Sel] EXCEPT !.en = FALSE, !.wr = FALSE].en BY <2>1 DEF Drive
  <2> QED BY <1>2, <2>2 DEF Presented
<1>3. CASE kind = "ff" /\ ~slave_ack
  <2>1. Presented = d[Sel] BY <1>3 DEF Presented
  <2> QED BY <1>3, <2>1, Selected DEF Lagging
<1> QED BY <1>1, <1>2, <1>3

\* A waiting access is selected.
LEMMA WaitingSelected ==
  ASSUME TypeOK, Lagging, Kept, waiting.who # 0
  PROVE  Sel = waiting.who /\ Presented = waiting.req
<1>1. waiting.who \in Masters BY DEF TypeOK
<1>2. CASE kind = "mux"
  BY <1>1, <1>2, Selected DEF Kept, Sel, SelMux, Mutable, Presented, Plain, Lock1, TypeOK
<1>3. CASE kind = "ff"
  <2>1. ~LockedRead(waiting.req) BY <1>1, <1>3, Selected DEF Kept
  <2>2. state = Plain(waiting.who) BY <2>1 DEF Kept
  <2>3. ~acked[1] /\ ~acked[2] BY <1>3 DEF Lagging, Kept
  <2>4. Sel = waiting.who
    BY <1>1, <1>3, <2>2, <2>3 DEF Kept, Sel, SelFF, Mutable, Plain
  <2> QED BY <1>3, <2>4 DEF Presented, Kept
<1>4. CASE kind = "lock"
  <2>1. Sel = waiting.who
    BY <1>1, <1>4 DEF Kept, Sel, SelLock, SelMux, Mutable, Plain, Lock1
  <2> QED BY <1>4, <2>1 DEF Presented, Kept
<1> QED BY <1>2, <1>3, <1>4 DEF TypeOK

\* In an open section its master is selected.
LEMMA SectionSelected ==
  ASSUME TypeOK, Lagging, Kept, Sections, InSection PROVE Sel = holder
<1>1. holder \in Masters /\ kind = "lock" BY DEF InSection, Sections, TypeOK
<1>2. CASE waiting.who = holder BY <1>1, <1>2, WaitingSelected
<1>3. CASE state = Lock2(holder)
  BY <1>1, <1>3 DEF InSection, Sel, SelLock, Lock2
<1> QED BY <1>1, <1>2, <1>3 DEF Sections

-----------------------------------------------------------------------------
LEMMA InitIInv == Init => IInv
<1> SUFFICES ASSUME Init PROVE IInv OBVIOUS
<1>1. kind \in {"mux", "ff", "lock"} BY KindsAssumption DEF Init
<1>2. Quiet \in Drive /\ Quiet \in Drives BY DEF Quiet, Drive, Drives
<1>3. TypeOK BY <1>1, <1>2 DEF Init, TypeOK, Nothing, States
<1>4. Lagging /\ Kept BY DEF Init, Lagging, Kept, Nothing, Quiet
<1>5. Sections BY DEF Init, Sections, Lock1, Lock2
<1> QED BY <1>3, <1>4, <1>5 DEF IInv

\* What the masters drive after an edge.
LEMMA Held ==
  ASSUME TypeOK, NEW back \in BOOLEAN, Cycle(back)
  PROVE  /\ o' \in [Masters -> Drives']
         /\ \A i \in Masters : o[i].en /\ ~(back /\ Sel = i) => o'[i] = o[i]
<1>1. PICK x \in Drives, y \in Drives :
        /\ o[1].en /\ ~(back /\ Sel = 1) => x = o[1]
        /\ o[2].en /\ ~(back /\ Sel = 2) => y = o[2]
        /\ o' = <<x, y>>
  BY DEF Cycle
<1>2. o'[1] = x /\ o'[2] = y /\ o' \in [Masters -> Drives] BY <1>1
<1>3. Drives' = Drives BY DEF Cycle, Drives
<1> QED BY <1>1, <1>2, <1>3

LEMMA TypeStep ==
  ASSUME TypeOK, NEW back \in BOOLEAN, Cycle(back) PROVE TypeOK'
<1>1. NextState(back) \in States /\ (kind # "lock" => NextState(back) \in {"M1", "M2"})
  BY Selected DEF NextState, States, Lock1, Lock2, Plain, TypeOK
<1>2. d' \in [Masters -> Drive] /\ acked' \in [Masters -> BOOLEAN]
  BY DEF Cycle, TypeOK, Drives
<1>3. Presented \in Drive
  <2>1. o[Sel] \in Drive /\ d[Sel] \in Drive BY Selected DEF TypeOK, Drives
  <2> QED BY <2>1 DEF Presented, Drive
<1>4. waiting' \in [who : {0, 1, 2}, req : Drive]
  BY <1>3, Selected DEF Cycle, Nothing, Quiet, Drive
<1>5. holder' \in {0, 1, 2} BY Selected DEF Cycle, NextHolder, TypeOK
<1> QED BY <1>1, <1>2, <1>4, <1>5, Held DEF Cycle, TypeOK

LEMMA LaggingStep ==
  ASSUME TypeOK, NEW back \in BOOLEAN, Cycle(back) PROVE Lagging'
<1> SUFFICES ASSUME kind' = "ff", NEW i \in Masters
             PROVE  /\ acked'[i] => slave_ack'
                    /\ d'[i].en /\ ~acked'[i] => o'[i] = d'[i]
  BY DEF Lagging
<1>1. d' = o /\ acked'[i] = (back /\ Sel = i) /\ slave_ack' = back BY DEF Cycle
<1> QED BY <1>1, Held

\* The state that an unanswered access leads to.
LEMMA WaitingState ==
  ASSUME TypeOK, Lagging, Kept, Sections, Presented.en
  PROVE  NextState(FALSE) = IF LockedRead(Presented) THEN Lock1(Sel) ELSE Plain(Sel)
<1>1. Presented = o[Sel] BY Shown
<1>2. Sel \in Masters BY Selected
<1>3. CASE kind # "lock" BY <1>1, <1>2, <1>3, Selected DEF NextState
<1>4. CASE kind = "lock" /\ (state = Lock1(Sel) \/ LockedRead(o[Sel]))
  <2>1. state = Lock1(Sel) => LockedRead(o[Sel])
    BY <1>2 DEF Sections, Kept, Lock1, Plain
  <2> QED BY <1>1, <1>4, <2>1 DEF NextState
<1>5. CASE kind = "lock" /\ ~(state = Lock1(Sel) \/ LockedRead(o[Sel]))
  <2>1. ~IdleSection(Sel) BY <1>1 DEF IdleSection
  <2>2. ~(state = "M1LOCK2" /\ ~o[1].en)
    BY <1>1, <1>5 DEF Sel, SelLock
  <2> QED BY <1>1, <1>5, <2>1, <2>2 DEF NextState
<1> QED BY <1>3, <1>4, <1>5

LEMMA KeptStep ==
  ASSUME TypeOK, Lagging, Kept, Sections, NEW back \in BOOLEAN, Cycle(back) PROVE Kept'
<1> SUFFICES ASSUME waiting'.who # 0 PROVE Kept' BY DEF Kept
<1>1. Presented.en /\ ~back /\ waiting' = [who |-> Sel, req |-> Presented]
  BY DEF Cycle, Nothing
<1>2. Presented = o[Sel] /\ Sel \in Masters BY <1>1, Shown, Selected
<1>3. o'[Sel] = Presented BY <1>1, <1>2, Held
<1>4. state' = IF LockedRead(Presented) THEN Lock1(Sel) ELSE Plain(Sel)
  BY <1>1, WaitingState DEF Cycle
<1>5. kind' = "ff" => d'[Sel] = Presented BY <1>2 DEF Cycle
<1>6. ~slave_ack' BY <1>1 DEF Cycle
<1> QED BY <1>1, <1>3, <1>4, <1>5, <1>6 DEF Kept, LockedRead, Lock1, Plain

LEMMA SectionStep ==
  ASSUME TypeOK, Lagging, Kept, Sections, NEW back \in BOOLEAN, Cycle(back) PROVE Sections'
<1>0. state' = NextState(back) /\ holder' = NextHolder(back) /\ kind' = kind BY DEF Cycle
<1>1. Sel \in Masters BY Selected
<1>2. state = Lock1(Sel) => LockedRead(o[Sel])
  BY <1>1 DEF Sections, Kept, Lock1, Plain
\* An answered access opens a section or closes it.
<1>3. CASE back
  <2>1. Presented.en /\ Presented = o[Sel] BY <1>3, Shown DEF Cycle
  <2>2. CASE LockedRead(o[Sel])
    <3>1. kind = "lock" BY <1>1, <2>2, Selected
    <3>2. state' = Lock2(Sel) /\ holder' = Sel
      BY <1>0, <1>3, <2>2, <3>1 DEF NextState, NextHolder
    <3> QED BY <1>0, <1>1, <3>1, <3>2 DEF Sections, Lock1, Lock2
  <2>3. CASE ~LockedRead(o[Sel])
    <3>1. holder' = 0 BY <1>0, <1>3, <2>3 DEF NextHolder
    <3>2. ~(kind = "lock" /\ IdleSection(Sel)) BY <2>1 DEF IdleSection
    <3>3. state' \in {"M1", "M2", "M2POLL"}
      BY <1>0, <1>1, <1>2, <2>3, <3>2 DEF NextState, Plain
    <3> QED BY <3>1, <3>3 DEF Sections, Lock1, Lock2
  <2> QED BY <2>2, <2>3
\* Without an answer it waits with its access, or stays between two, or ends.
<1>4. CASE ~back /\ Presented.en
  <2>1. waiting'.who = Sel BY <1>4 DEF Cycle
  <2>2. state' = IF LockedRead(Presented) THEN Lock1(Sel) ELSE Plain(Sel)
    BY <1>0, <1>4, WaitingState
  <2>3. holder' # 0 => InSection /\ holder' = holder
    BY <1>0, <1>4 DEF NextHolder, InSection
  <2>4. holder' # 0 => holder' = Sel /\ kind = "lock"
    BY <2>3, SectionSelected DEF Sections, InSection
  <2> QED BY <1>0, <1>1, <2>1, <2>2, <2>4 DEF Sections, Lock1, Lock2, Plain
<1>5. CASE ~back /\ ~Presented.en
  <2>1. waiting.who = 0 BY <1>5, WaitingSelected DEF Kept
  <2>2. waiting'.who = 0 BY <1>5 DEF Cycle, Nothing
  <2>3. \A i \in Masters : state # Lock1(i) BY <2>1 DEF Sections
  <2>4. CASE kind # "lock"
    <3>1. state' \in {"M1", "M2"} BY <1>0, <2>4, <1>1 DEF NextState, Plain
    <3>2. holder' = 0 BY <1>0, <1>5, <2>4 DEF NextHolder, Sections
    <3> QED BY <3>1, <3>2 DEF Sections, Lock1, Lock2
  <2>5. CASE kind = "lock"
    <3>1. ~o[Sel].en BY <1>5, <2>5 DEF Presented
    <3>2. ~LockedRead(o[Sel]) BY <3>1 DEF LockedRead
    <3>3. CASE IdleSection(Sel)
      <4>1. state = Lock2(Sel) /\ o[Sel].lock /\ ~o[Sel].en BY <3>3 DEF IdleSection
      <4>2. state # "M1LOCK2" \/ o[1].lock BY <1>1, <4>1 DEF Lock2
      <4>3. state # Lock1(Sel) BY <1>1, <2>3
      <4>4. state' = state BY <1>0, <2>5, <3>2, <3>3, <4>2, <4>3 DEF NextState
      <4>5. holder = Sel BY <1>1, <4>1 DEF Sections
      <4>6. holder' = Sel BY <1>0, <1>5, <4>1, <4>5 DEF NextHolder
      <4> QED BY <1>0, <1>1, <2>5, <4>1, <4>4, <4>6 DEF Sections, Lock1, Lock2
    <3>4. CASE ~IdleSection(Sel)
      <4>1. state' \in {"M1", "M2", "M2POLL"}
        BY <1>0, <1>1, <2>3, <2>5, <3>2, <3>4 DEF NextState, Plain
      <4>2. holder' = 0
        <5>1. holder # 0 => state = Lock2(holder) /\ holder \in Masters
          BY <2>1 DEF Sections, TypeOK
        <5>2. InSection => IdleSection(Sel)
          <6> SUFFICES ASSUME InSection PROVE IdleSection(Sel) OBVIOUS
          <6>1. Sel = holder BY SectionSelected
          <6> QED BY <3>1, <5>1, <6>1 DEF InSection, IdleSection
        <5> QED BY <1>0, <1>5, <3>4, <5>2 DEF NextHolder, InSection
      <4> QED BY <4>1, <4>2 DEF Sections, Lock1, Lock2
    <3> QED BY <3>3, <3>4
  <2> QED BY <2>4, <2>5
<1> QED BY <1>3, <1>4, <1>5

LEMMA UnchangedIInv == IInv /\ UNCHANGED vars => IInv'
BY DEF IInv, vars, TypeOK, Lagging, Kept, Sections, Drives, LockedRead

-----------------------------------------------------------------------------
\* What each arbiter's registers know of the requests, of the waiting access and
\* of the open section (mN_o_1delay, state, slave_lock).
THEOREM Invariance == Spec => []IInv
<1>1. IInv /\ [Next]_vars => IInv'
  <2> SUFFICES ASSUME IInv, [Next]_vars PROVE IInv' OBVIOUS
  <2>1. ASSUME NEW back \in BOOLEAN, Cycle(back) PROVE IInv'
    BY <2>1, TypeStep, LaggingStep, KeptStep, SectionStep DEF IInv
  <2>2. CASE Next BY <2>1, <2>2 DEF Next, Acknowledge, WaitState
  <2>3. CASE UNCHANGED vars BY <2>3, UnchangedIInv
  <2> QED BY <2>2, <2>3
<1> QED BY <1>1, InitIInv, PTL DEF Spec

\* No arbiter shows the slave an access that its master no longer requests, the
\* registered one included (the acknowledge bubble of bus_muxff).
THEOREM ShownOnce == Spec => []NoRepeat
<1>1. IInv => NoRepeat BY Shown DEF IInv, NoRepeat
<1> QED BY <1>1, Invariance, PTL

\* An access stays in front of the slave until its acknowledge (m_mutable).
THEOREM RequestsStay == Spec => []StableUntilAck
<1>1. IInv => StableUntilAck BY WaitingSelected DEF IInv, StableUntilAck
<1> QED BY <1>1, Invariance, PTL

\* In a locked section only its master reaches the slave (bus_muxlock).
THEOREM SectionsExclusive == Spec => []LockExclusive
<1>1. IInv => LockExclusive BY SectionSelected DEF IInv, LockExclusive
<1> QED BY <1>1, Invariance, PTL

\* slave_lock is up throughout a section, so that the next arbiter keeps it too.
THEOREM SlaveLockKept == Spec => []SlaveLockSpans
<1>1. ASSUME IInv, InSection PROVE SlaveLock \/ (o[holder].en /\ ~LockedRead(o[holder]))
  <2>1. holder \in Masters /\ kind = "lock" BY <1>1 DEF IInv, InSection, Sections, TypeOK
  <2>2. Sel = holder BY <1>1, SectionSelected DEF IInv
  <2>3. CASE o[holder].en BY <2>1, <2>2, <2>3 DEF SlaveLock
  <2>4. CASE ~o[holder].en
    <3>1. waiting.who # holder BY <1>1, <2>1, <2>4 DEF IInv, Kept
    <3>2. IdleSection(holder) BY <1>1, <2>4, <3>1 DEF IInv, InSection, Sections, IdleSection
    <3> QED BY <2>1, <3>2 DEF SlaveLock
  <2> QED BY <2>3, <2>4
<1>2. IInv => SlaveLockSpans BY <1>1 DEF SlaveLockSpans
<1> QED BY <1>2, Invariance, PTL
=============================================================================

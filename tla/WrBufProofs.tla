---------------------------- MODULE WrBufProofs ----------------------------
(***************************************************************************)
(* Proofs about the write buffer, for every depth, address and data set:   *)
(* the FIFO does not overflow, an access is acknowledged, or waited for,   *)
(* exactly as long as it is the youngest one in the FIFO, and the buffer   *)
(* is invisible to its master.                                             *)
(*                                                                         *)
(* The argument separates the queue from the control.  QueueStep says what *)
(* a clock edge does to the queue (a push at the end, a pop at the front), *)
(* with the pointer arithmetic; the rest only uses the queue.              *)
(***************************************************************************)
EXTENDS WrBuf, TLAPS, FiniteSetTheorems

\* The flags follow the request: a write has both acknowledge flags or none, a read
\* that was pushed is waited for.
Flags ==
  /\ ~a.en => ~ack /\ ~wack /\ ~stall
  /\ Writing => ~stall /\ (ack <=> wack)
  /\ Reading => ~wack /\ (ack => stall)

\* A read is in the FIFO only as its youngest access, while it is waited for.
WritesFirst == \A k \in Nat : k + 1 < Occupancy \/ (k < Occupancy /\ ~stall) => Nth(k).wr

\* The flag rw keeps the answer to a write from ending a read.
WriteInFront ==
  /\ Reading /\ ~stall /\ Occupancy > 0 => rw
  /\ stall /\ Nth(0).wr => rw

IInv == TypeOK /\ NoOverflow /\ AckedIsQueued /\ Flags /\ WritesFirst /\ WriteInFront

-----------------------------------------------------------------------------
(* The pointers.                                                           *)

\* What the two pointers say about the number of accesses.
LEMMA Pointing ==
  ASSUME TypeOK, NoOverflow
  PROVE  /\ Occupancy \in 0..Depth
         /\ waddr = After(raddr, Occupancy)
         /\ Empty <=> Occupancy = 0
         /\ Full <=> Occupancy = Depth
         /\ Oldest = Nth(0)
<1>1. Depth \in Nat /\ Depth > 0 /\ waddr \in 0..(2 * Depth - 1) /\ raddr \in 0..(2 * Depth - 1)
  BY DepthAssumption DEF TypeOK, Pointers
<1>2. Occupancy <= Depth
  BY DEF NoOverflow
<1> QED
  BY <1>1, <1>2 DEF Occupancy, After, Empty, Full, Oldest, Nth, Slot

\* Positions of the queue that are less than Depth apart are different slots.
LEMMA Apart ==
  ASSUME NEW p \in Pointers, NEW j \in Nat, NEW k \in Nat, j < k, k <= Depth, k < j + Depth
  PROVE  /\ Slot(After(p, j)) \in Slots
         /\ Slot(After(p, k)) \in Slots
         /\ Slot(After(p, j)) # Slot(After(p, k))
BY DepthAssumption DEF Pointers, Slots, Slot, After

\* Moving a pointer by one moves every position by one.
LEMMA Shift ==
  ASSUME NEW p \in Pointers, NEW k \in Nat, k + 1 <= Depth
  PROVE  /\ Advance(p) \in Pointers
         /\ Advance(p) = After(p, 1)
         /\ After(Advance(p), k) = After(p, k + 1)
         /\ Advance(After(p, k)) = After(p, k + 1)
BY DepthAssumption DEF Pointers, Advance, After

\* A pushed access is a well-formed entry.
LEMMA Pushed == ASSUME TypeOK, Push PROVE a.acc \in Access
<1>1. a \in Request
  BY DEF TypeOK, Drives, Idle, Push
<1> QED
  BY <1>1 DEF Request, Accesses

-----------------------------------------------------------------------------
(* The queue: a clock edge takes off the front what the memory has done and *)
(* puts a new access at the end.                                            *)

Pops(back) == IF back THEN 1 ELSE 0
Pushes == IF Push THEN 1 ELSE 0
\* The k-th access after the edge.
NextNth(k) == mem'[Slot(After(raddr', k))]

LEMMA Primed ==
  /\ \A k \in Nat : Nth(k)' = NextNth(k)
  /\ Nth(Occupancy - 1)' = NextNth(Occupancy' - 1)
BY DEF Nth, NextNth, Slot, After

LEMMA QueueStep ==
  ASSUME TypeOK, NoOverflow, NEW back \in BOOLEAN, Cycle(back)
  PROVE  /\ Occupancy' = Occupancy + Pushes - Pops(back)
         /\ NoOverflow'
         /\ \A k \in Nat : k + Pops(back) < Occupancy => NextNth(k) = Nth(k + Pops(back))
         /\ Push => Occupancy' > 0 /\ NextNth(Occupancy' - 1) = a.acc
<1>1. /\ Depth \in Nat /\ Depth > 0 /\ waddr \in Pointers /\ raddr \in Pointers
      /\ mem \in [Slots -> Access]
  BY DepthAssumption DEF TypeOK
<1>2. /\ Occupancy \in 0..Depth /\ waddr = After(raddr, Occupancy)
      /\ Empty <=> Occupancy = 0
      /\ Full <=> Occupancy = Depth
  BY Pointing
<1>3. /\ back => Occupancy > 0
      /\ Push => Occupancy < Depth
  BY <1>1, <1>2 DEF Cycle, Push
<1>4. /\ raddr' = After(raddr, Pops(back)) /\ raddr' \in Pointers
      /\ waddr' = After(raddr, Occupancy + Pushes) /\ waddr' \in Pointers
  <2>1. raddr' = IF back THEN Advance(raddr) ELSE raddr
    BY <1>2, <1>3 DEF Cycle
  <2>2. waddr' = IF Push THEN Advance(waddr) ELSE waddr
    BY DEF Cycle
  <2>3. After(raddr, 0) = raddr /\ Advance(raddr) = After(raddr, 1) /\ Advance(raddr) \in Pointers
    BY <1>1, Shift DEF After, Pointers
  <2>4. Push => Advance(waddr) = After(raddr, Occupancy + 1) /\ Advance(waddr) \in Pointers
    <3>1. ASSUME Push PROVE Occupancy \in Nat /\ Occupancy + 1 <= Depth
      BY <1>1, <1>2, <1>3, <3>1
    <3> QED
      BY <1>1, <1>2, <3>1, Shift
  <2> QED
    BY <1>1, <1>2, <2>1, <2>2, <2>3, <2>4 DEF Pops, Pushes
<1>5. Occupancy' = Occupancy + Pushes - Pops(back)
  BY <1>1, <1>2, <1>3, <1>4 DEF Occupancy, After, Pointers, Pops, Pushes
<1>6. Occupancy' \in 0..Depth
  BY <1>1, <1>2, <1>3, <1>5 DEF Pops, Pushes
<1>7. ASSUME NEW k \in Nat, k + Pops(back) <= Depth
      PROVE  After(raddr', k) = After(raddr, k + Pops(back))
  BY <1>1, <1>4, <1>7 DEF After, Pops, Pointers
<1>8. mem' = IF Push THEN [mem EXCEPT ![Slot(waddr)] = a.acc] ELSE mem
  BY DEF Cycle
<1>9. ASSUME NEW k \in Nat, k + Pops(back) < Occupancy
      PROVE  NextNth(k) = Nth(k + Pops(back))
  <2> DEFINE p == After(raddr, k + Pops(back))
  <2>1. k + Pops(back) \in Nat /\ k + Pops(back) < Depth
    BY <1>1, <1>2, <1>9 DEF Pops
  <2>2. After(raddr', k) = p
    <3>1. k + Pops(back) <= Depth
      BY <1>1, <2>1
    <3> QED
      BY <1>7, <3>1
  <2>3. Push => Slot(p) # Slot(waddr) /\ Slot(p) \in Slots
    BY <1>1, <1>2, <1>3, <1>9, <2>1, Apart
  <2>4. mem'[Slot(p)] = mem[Slot(p)]
    BY <1>1, <1>8, <2>3
  <2> QED
    BY <2>2, <2>4 DEF Nth, NextNth
<1>10. ASSUME Push
       PROVE  Occupancy' > 0 /\ NextNth(Occupancy' - 1) = a.acc
  <2>1. /\ Occupancy' = Occupancy + 1 - Pops(back) /\ Occupancy' > 0
        /\ Occupancy' - 1 \in Nat /\ Occupancy' - 1 + Pops(back) = Occupancy
    BY <1>2, <1>3, <1>5, <1>10 DEF Pushes, Pops
  <2>2. After(raddr', Occupancy' - 1) = waddr
    BY <1>2, <1>7, <2>1
  <2>3. Slot(waddr) \in Slots
    BY <1>1 DEF Slot, Slots, Pointers
  <2> QED
    BY <1>1, <1>8, <1>10, <2>1, <2>2, <2>3 DEF NextNth
<1> QED
  BY <1>5, <1>6, <1>9, <1>10 DEF NoOverflow
-----------------------------------------------------------------------------
(* The control.                                                            *)

LEMMA TypeStep ==
  ASSUME TypeOK, NEW back \in BOOLEAN, Cycle(back)
  PROVE  TypeOK'
<1>1. mem' \in [Slots -> Access]
  <2>1. CASE Push
    BY <2>1, Pushed DEF TypeOK, Cycle
  <2>2. CASE ~Push
    BY <2>2 DEF TypeOK, Cycle
  <2> QED
    BY <2>1, <2>2
<1>2. waddr' \in Pointers /\ raddr' \in Pointers
  BY DepthAssumption DEF TypeOK, Cycle, Advance, Pointers
<1>3. /\ ack' \in BOOLEAN /\ wack' \in BOOLEAN
      /\ stall' \in BOOLEAN /\ rw' \in BOOLEAN
  <2>1. Oldest \in Access
    <3>1. Slot(raddr) \in Slots
      BY DepthAssumption DEF TypeOK, Pointers, Slot, Slots
    <3> QED
      BY <3>1 DEF TypeOK, Oldest
  <2>2. Oldest.wr \in BOOLEAN
    BY <2>1 DEF Access
  <2>3. /\ Push \in BOOLEAN /\ (Writing /\ ~wack /\ ~Full) \in BOOLEAN
        /\ ReadAnswer(back) \in BOOLEAN /\ (stall \/ (Reading /\ ~Full)) \in BOOLEAN
    BY DEF Push, ReadAnswer
  <2> QED
    BY <2>2, <2>3 DEF Cycle
<1>4. a' \in Drives
  BY DEF TypeOK, Cycle
<1>5. store' \in [Addr -> Value] /\ reply' \in Value
  <2>1. Oldest \in Access
    <3>1. Slot(raddr) \in Slots
      BY DepthAssumption DEF TypeOK, Pointers, Slot, Slots
    <3> QED
      BY <3>1 DEF TypeOK, Oldest
  <2>2. Oldest.a \in Addr /\ Oldest.d \in Value
    BY <2>1 DEF Access
  <2> QED
    BY <2>2 DEF TypeOK, Cycle
<1> QED
  BY <1>1, <1>2, <1>3, <1>4, <1>5 DEF TypeOK

\* What the request is, and that it lasts until it is acknowledged.
LEMMA RequestStep ==
  ASSUME IInv, NEW back \in BOOLEAN, Cycle(back)
  PROVE  /\ Writing \/ Reading \/ ~a.en
         /\ ~(Writing /\ Reading)
         /\ a.en /\ ~Acked(back) => a' = a /\ (Writing' <=> Writing) /\ (Reading' <=> Reading)
         /\ ~a.en \/ Acked(back) => ~ack' /\ ~wack' /\ ~stall'
         /\ Writing' \/ Reading' \/ ~a'.en
         /\ ~(Writing' /\ Reading')
<1>1. TypeOK /\ TypeOK'
  BY TypeStep DEF IInv
<1>2. Writing \/ Reading \/ ~a.en
  BY DEF Writing, Reading
<1>3. Writing' \/ Reading' \/ ~a'.en
  BY DEF Writing, Reading
<1>4. ~(Writing /\ Reading) /\ ~(Writing' /\ Reading')
  BY DEF Writing, Reading
<1>5. a.en /\ ~Acked(back) => a' = a
  BY DEF Cycle
<1>6. a' = a => (Writing' <=> Writing) /\ (Reading' <=> Reading)
  BY DEF Writing, Reading
<1>7. ASSUME ~a.en PROVE ~ack' /\ ~wack' /\ ~stall'
  BY <1>7 DEF IInv, Flags, Cycle, Push, Writing, Reading
<1>8. ASSUME a.en, wack PROVE ~ack' /\ ~wack' /\ ~stall'
  BY <1>8 DEF IInv, AckedIsQueued, Flags, Cycle, Push, Writing, Reading
<1>9. ASSUME a.en, stall, ReadAnswer(back) PROVE ~ack' /\ ~wack' /\ ~stall'
  BY <1>9 DEF IInv, AckedIsQueued, Flags, Cycle, Push, Writing, Reading
<1> QED
  BY <1>2, <1>3, <1>4, <1>5, <1>6, <1>7, <1>8, <1>9 DEF Acked

LEMMA StepIInv ==
  ASSUME IInv, NEW back \in BOOLEAN, Cycle(back)
  PROVE  IInv'
<1> DEFINE n == Occupancy
           m == Occupancy'
           pops == Pops(back)
<1>1. TypeOK /\ NoOverflow /\ TypeOK'
  BY TypeStep DEF IInv
<1>2. /\ n \in 0..Depth /\ (Full <=> n = Depth) /\ (Empty <=> n = 0) /\ Oldest = Nth(0)
      /\ Depth \in Nat /\ Depth > 0
  BY <1>1, Pointing, DepthAssumption
<1>3. /\ m = n + Pushes - pops /\ NoOverflow'
      /\ \A k \in Nat : k + pops < n => NextNth(k) = Nth(k + pops)
      /\ Push => m > 0 /\ NextNth(m - 1) = a.acc
  BY <1>1, QueueStep
<1>4. pops \in {0, 1} /\ (back <=> pops = 1) /\ (back => n > 0)
  BY <1>2 DEF Pops, Cycle
<1>5. /\ Push <=> a.en /\ ~ack /\ ~stall /\ n # Depth
      /\ Push => Pushes = 1
      /\ ~Push => Pushes = 0
  BY <1>2 DEF Push, Pushes
<1>6. /\ ack' <=> Push
      /\ wack' <=> Writing /\ ~wack /\ n # Depth
      /\ stall' <=> ~ReadAnswer(back) /\ (stall \/ (Reading /\ n # Depth))
      /\ rw' <=> Nth(0).wr
  BY <1>2 DEF Cycle
<1>7. ReadAnswer(back) <=> back /\ (~Nth(0).wr \/ ~rw)
  BY <1>2 DEF ReadAnswer
<1>8. /\ AckedIsQueued /\ Flags /\ WritesFirst /\ WriteInFront
      /\ Writing => a.en /\ a.acc.wr
      /\ Reading => a.en /\ ~a.acc.wr
  BY DEF IInv, Writing, Reading
<1>9. /\ n > 0 /\ ~stall => Nth(0).wr
      /\ n > 1 => Nth(0).wr
  BY <1>2, <1>8 DEF WritesFirst
\* A read that is being pushed is not answered in that cycle.
<1>10. ~stall /\ Reading => ~ReadAnswer(back)
  BY <1>4, <1>2, <1>7, <1>8, <1>9 DEF WriteInFront
<1>11. Push /\ Reading => stall'
  BY <1>5, <1>6, <1>10
\* An answer that ends a read takes the read off the queue.
<1>12. ASSUME stall, ReadAnswer(back)
       PROVE  ~Nth(0).wr /\ n = 1 /\ m = 0
  <2>1. ~Nth(0).wr /\ back
    BY <1>7, <1>8, <1>12 DEF WriteInFront
  <2>2. n = 1
    BY <1>2, <1>4, <1>9, <2>1
  <2>3. pops = 1 /\ Pushes = 0
    BY <1>4, <1>5, <1>12, <2>1
  <2>4. m = 0
    BY <1>3, <2>2, <2>3
  <2> QED
    BY <2>1, <2>2, <2>4
<1>13. /\ Writing \/ Reading \/ ~a.en
       /\ a.en /\ ~Acked(back) => a' = a /\ (Writing' <=> Writing) /\ (Reading' <=> Reading)
       /\ ~a.en \/ Acked(back) => ~ack' /\ ~wack' /\ ~stall'
       /\ Writing' \/ Reading' \/ ~a'.en
       /\ ~(Writing' /\ Reading')
  BY RequestStep
<1>14. AckedIsQueued'
  <2>1. ASSUME wack'
        PROVE  Writing' /\ ack' /\ m > 0 /\ NextNth(m - 1) = a'.acc
    <3>1. Writing /\ Push
      BY <1>5, <1>6, <1>8, <2>1 DEF Flags
    <3> QED
      BY <1>3, <1>6, <1>8, <1>13, <2>1, <3>1
  <2>2. ASSUME stall'
        PROVE  Reading' /\ m > 0 /\ NextNth(m - 1) = a'.acc
    <3>1. a.en /\ ~Acked(back) /\ a' = a /\ ~ReadAnswer(back)
      BY <1>6, <1>13, <2>2
    <3>2. CASE stall
      <4>1. Reading /\ n > 0 /\ Nth(n - 1) = a.acc /\ ~Push
        BY <1>5, <1>8, <3>2 DEF AckedIsQueued
      <4>2. pops = 1 => n > 1
        <5>1. SUFFICES ASSUME pops = 1, n = 1 PROVE FALSE
          BY <1>2, <4>1
        <5>2. ~Nth(0).wr
          BY <1>8, <4>1, <5>1
        <5> QED
          BY <1>4, <1>7, <3>1, <5>1, <5>2
      <4>3. m > 0 /\ m - 1 \in Nat /\ m - 1 + pops = n - 1
        BY <1>2, <1>3, <1>4, <1>5, <4>1, <4>2
      <4>4. NextNth(m - 1) = Nth(n - 1)
        BY <1>2, <1>3, <4>3
      <4> QED
        BY <1>13, <3>1, <4>1, <4>3, <4>4
    <3>3. CASE ~stall
      <4>1. Reading /\ Push
        BY <1>5, <1>6, <1>8, <2>2, <3>3 DEF Flags
      <4> QED
        BY <1>3, <1>13, <3>1, <4>1
    <3> QED
      BY <3>2, <3>3
  <2> QED
    BY <2>1, <2>2, Primed DEF AckedIsQueued
<1>15. Flags'
  <2>1. CASE ~a.en \/ Acked(back)
    BY <1>13, <2>1 DEF Flags
  <2>2. CASE a.en /\ ~Acked(back)
    <3>1. CASE Writing
      BY <1>5, <1>6, <1>8, <1>13, <2>2, <3>1 DEF Flags
    <3>2. CASE Reading
      BY <1>5, <1>6, <1>8, <1>11, <1>13, <2>2, <3>2 DEF Flags
    <3> QED
      BY <1>13, <2>2, <3>1, <3>2
  <2> QED
    BY <2>1, <2>2
<1>16. WritesFirst'
  <2> SUFFICES ASSUME NEW k \in Nat, k + 1 < m \/ (k < m /\ ~stall')
               PROVE  NextNth(k).wr
    BY Primed DEF WritesFirst
  <2>1. CASE k + pops < n
    <3>1. k + pops \in Nat /\ NextNth(k) = Nth(k + pops)
      BY <1>3, <1>4, <2>1
    <3>2. k + pops + 1 < n \/ ~stall
      <4>1. SUFFICES ASSUME stall PROVE k + pops + 1 < n
        OBVIOUS
      <4>2. ~Push /\ m = n - pops
        BY <1>2, <1>3, <1>4, <1>5, <4>1
      <4>3. stall'
        <5>1. SUFFICES ASSUME ReadAnswer(back) PROVE FALSE
          BY <1>6, <4>1
        <5> QED
          BY <1>12, <4>1, <5>1
      <4> QED
        BY <1>2, <1>4, <4>2, <4>3
    <3> QED
      BY <1>8, <2>1, <3>1, <3>2 DEF WritesFirst
  <2>2. CASE ~(k + pops < n)
    <3>1. Push /\ k = m - 1 /\ ~stall'
      BY <1>2, <1>3, <1>4, <1>5, <2>2
    <3>2. Writing
      BY <1>5, <1>11, <1>13, <3>1
    <3> QED
      BY <1>3, <1>8, <3>1, <3>2
  <2> QED
    BY <2>1, <2>2
<1>17. WriteInFront'
  <2>1. ASSUME Reading', ~stall', m > 0
        PROVE  rw'
    <3>1. CASE stall
      <4>1. ~ReadAnswer(back)
        BY <1>12, <2>1, <3>1
      <4> QED
        BY <1>6, <2>1, <3>1, <4>1
    <3>2. CASE ~stall /\ n > 0
      BY <1>6, <1>9, <3>2
    <3>3. CASE ~stall /\ n = 0
      <4>1. Push
        BY <1>3, <1>4, <1>5, <2>1, <3>3
      <4>2. Writing
        BY <1>5, <1>11, <1>13, <2>1, <4>1
      <4>3. ~Acked(back)
        BY <1>5, <1>8, <3>3, <4>1, <4>2 DEF Acked, Flags
      <4> QED
        BY <1>5, <1>13, <2>1, <4>1, <4>2, <4>3
    <3> QED
      BY <1>2, <3>1, <3>2, <3>3
  <2>2. ASSUME stall', NextNth(0).wr
        PROVE  rw'
    <3>1. CASE n = 0
      <4>1. ~stall /\ Reading /\ Push
        BY <1>2, <1>5, <1>6, <1>8, <2>2, <3>1 DEF AckedIsQueued, Flags
      <4>2. m = 1 /\ NextNth(0) = a.acc
        BY <1>3, <1>4, <1>5, <3>1, <4>1
      <4> QED
        BY <1>8, <2>2, <4>1, <4>2
    <3>2. CASE n > 0 /\ (n > 1 \/ ~stall)
      BY <1>6, <1>9, <3>2
    <3>3. CASE n = 1 /\ stall
      <4>1. ~Nth(0).wr
        BY <1>8, <3>3 DEF AckedIsQueued
      <4>2. pops = 0
        BY <1>4, <1>6, <1>7, <2>2, <4>1
      <4>3. NextNth(0) = Nth(0)
        BY <1>3, <3>3, <4>2
      <4> QED
        BY <2>2, <4>1, <4>3
    <3> QED
      BY <1>2, <3>1, <3>2, <3>3
  <2> QED
    BY <2>1, <2>2, Primed DEF WriteInFront
<1> QED
  BY <1>1, <1>3, <1>14, <1>15, <1>16, <1>17 DEF IInv
LEMMA InitIInv == Init => IInv
<1> SUFFICES ASSUME Init PROVE IInv
  OBVIOUS
<1>1. TypeOK
  <2>2. mem \in [Slots -> Access]
    BY DEF Init
  <2>3. waddr \in Pointers /\ raddr \in Pointers
    BY DepthAssumption DEF Init, Pointers
  <2>4. /\ ack \in BOOLEAN /\ wack \in BOOLEAN /\ stall \in BOOLEAN /\ rw \in BOOLEAN
        /\ a \in Drives
    BY DEF Init, Drives
  <2>5. store \in [Addr -> Value] /\ reply \in Value
    BY ResetAssumption DEF Init
  <2> QED
    BY <2>2, <2>3, <2>4, <2>5 DEF TypeOK
<1>2. Occupancy = 0
  BY DEF Init, Occupancy
<1>3. NoOverflow /\ WritesFirst
  BY <1>2, DepthAssumption DEF NoOverflow, WritesFirst
<1>4. AckedIsQueued /\ Flags /\ WriteInFront
  BY DEF Init, AckedIsQueued, Flags, WriteInFront, Idle, Writing, Reading
<1> QED
  BY <1>1, <1>3, <1>4 DEF IInv

LEMMA UnchangedIInv == IInv /\ UNCHANGED vars => IInv'
<1> SUFFICES ASSUME IInv, UNCHANGED vars PROVE IInv'
  OBVIOUS
<1>1. /\ Occupancy' = Occupancy /\ (Writing' <=> Writing) /\ (Reading' <=> Reading)
      /\ \A k : Nth(k)' = Nth(k)
      /\ Nth(Occupancy - 1)' = Nth(Occupancy - 1)
  BY DEF vars, Occupancy, Writing, Reading, Nth, Slot, After
<1>2. TypeOK'
  BY DEF vars, IInv, TypeOK
<1>3. NoOverflow' /\ AckedIsQueued'
  BY <1>1 DEF vars, IInv, NoOverflow, AckedIsQueued
<1>4. Flags' /\ WritesFirst' /\ WriteInFront'
  BY <1>1 DEF vars, IInv, Flags, WritesFirst, WriteInFront
<1> QED
  BY <1>2, <1>3, <1>4 DEF IInv

-----------------------------------------------------------------------------

\* Every reachable state of the buffer satisfies the inductive invariant.
THEOREM Invariance == Spec => []IInv
<1>1. IInv /\ [Next]_vars => IInv'
  <2> SUFFICES ASSUME IInv, [Next]_vars PROVE IInv'
    OBVIOUS
  <2>1. CASE MemoryAcks
    BY <2>1, StepIInv DEF MemoryAcks
  <2>2. CASE MemoryWaits
    BY <2>2, StepIInv DEF MemoryWaits
  <2>3. CASE UNCHANGED vars
    BY <2>3, UnchangedIInv
  <2> QED
    BY <2>1, <2>2, <2>3 DEF Next
<1> QED
  BY <1>1, InitIInv, PTL DEF Spec

\* The registers, pointers and slots stay in range, for every depth.
THEOREM TypeCorrect == Spec => []TypeOK
<1>1. IInv => TypeOK
  BY DEF IInv
<1> QED
  BY <1>1, Invariance, PTL

\* A push never overwrites an access that the memory has not seen.
THEOREM FifoBounded == Spec => []NoOverflow
<1>1. IInv => NoOverflow
  BY DEF IInv
<1> QED
  BY <1>1, Invariance, PTL

\* A write is acknowledged, and a read waited for, exactly while it is the youngest
\* access in the FIFO: an acknowledged write is never lost.
THEOREM AckedWritesQueued == Spec => []AckedIsQueued
<1>1. IInv => AckedIsQueued
  BY DEF IInv
<1> QED
  BY <1>1, Invariance, PTL

-----------------------------------------------------------------------------
(***************************************************************************)
(* The write buffer is invisible: it implements MemoryBus, a memory that   *)
(* answers its master in order.                                            *)
(*                                                                         *)
(* What the master sees is the memory behind the buffer with a sequence of *)
(* accesses applied to it (Result).  A pop applies the first access for    *)
(* good and a push adds one at the end; neither is seen.  The only visible *)
(* moment is the acknowledge, which moves the border between the accesses  *)
(* that are as good as done and the one that is not.                       *)
(***************************************************************************)

\* The writes to x among the first n accesses of q, and what is in a memory s
\* after these accesses.
Writes(q, n, x) == {k \in 0..(n - 1) : q[k].wr /\ q[k].a = x}
Latest(ws) == CHOOSE k \in ws : \A j \in ws : j <= k
Result(q, n, s) ==
  [x \in Addr |-> IF Writes(q, n, x) = {} THEN s[x] ELSE q[Latest(Writes(q, n, x))].d]
\* The effect of one access.
Done(acc, s) == IF acc.wr THEN [s EXCEPT ![acc.a] = acc.d] ELSE s

Queue == [k \in Nat |-> Nth(k)]

-----------------------------------------------------------------------------
(* Sequences of accesses.                                                  *)

\* A set of positions has a largest one: the intervals from its members to n are
\* finite sets, and one of them is in no other.
LEMMA Largest ==
  ASSUME NEW n \in Nat, NEW T \in SUBSET (0..(n - 1)), T # {}
  PROVE  \E k \in T : \A j \in T : j <= k
<1> DEFINE U == {k..n : k \in T}
<1>1. U \subseteq FiniteSubsetsOf(Nat)
  <2> SUFFICES ASSUME NEW k \in T PROVE k..n \in FiniteSubsetsOf(Nat) OBVIOUS
  <2>1. k \in Nat OBVIOUS
  <2>2. IsFiniteSet(k..n) BY <2>1, FS_Interval
  <2>3. k..n \subseteq Nat BY <2>1
  <2> QED BY <2>2, <2>3 DEF FiniteSubsetsOf
<1>2. U # {} OBVIOUS
<1>3. IsWellFoundedOn(StrictSubsetOrdering(Nat), FiniteSubsetsOf(Nat))
  BY FS_StrictSubsetOrderingWellFounded
<1> HIDE DEF U
<1>4. PICK x \in U : \A y \in U : <<y, x>> \notin StrictSubsetOrdering(Nat)
  BY <1>1, <1>2, <1>3, WFMin
<1>5. PICK k \in T : x = k..n BY DEF U
<1>6. ASSUME NEW j \in T, k < j PROVE FALSE
  <2>1. k \in Nat /\ j \in Nat /\ k <= n BY <1>6
  <2>2. j..n \in U BY <1>6 DEF U
  <2>3. j..n \subseteq x /\ x \subseteq Nat BY <1>5, <1>6, <2>1
  <2>4. k \in x /\ k \notin j..n BY <1>5, <1>6, <2>1
  <2>5. <<j..n, x>> \in StrictSubsetOrdering(Nat)
    BY <2>3, <2>4 DEF StrictSubsetOrdering
  <2> QED BY <1>4, <2>2, <2>5
<1>7. \A j \in T : j <= k BY <1>6
<1> QED BY <1>7

LEMMA LatestIs ==
  ASSUME NEW n \in Nat, NEW T \in SUBSET (0..(n - 1)), NEW k \in T, \A j \in T : j <= k
  PROVE  Latest(T) = k
<1>1. \A i \in T : (\A j \in T : j <= i) => i = k OBVIOUS
<1> QED BY <1>1 DEF Latest

LEMMA LatestIn ==
  ASSUME NEW n \in Nat, NEW T \in SUBSET (0..(n - 1)), T # {}
  PROVE  Latest(T) \in T /\ \A j \in T : j <= Latest(T)
<1>1. PICK k \in T : \A j \in T : j <= k BY Largest
<1>2. Latest(T) = k BY <1>1, LatestIs
<1> QED BY <1>1, <1>2

\* Only the first n accesses count.
LEMMA Same ==
  ASSUME NEW q, NEW r, NEW n \in Nat, NEW s, \A k \in 0..(n - 1) : r[k] = q[k]
  PROVE  Result(r, n, s) = Result(q, n, s)
<1> SUFFICES ASSUME NEW x \in Addr PROVE Result(r, n, s)[x] = Result(q, n, s)[x]
  BY DEF Result
<1>1. Writes(r, n, x) = Writes(q, n, x) BY DEF Writes
<1>2. CASE Writes(q, n, x) = {} BY <1>1, <1>2 DEF Result
<1>3. CASE Writes(q, n, x) # {}
  <2>1. Latest(Writes(q, n, x)) \in 0..(n - 1) BY <1>3, LatestIn DEF Writes
  <2> QED BY <1>1, <1>3, <2>1 DEF Result
<1> QED BY <1>2, <1>3

\* One access more at the end has its effect after all others.
LEMMA OneMore ==
  ASSUME NEW q, NEW n \in Nat, NEW s, q[n] \in Access
  PROVE  Result(q, n + 1, s) = Done(q[n], Result(q, n, s))
<1> DEFINE R == Result(q, n, s)
<1>1. q[n].wr \in BOOLEAN /\ q[n].a \in Addr BY DEF Access
<1>2. Done(q[n], R) = [x \in Addr |-> IF q[n].wr /\ q[n].a = x THEN q[n].d ELSE R[x]]
  BY <1>1 DEF Done, Result
<1>3. ASSUME NEW x \in Addr
      PROVE  Result(q, n + 1, s)[x] = IF q[n].wr /\ q[n].a = x THEN q[n].d ELSE R[x]
  <2>1. Writes(q, n + 1, x) = Writes(q, n, x) \cup
                                 (IF q[n].wr /\ q[n].a = x THEN {n} ELSE {})
    BY DEF Writes
  <2>2. CASE q[n].wr /\ q[n].a = x
    <3>1. n \in Writes(q, n + 1, x) /\ \A j \in Writes(q, n + 1, x) : j <= n
      BY <2>2 DEF Writes
    <3>2. Writes(q, n + 1, x) \in SUBSET (0..((n + 1) - 1)) BY DEF Writes
    <3>3. Latest(Writes(q, n + 1, x)) = n
      <4>1. n + 1 \in Nat OBVIOUS
      <4> QED BY <3>1, <3>2, <4>1, LatestIs
    <3> QED BY <2>2, <3>1, <3>3 DEF Result
  <2>3. CASE ~(q[n].wr /\ q[n].a = x) BY <2>1, <2>3 DEF Result
  <2> QED BY <2>2, <2>3
<1> QED BY <1>2, <1>3 DEF Result

\* The first access may as well be in the memory already.
LEMMA OneDone ==
  ASSUME NEW q, NEW r, NEW n \in Nat, NEW s \in [Addr -> Value], q[0] \in Access,
         \A k \in 0..(n - 1) : r[k] = q[k + 1]
  PROVE  Result(r, n, Done(q[0], s)) = Result(q, n + 1, s)
<1> DEFINE t == Done(q[0], s)
<1>1. q[0].wr \in BOOLEAN /\ q[0].a \in Addr BY DEF Access
<1>2. \A x \in Addr : t[x] = IF q[0].wr /\ q[0].a = x THEN q[0].d ELSE s[x]
  BY <1>1 DEF Done
<1> HIDE DEF t
<1>3. ASSUME NEW x \in Addr PROVE Result(r, n, t)[x] = Result(q, n + 1, s)[x]
  <2>1. \A k \in 0..(n - 1) : k \in Writes(r, n, x) <=> k + 1 \in Writes(q, n + 1, x)
    BY DEF Writes
  <2>2. 0 \in Writes(q, n + 1, x) <=> q[0].wr /\ q[0].a = x BY DEF Writes
  <2>3. Writes(q, n + 1, x) \in SUBSET (0..((n + 1) - 1)) /\ n + 1 \in Nat BY DEF Writes
  <2>4. CASE Writes(r, n, x) # {}
    <3> DEFINE k == Latest(Writes(r, n, x))
    <3>1. k \in Writes(r, n, x) /\ (\A j \in Writes(r, n, x) : j <= k) /\ k \in 0..(n - 1)
      BY <2>4, LatestIn DEF Writes
    <3> HIDE DEF k
    <3>2. k + 1 \in Writes(q, n + 1, x) BY <2>1, <3>1
    <3>3. ASSUME NEW j \in Writes(q, n + 1, x) PROVE j <= k + 1
      <4>1. j \in 0..n BY DEF Writes
      <4>2. CASE j = 0 BY <3>1, <4>2
      <4>3. CASE j # 0
        <5>1. j - 1 \in 0..(n - 1) /\ (j - 1) + 1 = j BY <4>1, <4>3
        <5>2. j - 1 \in Writes(r, n, x) BY <2>1, <5>1
        <5> QED BY <3>1, <4>1, <5>2
      <4> QED BY <4>2, <4>3
    <3>4. Latest(Writes(q, n + 1, x)) = k + 1 BY <2>3, <3>2, <3>3, LatestIs
    <3> QED BY <2>4, <3>1, <3>2, <3>4 DEF Result, k
  <2>5. CASE Writes(r, n, x) = {}
    <3>1. \A j \in Writes(q, n + 1, x) : j = 0
      <4> SUFFICES ASSUME NEW j \in Writes(q, n + 1, x), j # 0 PROVE FALSE OBVIOUS
      <4>1. j - 1 \in 0..(n - 1) /\ (j - 1) + 1 = j BY DEF Writes
      <4> QED BY <2>1, <2>5, <4>1
    <3>2. CASE q[0].wr /\ q[0].a = x
      <4>1. Latest(Writes(q, n + 1, x)) = 0 BY <2>2, <2>3, <3>1, <3>2, LatestIs
      <4> QED BY <1>2, <2>2, <2>5, <3>2, <4>1 DEF Result
    <3>3. CASE ~(q[0].wr /\ q[0].a = x)
      <4>1. Writes(q, n + 1, x) = {} BY <2>2, <3>1, <3>3
      <4> QED BY <1>2, <2>5, <3>3, <4>1 DEF Result
    <3> QED BY <3>2, <3>3
  <2> QED BY <2>4, <2>5
<1> QED BY <1>3 DEF Result, t

-----------------------------------------------------------------------------
(* The buffer.                                                             *)

\* The memory as the master sees it, as the effect of the queued accesses.
LEMMA ViewIs ==
  ASSUME TypeOK, NoOverflow, wack => Occupancy > 0
  PROVE  Queued \in Nat /\ View = Result(Queue, Queued, store)
<1>1. Occupancy \in Nat BY Pointing
<1>2. Queued \in Nat BY <1>1 DEF Queued
<1>3. ASSUME NEW x \in Addr PROVE View[x] = Result(Queue, Queued, store)[x]
  <2>1. Visible(x) = Writes(Queue, Queued, x)
    BY <1>2 DEF Visible, Writes, Queue
  <2>2. Visible(x) # {} => Latest(Visible(x)) \in Nat
    <3>1. Visible(x) \in SUBSET (0..(Queued - 1)) BY DEF Visible
    <3>2. Visible(x) # {} => Latest(Visible(x)) \in Visible(x) BY <1>2, <3>1, LatestIn
    <3> QED BY <1>2, <3>1, <3>2
  <2>3. View[x] = IF Visible(x) = {} THEN store[x] ELSE Nth(Latest(Visible(x))).d
    BY DEF View, Latest
  <2> QED BY <2>1, <2>2, <2>3 DEF Result, Queue
<1> QED BY <1>2, <1>3 DEF View, Result

LEMMA ViewNext ==
  ASSUME TypeOK', NoOverflow', wack' => Occupancy' > 0
  PROVE  Queued' \in Nat /\ View' = Result(Queue', Queued', store')
<1>1. (TypeOK /\ NoOverflow /\ (wack => Occupancy > 0)
         => Queued \in Nat /\ View = Result(Queue, Queued, store))'
  BY ViewIs, PTL
<1> QED BY <1>1

LEMMA Entries ==
  ASSUME TypeOK, NoOverflow, NEW k \in Nat, k < Occupancy
  PROVE  Nth(k) \in Access
<1>1. Occupancy \in 0..Depth BY Pointing
<1>2. Slot(After(raddr, k)) \in Slots
  BY <1>1, DepthAssumption DEF TypeOK, Pointers, Slot, After, Slots
<1> QED BY <1>2 DEF TypeOK, Nth

\* What the queue had before the edge has the same result after it, whether or not
\* the memory has done the first access meanwhile.
LEMMA Moved ==
  ASSUME IInv, NEW back \in BOOLEAN, Cycle(back)
  PROVE  /\ Occupancy - Pops(back) \in Nat
         /\ Result(Queue', Occupancy - Pops(back), store') = Result(Queue, Occupancy, store)
<1>1. TypeOK /\ NoOverflow BY DEF IInv
<1>2. Occupancy \in Nat /\ (Empty <=> Occupancy = 0) /\ Oldest = Nth(0) BY <1>1, Pointing
<1>3. \A k \in Nat : k + Pops(back) < Occupancy => Queue'[k] = Queue[k + Pops(back)]
  <2>1. \A k \in Nat : Queue'[k] = NextNth(k) BY Primed DEF Queue
  <2>2. \A k \in Nat : k + Pops(back) \in Nat BY DEF Pops
  <2> QED BY <1>1, <2>1, <2>2, QueueStep DEF Queue
<1>4. store' = IF back /\ Oldest.wr THEN [store EXCEPT ![Oldest.a] = Oldest.d] ELSE store
  BY DEF Cycle
<1>5. CASE back
  <2>1. Occupancy - 1 \in Nat /\ Pops(back) = 1 /\ (Occupancy - 1) + 1 = Occupancy
    BY <1>2, <1>5 DEF Cycle, Pops
  <2>2. Queue[0] = Oldest /\ Queue[0] \in Access
    BY <1>1, <1>2, <2>1, Entries DEF Queue
  <2>3. store' = Done(Queue[0], store) BY <1>4, <1>5, <2>2 DEF Done
  <2>4. \A k \in 0..((Occupancy - 1) - 1) : Queue'[k] = Queue[k + 1]
    BY <1>2, <1>3, <2>1
  <2>5. store \in [Addr -> Value] BY <1>1 DEF TypeOK
  <2>6. Result(Queue', Occupancy - 1, Done(Queue[0], store))
           = Result(Queue, (Occupancy - 1) + 1, store)
    BY <2>1, <2>2, <2>4, <2>5, OneDone
  <2> QED BY <2>1, <2>3, <2>6
<1>6. CASE ~back
  <2>1. Pops(back) = 0 /\ Occupancy - 0 = Occupancy /\ store' = store
    BY <1>2, <1>4, <1>6 DEF Pops
  <2>2. \A k \in 0..(Occupancy - 1) : Queue'[k] = Queue[k]
    BY <1>2, <1>3, <2>1
  <2> QED BY <1>2, <2>1, <2>2, Same
<1> QED BY <1>5, <1>6

\* The acknowledge of a write is the moment that the master sees it done.
LEMMA WriteSeen ==
  ASSUME IInv, IInv', NEW back \in BOOLEAN, Cycle(back), wack
  PROVE  View' = [View EXCEPT ![a.acc.a] = a.acc.d] /\ reply' = reply
<1>1. /\ TypeOK /\ NoOverflow /\ TypeOK' /\ NoOverflow'
      /\ Writing /\ ack /\ ~stall /\ Occupancy > 0 /\ Nth(Occupancy - 1) = a.acc
  BY DEF IInv, AckedIsQueued, Flags
<1>2. Occupancy \in Nat BY <1>1, Pointing
<1>3. ~Push /\ ~wack' BY <1>1 DEF Push, Cycle
<1>4. Occupancy' = Occupancy - Pops(back)
  <2>1. Occupancy' = Occupancy + 0 - Pops(back) BY <1>1, <1>3, QueueStep DEF Pushes
  <2> QED BY <1>2, <2>1 DEF Pops
<1>5. Queued = Occupancy - 1 /\ Queued' = Occupancy - Pops(back)
  <2>1. Queued' = Occupancy' - 0 BY <1>3 DEF Queued
  <2> QED BY <1>2, <1>4, <2>1 DEF Queued, Pops
<1>6. View = Result(Queue, Occupancy - 1, store) /\ Occupancy - 1 \in Nat
  BY <1>1, <1>5, ViewIs
<1>7. View' = Result(Queue, Occupancy, store)
  <2>1. View' = Result(Queue', Queued', store') BY <1>1, <1>3, ViewNext
  <2> QED BY <1>5, <2>1, Moved
<1>8. Queue[Occupancy - 1] = a.acc /\ Queue[Occupancy - 1] \in Access
  <2>1. Occupancy - 1 < Occupancy BY <1>2
  <2> QED BY <1>1, <1>6, <2>1, Entries DEF Queue
<1>9. View' = Done(a.acc, View)
  <2>1. (Occupancy - 1) + 1 = Occupancy BY <1>2
  <2>2. Result(Queue, (Occupancy - 1) + 1, store)
           = Done(Queue[Occupancy - 1], Result(Queue, Occupancy - 1, store))
    BY <1>6, <1>8, OneMore
  <2> QED BY <1>6, <1>7, <1>8, <2>1, <2>2
<1>10. reply' = reply BY <1>1 DEF Cycle, Writing
<1> QED BY <1>1, <1>9, <1>10 DEF Done, Writing

\* Nothing else changes what the master sees.
LEMMA NothingSeen ==
  ASSUME IInv, IInv', NEW back \in BOOLEAN, Cycle(back), ~wack
  PROVE  View' = View
<1>1. /\ TypeOK /\ NoOverflow /\ TypeOK' /\ NoOverflow' /\ Flags
      /\ wack' => Occupancy' > 0
  BY DEF IInv, AckedIsQueued
<1>2. Occupancy \in Nat BY <1>1, Pointing
<1>3. View = Result(Queue, Occupancy, store)
  <2>1. Queued = Occupancy BY <1>2 DEF Queued
  <2> QED BY <1>1, <2>1, ViewIs
<1>4. View' = Result(Queue', Queued', store') BY <1>1, ViewNext
<1> DEFINE n == Occupancy - Pops(back)
<1>5. n \in Nat /\ Result(Queue', n, store') = Result(Queue, Occupancy, store) BY Moved
<1>6. CASE Writing \/ ~Push
  <2>1. wack' <=> Push
    BY <1>1, <1>6 DEF Cycle, Push, Flags, Writing, Reading
  <2>2. Queued' = n
    <3>1. Occupancy' = Occupancy + Pushes - Pops(back) BY <1>1, QueueStep
    <3>2. CASE Push
      <4>1. Occupancy' = Occupancy + 1 - Pops(back) BY <3>1, <3>2 DEF Pushes
      <4>2. Queued' = Occupancy' - 1 BY <2>1, <3>2 DEF Queued
      <4> QED BY <1>2, <4>1, <4>2 DEF Pops
    <3>3. CASE ~Push
      <4>1. Occupancy' = Occupancy + 0 - Pops(back) BY <3>1, <3>3 DEF Pushes
      <4>2. Queued' = Occupancy' - 0 BY <2>1, <3>3 DEF Queued
      <4> QED BY <1>2, <4>1, <4>2 DEF Pops
    <3> QED BY <3>2, <3>3
  <2> QED BY <1>3, <1>4, <1>5, <2>2
<1>7. CASE ~Writing /\ Push
  <2>1. ~a.acc.wr /\ ~wack' BY <1>7 DEF Push, Writing, Cycle
  <2>2. Occupancy' = n + 1 /\ Queued' = n + 1 /\ NextNth(Occupancy' - 1) = a.acc
    <3>1. Occupancy' = Occupancy + 1 - Pops(back) /\ NextNth(Occupancy' - 1) = a.acc
      BY <1>1, <1>7, QueueStep DEF Pushes
    <3>2. Queued' = Occupancy' - 0 BY <2>1 DEF Queued
    <3> QED BY <1>2, <3>1, <3>2 DEF Pops
  <2>3. Queue'[n] = a.acc
    <3>1. Queue'[n] = NextNth(n) BY <1>5, Primed DEF Queue
    <3>2. Occupancy' - 1 = n BY <1>5, <2>2
    <3> QED BY <2>2, <3>1, <3>2
  <2>4. a.acc \in Access BY <1>1, <1>7, Pushed
  <2>5. Result(Queue', n + 1, store') = Done(a.acc, Result(Queue', n, store'))
    BY <1>5, <2>3, <2>4, OneMore
  <2> QED BY <1>3, <1>4, <1>5, <2>1, <2>2, <2>5 DEF Done
<1> QED BY <1>6, <1>7

\* A read that is answered is the only access in the buffer, and its answer is what
\* the master sees at the address.
LEMMA ReadSeen ==
  ASSUME IInv, NEW back \in BOOLEAN, Cycle(back), Reading, Acked(back)
  PROVE  reply' = View[a.acc.a] /\ ~wack
<1>1. TypeOK /\ NoOverflow /\ ~wack /\ stall /\ ReadAnswer(back)
  BY DEF IInv, Flags, Acked
<1>2. Occupancy \in Nat /\ Occupancy > 0 /\ Oldest = Nth(0)
  <2>1. Occupancy > 0 BY <1>1 DEF IInv, AckedIsQueued
  <2> QED BY <1>1, <2>1, Pointing
<1>3. ~Nth(0).wr
  <2>1. Nth(0).wr => rw BY <1>1 DEF IInv, WriteInFront
  <2>2. ~Nth(0).wr \/ ~rw BY <1>1, <1>2 DEF ReadAnswer
  <2> QED BY <2>1, <2>2
<1>4. Occupancy = 1
  <2>1. 0 + 1 < Occupancy => Nth(0).wr BY DEF IInv, WritesFirst
  <2>2. ~(0 + 1 < Occupancy) BY <1>3, <2>1
  <2> QED BY <1>2, <2>2
<1>5. Oldest = a.acc
  <2>1. Nth(Occupancy - 1) = a.acc BY <1>1 DEF IInv, AckedIsQueued
  <2>2. Occupancy - 1 = 0 BY <1>4
  <2> QED BY <1>2, <2>1, <2>2
<1>6. View[a.acc.a] = store[a.acc.a]
  <2>1. Queued = 1 BY <1>1, <1>4 DEF Queued
  <2>2. Visible(a.acc.a) = {} BY <1>3, <2>1 DEF Visible
  <2>3. a.acc.a \in Addr
    <3>1. a \in Request BY <1>1 DEF TypeOK, Drives, Idle, Reading
    <3> QED BY <3>1 DEF Request, Accesses, Access
  <2> QED BY <2>2, <2>3 DEF View
<1> QED BY <1>1, <1>5, <1>6 DEF Cycle, Reading

-----------------------------------------------------------------------------
\* Every edge of the clock is a step of the memory that the master sees, or none.
LEMMA BusStep ==
  ASSUME IInv, IInv', NEW back \in BOOLEAN, Cycle(back)
  PROVE  [Bus!Next]_<<a, View, reply>>
<1>0. Drives = Bus!Drives
  BY DEF Drives, Request, Accesses, Access, Idle,
         Bus!Drives, Bus!Request, Bus!Accesses, Bus!Access, Bus!Idle
<1>1. a' \in Bus!Drives BY <1>0 DEF IInv, TypeOK
<1>2. CASE wack
  <2>1. a.en /\ a.acc.wr BY <1>2 DEF IInv, AckedIsQueued, Writing
  <2>2. View' = [View EXCEPT ![a.acc.a] = a.acc.d] /\ reply' = reply BY <1>2, WriteSeen
  <2> QED BY <1>1, <2>1, <2>2 DEF Bus!Next, Bus!Complete
<1>3. CASE ~wack /\ Reading /\ Acked(back)
  <2>1. View' = View /\ reply' = View[a.acc.a] BY <1>3, NothingSeen, ReadSeen
  <2> QED BY <1>1, <1>3, <2>1 DEF Bus!Next, Bus!Complete, Reading
<1>4. CASE ~wack /\ ~(Reading /\ Acked(back))
  <2>1. View' = View BY <1>4, NothingSeen
  <2>2. reply' = reply BY <1>4 DEF Cycle, Reading
  <2>3. a.en => a' = a
    <3>1. Writing => ~Acked(back) BY <1>4 DEF Acked, IInv, Flags
    <3>2. a.en => Writing \/ Reading BY DEF Writing, Reading
    <3> QED BY <1>4, <3>1, <3>2 DEF Cycle
  <2>4. CASE a.en BY <2>1, <2>2, <2>3, <2>4
  <2>5. CASE ~a.en BY <1>1, <2>1, <2>2, <2>5 DEF Bus!Next, Bus!Issue
  <2> QED BY <2>4, <2>5
<1> QED BY <1>2, <1>3, <1>4

LEMMA BusInit == Init => Bus!Init
<1> SUFFICES ASSUME Init PROVE Bus!Init OBVIOUS
<1>1. Occupancy = 0 /\ ~wack BY DEF Init, Occupancy
<1>2. \A x \in Addr : Visible(x) = {} BY <1>1 DEF Visible, Queued
<1>3. View = [x \in Addr |-> Zero] BY <1>2 DEF Init, View
<1> QED BY <1>3 DEF Init, Bus!Init, Idle, Bus!Idle

\* For every depth, address and data set the write buffer is invisible: with the
\* queued writes taken for done, the master sees a memory that answers in order
\* (wrbuf).
THEOREM Invisible == Spec => Transparent
<1>1. IInv /\ IInv' /\ [Next]_vars => [Bus!Next]_<<a, View, reply>>
  <2> SUFFICES ASSUME IInv, IInv', [Next]_vars PROVE [Bus!Next]_<<a, View, reply>>
    OBVIOUS
  <2>1. CASE Next BY <2>1, BusStep DEF Next, MemoryAcks, MemoryWaits
  <2>2. CASE UNCHANGED vars
    <3>1. UNCHANGED <<a, View, reply>>
      BY <2>2 DEF vars, View, Visible, Queued, Occupancy, Nth, Slot, After
    <3> QED BY <3>1
  <2> QED BY <2>1, <2>2
<1> QED BY <1>1, BusInit, Invariance, PTL DEF Spec, Transparent, Bus!Spec
=============================================================================

------------------------- MODULE BusMuxTypecProofs -------------------------
(***************************************************************************)
(* Proofs about BusMuxTypec, for every burst length, every set of active   *)
(* cpu masters and every set of DMA requests: type correctness, the        *)
(* exclusion of the other cpu from a locked section, and what the memory's *)
(* port keeps for a waiting access and for a burst.                        *)
(***************************************************************************)
EXTENDS BusMuxTypec, TLAPS

\* What a master drives is well formed: the first beat of a burst knows the
\* number of beats to come.
Formed(o) == o.burst => o.en /\ o.left = LongLen - 1
DrivesFormed == Formed(m1) /\ Formed(m2) /\ Formed(m3) /\ Formed(m4)

\* The inner stage is in the middle of a burst of the master it serves, and both
\* agree on how much of it is left.
InnerBurst ==
  sub.count # 0 =>
    /\ Selected(sub.state) # 0
    /\ m[Selected(sub.state)].en
    /\ m[Selected(sub.state)].left + sub.count + 1 = LongLen

\* A request that waits at the inner stage is still driven.
InnerWait ==
  sub.mem.en /\ ~sub.mem.ack =>
    Selected(sub.state) # 0 /\ m[Selected(sub.state)].en

\* A data master that holds the inner stage in its plain state is not doing a
\* locked read: that one is only served in the locking states.
PlainAccess(s, o) ==
  sub.state = s /\ (sub.count # 0 \/ (sub.mem.en /\ ~sub.mem.ack)) => ~LockedRead(o)

\* During the locked section of data master d the inner stage is in one of its
\* locking states, or d is waiting for its closing access.
Section(d, plain, locking) ==
  holder = d =>
    \/ sub.state \in locking
    \/ sub.state = plain /\ sub.mem.en /\ ~sub.mem.ack

IInv ==
  /\ TypeOK
  /\ DrivesFormed
  /\ InnerBurst
  /\ InnerWait
  /\ PlainAccess("M1", m1) /\ PlainAccess("M3", m3)
  /\ Section(1, "M1", {"M1LOCK1", "M1LOCK2", "M12LOCKT"})
  /\ Section(3, "M3", {"M3LOCK1", "M3LOCK2", "M34LOCKT"})

-----------------------------------------------------------------------------
(* The pieces of a cycle.                                                  *)

\* The wires by name.
LEMMA Wires == /\ m[1] = m1 /\ m[2] = m2 /\ m[3] = m3 /\ m[4] = m4
               /\ m'[1] = m1' /\ m'[2] = m2' /\ m'[3] = m3' /\ m'[4] = m4'
BY DEF m

LEMMA Typed == ASSUME TypeOK PROVE \A i \in Masters : m[i] \in Drive
BY Wires DEF TypeOK, Masters

\* A remainder is smaller than its divisor.
LEMMA Remainder == ASSUME NEW n \in Nat, NEW k \in Nat, k > 0 PROVE n % k \in 0..(k - 1)
OBVIOUS

\* What a count of beats becomes.
LEMMA CountStep ==
  ASSUME NEW c \in Nat, NEW ack \in BOOLEAN, NEW burst \in BOOLEAN, NEW n \in Nat, n > 1
  PROVE  /\ ~ack => NextCount(c, ack, burst, n) = c
         /\ ack /\ c # 0 => NextCount(c, ack, burst, n) \in 0..(n - 1)
         /\ ack /\ c # 0 /\ c + 1 < n => NextCount(c, ack, burst, n) = c + 1
         /\ ack /\ c + 1 = n => NextCount(c, ack, burst, n) = 0
         /\ ack /\ c = 0 => NextCount(c, ack, burst, n) = IF burst THEN 1 ELSE 0
         /\ \A k \in Nat : c <= k /\ n - 1 <= k => NextCount(c, ack, burst, n) \in 0..k
<1>1. c + 1 < n => (c + 1) % n = c + 1
  OBVIOUS
<1>2. c + 1 = n => (c + 1) % n = 0
  OBVIOUS
<1>3. (c + 1) % n \in 0..(n - 1)
  BY Remainder
<1> QED
  BY <1>1, <1>2, <1>3 DEF NextCount

\* The next drive of a master.
LEMMA DriveStep ==
  ASSUME NEW i \in Masters, m[i] \in Drive, Formed(m[i]), NEW acked \in BOOLEAN, NEW h,
         NEW o \in CpuSteps(i, acked, h)
  PROVE  /\ o \in Drive
         /\ Formed(o)
         /\ m[i].en /\ ~acked => o = m[i]
         /\ m[i].en /\ acked /\ m[i].left > 0 =>
              /\ o.en /\ o.left = m[i].left - 1
              /\ LockedRead(o) <=> LockedRead(m[i])
<1> USE BurstAssumption
<1>1. \A c \in CpuStarts(i) : c \in Drive /\ Formed(c)
  <2>1. Quiet \in Drive /\ Formed(Quiet)
    BY DEF Quiet, Drive, Formed
  <2>2. \A c \in DataStarts : c \in Drive /\ Formed(c)
    BY DEF DataStarts, Formed
  <2>3. CpuStarts(i) \subseteq {Quiet} \cup DataStarts
    BY DEF CpuStarts, FetchStarts
  <2> QED
    BY <2>1, <2>2, <2>3
<1>2. CASE m[i].en /\ ~acked
  BY <1>2 DEF CpuSteps
<1>3. CASE m[i].en /\ acked /\ m[i].left > 0
  <2>1. o = [m[i] EXCEPT !.burst = FALSE, !.left = @ - 1]
    BY <1>3 DEF CpuSteps
  <2>2. /\ o.en = m[i].en /\ o.wr = m[i].wr /\ o.lock = m[i].lock
        /\ o.burst = FALSE /\ o.left = m[i].left - 1
    BY <2>1 DEF Drive
  <2>3. m[i].left - 1 \in 0..(LongLen - 1)
    BY <1>3 DEF Drive
  <2>4. o \in Drive
    BY <2>1, <2>3 DEF Drive
  <2> QED
    BY <1>3, <2>2, <2>4 DEF Formed, LockedRead
<1>4. CASE ~(m[i].en /\ (~acked \/ m[i].left > 0))
  <2>1. o \in CpuStarts(i)
    BY <1>4 DEF CpuSteps
  <2> QED
    BY <1>1, <1>4, <2>1
<1> QED
  BY <1>2, <1>3, <1>4

\* What the arbiter may decide: SubStates, and the state M1 (M3) from an unfrozen
\* arbiter only when master 1 (3) is not doing a locked read.
LEMMA Decision ==
  ASSUME TypeOK
  PROVE  /\ Woa(sub, m) \in SubStates
         /\ SubHold(sub) => Woa(sub, m) = sub.state
         /\ sub.state \in {"M1LOCK1", "M3LOCK1"} => Woa(sub, m) = sub.state
         /\ ~SubHold(sub) /\ Woa(sub, m) = "M1" => ~LockedRead(m1)
         /\ ~SubHold(sub) /\ Woa(sub, m) = "M3" => ~LockedRead(m3)
         /\ sub.state \in {"M1LOCK2", "M12LOCKT"} =>
              \/ Woa(sub, m) \in {"M1LOCK1", "M1LOCK2", "M12LOCKT"}
              \/ Woa(sub, m) = "M1" /\ m1.en
              \/ Woa(sub, m) = "IDLE" /\ ~m1.en /\ ~m1.lock
         /\ sub.state \in {"M3LOCK2", "M34LOCKT"} =>
              \/ Woa(sub, m) \in {"M3LOCK1", "M3LOCK2", "M34LOCKT"}
              \/ Woa(sub, m) = "M3" /\ m3.en
              \/ Woa(sub, m) = "IDLE" /\ ~m3.en /\ ~m3.lock
<1>1. sub.state \in SubStates
  BY DEF TypeOK
<1>2. CASE SubHold(sub)
  BY <1>1, <1>2 DEF Woa, SubStates, LockingStates
<1>3. CASE ~SubHold(sub) /\ sub.state \in {"M1LOCK1", "M3LOCK1"}
  BY <1>3 DEF Woa, SubStates, LockingStates
<1>4. CASE ~SubHold(sub) /\ sub.state \in {"M1LOCK2", "M12LOCKT"}
  <2>1. Woa(sub, m) = WhileLocked(1, 2, "M1LOCK2", "M12LOCKT", m)
    BY <1>4 DEF Woa
  <2> QED
    BY <1>4, <2>1, Wires DEF WhileLocked, Grant, SubStates, LockingStates
<1>5. CASE ~SubHold(sub) /\ sub.state \in {"M3LOCK2", "M34LOCKT"}
  <2>1. Woa(sub, m) = WhileLocked(3, 4, "M3LOCK2", "M34LOCKT", m)
    BY <1>5 DEF Woa
  <2> QED
    BY <1>5, <2>1, Wires DEF WhileLocked, Grant, SubStates, LockingStates
<1>6. CASE ~SubHold(sub) /\ sub.state \notin {"M1LOCK1", "M3LOCK1", "M1LOCK2", "M12LOCKT",
                                            "M3LOCK2", "M34LOCKT"}
  <2>1. Woa(sub, m) = RoundRobin(sub.state, m)
    BY <1>6 DEF Woa
  <2>2. \E i \in Masters : RoundRobin(sub.state, m) = Grant(i, m)
    BY DEF RoundRobin, Order, Fallback, Masters
  <2> QED
    BY <1>6, <2>1, <2>2, Wires DEF Grant, Masters, SubStates, LockingStates
<1> QED
  BY <1>2, <1>3, <1>4, <1>5, <1>6

\* Who is at the port: a cpu master is acknowledged when the inner stage is, and
\* it is the one the inner stage serves.
LEMMA PortOwner ==
  ASSUME TypeOK, NEW ack \in BOOLEAN
  PROVE  /\ TopNext \in {"M5", "M6"} /\ SubWho \in 0..4 /\ Owner \in 0..5
         /\ SubEn \in BOOLEAN /\ SubBurst \in BOOLEAN
         /\ PortEn \in BOOLEAN /\ PortBurst \in BOOLEAN
         /\ Command(Owner) \in BOOLEAN \X BOOLEAN \X BOOLEAN
         /\ \A i \in Masters : ack /\ Owner = i <=> (ack /\ TopNext = "M6") /\ SubWho = i
<1>1. TopNext \in {"M5", "M6"}
  <2>1. top.state \in {"M5", "M6"}
    BY DEF TypeOK
  <2> QED
    BY <2>1 DEF TopNext
<1>2. SubWho \in 0..4
  BY DEF SubWho, Selected
<1>3. SubEn \in BOOLEAN /\ SubBurst \in BOOLEAN
  BY DEF SubEn, SubBurst
<1>4. Owner \in 0..5 /\ (Owner = 5 <=> TopNext = "M5")
  BY <1>1, <1>2 DEF Owner
<1>5. m5.en \in BOOLEAN /\ m5.wr \in BOOLEAN /\ m5.burst32 \in BOOLEAN /\ m5.burst16 \in BOOLEAN
  BY DEF TypeOK, DmaDrive
<1>6. PortEn \in BOOLEAN /\ PortBurst \in BOOLEAN
  BY <1>3, <1>5 DEF PortEn, PortBurst
<1>7. \A i \in Masters : m[i].wr \in BOOLEAN /\ m[i].lock \in BOOLEAN /\ m[i].burst \in BOOLEAN
  BY Typed DEF Drive
<1>8. Command(Owner) \in BOOLEAN \X BOOLEAN \X BOOLEAN
  <2>1. CASE Owner = 0
    <3>1. NoCommand \in BOOLEAN \X BOOLEAN \X BOOLEAN
      BY Zenon DEF NoCommand
    <3>2. Command(Owner) = NoCommand
      BY <2>1 DEF Command
    <3> QED
      BY <3>1, <3>2, Zenon
  <2>2. CASE Owner = 5
    BY <1>5, <2>2 DEF Command
  <2>3. CASE Owner \in Masters
    BY <1>7, <2>3 DEF Command, Masters
  <2> QED
    BY <1>4, <2>1, <2>2, <2>3 DEF Masters
<1>9. \A i \in Masters : ack /\ Owner = i <=> (ack /\ TopNext = "M6") /\ SubWho = i
  BY <1>1, <1>2 DEF Owner, Masters
<1> QED
  BY <1>1, <1>2, <1>3, <1>4, <1>6, <1>8, <1>9

-----------------------------------------------------------------------------
(* Type correctness.                                                       *)

LEMMA TypeStep ==
  ASSUME TypeOK, DrivesFormed, NEW ack \in BOOLEAN, Cycle(ack)
  PROVE  TypeOK' /\ DrivesFormed'
<1> USE BurstAssumption
<1> DEFINE woa == Woa(sub, m)
           subAck == ack /\ TopNext = "M6"
<1>1. /\ sub' = [state |-> NextState(woa, subAck),
                 count |-> NextCount(sub.count, subAck, SubBurst, LongLen),
                 mem   |-> [en |-> SubEn, ack |-> subAck]]
      /\ top' = [state |-> TopNext,
                 count |-> NextCount(top.count, ack, PortBurst,
                                     IF top.short THEN ShortLen ELSE LongLen),
                 short |-> NextShort,
                 mem   |-> [who |-> Owner, en |-> PortEn, ack |-> ack,
                            cmd |-> Command(Owner)]]
      /\ holder' = NextHolder(ack)
      /\ m1' \in CpuSteps(1, ack /\ Owner = 1, holder')
      /\ m2' \in CpuSteps(2, ack /\ Owner = 2, holder')
      /\ m3' \in CpuSteps(3, ack /\ Owner = 3, holder')
      /\ m4' \in CpuSteps(4, ack /\ Owner = 4, holder')
      /\ m5' \in DmaSteps(ack /\ Owner = 5)
  BY DEF Cycle
<1>2. sub' \in [state : SubStates, count : 0..(LongLen - 1), mem : [en : BOOLEAN, ack : BOOLEAN]]
  <2>1. NextState(woa, subAck) \in SubStates
    BY Decision DEF NextState, SubStates, LockingStates
  <2>2. subAck \in BOOLEAN
    OBVIOUS
  <2> HIDE DEF woa, subAck
  <2>3. NextCount(sub.count, subAck, SubBurst, LongLen) \in 0..(LongLen - 1)
    <3>1. sub.count \in Nat /\ sub.count <= LongLen - 1 /\ LongLen - 1 \in Nat
      BY DEF TypeOK
    <3>2. SubBurst \in BOOLEAN
      BY PortOwner
    <3> QED
      BY <2>2, <3>1, <3>2, CountStep
  <2> QED
    BY <1>1, <2>1, <2>2, <2>3, PortOwner DEF woa, subAck
<1>3. top' \in [state : {"M5", "M6"}, count : 0..(LongLen - 1), short : BOOLEAN,
                mem : [who : 0..5, en : BOOLEAN, ack : BOOLEAN, cmd : BOOLEAN \X BOOLEAN \X BOOLEAN]]
  <2> DEFINE n == IF top.short THEN ShortLen ELSE LongLen
             c == NextCount(top.count, ack, PortBurst, n)
  <2>1. c \in 0..(LongLen - 1)
    <3>1. top.count \in Nat /\ top.count <= LongLen - 1 /\ LongLen - 1 \in Nat
      BY DEF TypeOK
    <3>2. n \in Nat /\ n > 1 /\ n - 1 <= LongLen - 1
      OBVIOUS
    <3>3. PortBurst \in BOOLEAN
      BY PortOwner
    <3> HIDE DEF n
    <3> QED
      BY <3>1, <3>2, <3>3, CountStep
  <2>2. NextShort \in BOOLEAN
    <3>1. m5.burst16 \in BOOLEAN /\ top.short \in BOOLEAN
      BY DEF TypeOK, DmaDrive
    <3> QED
      BY <3>1 DEF NextShort
  <2> HIDE DEF c
  <2> QED
    BY <1>1, <2>1, <2>2, PortOwner DEF c
<1>4. /\ m1' \in Drive /\ m2' \in Drive /\ m3' \in Drive /\ m4' \in Drive
      /\ DrivesFormed'
  <2> DEFINE acked(i) == ack /\ Owner = i
  <2>1. \A i \in Masters : m[i] \in Drive /\ Formed(m[i])
    BY Typed, Wires DEF DrivesFormed, Masters
  <2>2. \A i \in Masters : acked(i) \in BOOLEAN
    OBVIOUS
  <2>3. /\ m1' \in CpuSteps(1, acked(1), holder') /\ m2' \in CpuSteps(2, acked(2), holder')
        /\ m3' \in CpuSteps(3, acked(3), holder') /\ m4' \in CpuSteps(4, acked(4), holder')
    BY <1>1
  <2> HIDE DEF acked
  <2>4. \A i \in Masters : \A o \in CpuSteps(i, acked(i), holder') : o \in Drive /\ Formed(o)
    BY <2>1, <2>2, DriveStep
  <2> QED
    BY <2>3, <2>4 DEF Masters, DrivesFormed, Formed
<1>5. m5' \in DmaDrive
  <2>1. m5 \in DmaDrive
    BY DEF TypeOK
  <2>2. CASE m5.en /\ ~(ack /\ Owner = 5)
    BY <1>1, <2>1, <2>2 DEF DmaSteps
  <2>3. CASE m5.en /\ (ack /\ Owner = 5) /\ m5.left > 0
    <3>1. m5' = [m5 EXCEPT !.left = @ - 1]
      BY <1>1, <2>3 DEF DmaSteps
    <3>2. m5.left - 1 \in 0..(LongLen - 1)
      BY <2>1, <2>3 DEF DmaDrive
    <3> QED
      BY <2>1, <3>1, <3>2 DEF DmaDrive
  <2>4. CASE ~(m5.en /\ (~(ack /\ Owner = 5) \/ m5.left > 0))
    BY <1>1, <2>4, DmaAssumption DEF DmaSteps
  <2> QED
    BY <2>2, <2>3, <2>4
<1>6. holder' \in {0} \cup DataMasters
  BY <1>1 DEF NextHolder, TypeOK
<1> QED
  BY <1>2, <1>3, <1>4, <1>5, <1>6 DEF TypeOK

-----------------------------------------------------------------------------
(* The inductive invariant.                                                *)

\* What one edge does to the inner stage and to the masters, in the terms the
\* invariant is stated in: woa is the decision, subAck the acknowledge that
\* reaches the inner stage.
LEMMA InnerStep ==
  ASSUME IInv, NEW ack \in BOOLEAN, Cycle(ack),
         NEW woa, woa = Woa(sub, m), NEW subAck, subAck = (ack /\ TopNext = "M6")
  PROVE  /\ SubWho = Selected(woa)
         /\ sub'.state = NextState(woa, subAck)
         /\ sub'.mem.en = SubEn /\ sub'.mem.ack = subAck
         /\ subAck => SubEn
         /\ \A i \in Masters : m[i].en /\ ~(subAck /\ SubWho = i) => m'[i] = m[i]
         /\ ~subAck => sub'.count = sub.count
         /\ sub'.count # 0 =>
              /\ SubWho # 0
              /\ m'[SubWho].en
              /\ m'[SubWho].left + sub'.count + 1 = LongLen
              /\ LockedRead(m'[SubWho]) <=> LockedRead(m[SubWho])
<1> USE BurstAssumption
<1>0. TypeOK /\ DrivesFormed
  BY DEF IInv
<1>1. SubWho = Selected(woa)
  BY DEF SubWho
<1>2. /\ sub'.state = NextState(woa, subAck)
      /\ sub'.mem.en = SubEn /\ sub'.mem.ack = subAck
      /\ sub'.count = NextCount(sub.count, subAck, SubBurst, LongLen)
  BY DEF Cycle
<1>3. subAck \in BOOLEAN /\ SubBurst \in BOOLEAN /\ SubWho \in 0..4
  BY <1>0, PortOwner
<1>4. subAck => SubEn
  BY DEF Cycle, PortEn
<1>5. \A i \in Masters : m[i] \in Drive /\ Formed(m[i])
  BY <1>0, Typed, Wires DEF DrivesFormed, Masters
<1>6. \A i \in Masters : m'[i] \in CpuSteps(i, subAck /\ SubWho = i, holder')
  <2>1. \A i \in Masters : ack /\ Owner = i <=> subAck /\ SubWho = i
    BY <1>0, PortOwner
  <2>2. /\ m'[1] \in CpuSteps(1, ack /\ Owner = 1, holder')
        /\ m'[2] \in CpuSteps(2, ack /\ Owner = 2, holder')
        /\ m'[3] \in CpuSteps(3, ack /\ Owner = 3, holder')
        /\ m'[4] \in CpuSteps(4, ack /\ Owner = 4, holder')
    BY Wires DEF Cycle
  <2> HIDE DEF Masters
  <2>3. \A i \in Masters : (ack /\ Owner = i) = (subAck /\ SubWho = i)
    BY <2>1
  <2> QED
    BY <2>2, <2>3 DEF Masters
<1>7. \A i \in Masters :
        /\ m[i].en /\ ~(subAck /\ SubWho = i) => m'[i] = m[i]
        /\ m[i].en /\ subAck /\ SubWho = i /\ m[i].left > 0 =>
             /\ m'[i].en /\ m'[i].left = m[i].left - 1
             /\ LockedRead(m'[i]) <=> LockedRead(m[i])
  <2> TAKE i \in Masters
  <2> DEFINE acked == subAck /\ SubWho = i
  <2>1. acked \in BOOLEAN /\ m'[i] \in CpuSteps(i, acked, holder')
    BY <1>6
  <2>2. m[i] \in Drive /\ Formed(m[i])
    BY <1>5
  <2> HIDE DEF acked
  <2>3. /\ m[i].en /\ ~acked => m'[i] = m[i]
        /\ m[i].en /\ acked /\ m[i].left > 0 =>
             /\ m'[i].en /\ m'[i].left = m[i].left - 1
             /\ LockedRead(m'[i]) <=> LockedRead(m[i])
    BY <2>1, <2>2, DriveStep
  <2> QED
    BY <2>3 DEF acked
<1>8. sub.count \in Nat /\ sub.count + 1 <= LongLen
  BY <1>0 DEF TypeOK
<1>9. /\ ~subAck => sub'.count = sub.count
      /\ subAck /\ sub.count # 0 /\ sub.count + 1 < LongLen => sub'.count = sub.count + 1
      /\ subAck /\ sub.count + 1 = LongLen => sub'.count = 0
      /\ subAck /\ sub.count = 0 => sub'.count = IF SubBurst THEN 1 ELSE 0
  <2>1. ~subAck => sub'.count = sub.count
    BY <1>2 DEF NextCount
  <2>2. subAck /\ sub.count # 0 => sub'.count = (sub.count + 1) % LongLen
    BY <1>2 DEF NextCount
  <2>3. subAck /\ sub.count = 0 => sub'.count = IF SubBurst THEN 1 ELSE 0
    BY <1>2 DEF NextCount
  <2>4. sub.count + 1 < LongLen => (sub.count + 1) % LongLen = sub.count + 1
    BY <1>8
  <2>5. LongLen % LongLen = 0 /\ LongLen # 1
    OBVIOUS
  <2> QED
    BY <1>8, <2>1, <2>2, <2>3, <2>4, <2>5
<1>10. sub.count # 0 => /\ woa = sub.state /\ SubWho # 0 /\ m[SubWho].en
                        /\ m[SubWho].left + sub.count + 1 = LongLen
  BY <1>0, <1>1, Decision DEF IInv, InnerBurst, SubHold
<1>11. ASSUME sub'.count # 0
       PROVE  /\ SubWho # 0
              /\ m'[SubWho].en
              /\ m'[SubWho].left + sub'.count + 1 = LongLen
              /\ LockedRead(m'[SubWho]) <=> LockedRead(m[SubWho])
  <2>1. CASE ~subAck
    BY <1>3, <1>7, <1>9, <1>10, <1>11, <2>1 DEF Masters
  <2>2. CASE subAck /\ sub.count # 0
    <3>1. sub.count + 1 < LongLen /\ sub'.count = sub.count + 1
      BY <1>8, <1>9, <1>11, <2>2
    <3>2. SubWho \in Masters /\ m[SubWho].left \in Nat
      BY <1>3, <1>5, <1>10, <2>2 DEF Masters, Drive
    <3> QED
      BY <1>7, <1>8, <1>10, <2>2, <3>1, <3>2
  <2>3. CASE subAck /\ sub.count = 0
    <3>1. sub'.count = 1 /\ SubBurst
      BY <1>8, <1>9, <1>11, <2>3
    <3>2. SubWho \in Masters /\ m[SubWho].burst
      BY <1>3, <3>1 DEF SubBurst, Masters
    <3>3. m[SubWho].en /\ m[SubWho].left = LongLen - 1
      BY <1>5, <3>2 DEF Formed
    <3>4. m[SubWho].left > 0 /\ m[SubWho].left - 1 + 1 + 1 = LongLen
      BY <3>3
    <3>5. /\ m'[SubWho].en /\ m'[SubWho].left = m[SubWho].left - 1
          /\ LockedRead(m'[SubWho]) <=> LockedRead(m[SubWho])
      BY <1>7, <2>3, <3>2, <3>3, <3>4
    <3> QED
      BY <3>1, <3>2, <3>4, <3>5 DEF Masters
  <2> QED
    BY <1>3, <2>1, <2>2, <2>3
<1> QED
  BY <1>1, <1>2, <1>4, <1>7, <1>9, <1>11

LEMMA StepIInv ==
  ASSUME IInv, NEW ack \in BOOLEAN, Cycle(ack)
  PROVE  IInv'
<1> DEFINE woa == Woa(sub, m)
           subAck == ack /\ TopNext = "M6"
<1>0. TypeOK /\ DrivesFormed
  BY DEF IInv
<1>1. TypeOK' /\ DrivesFormed'
  BY <1>0, TypeStep
<1>2. /\ SubWho = Selected(woa)
      /\ sub'.state = NextState(woa, subAck)
      /\ sub'.mem.en = SubEn /\ sub'.mem.ack = subAck
      /\ subAck => SubEn
      /\ \A i \in Masters : m[i].en /\ ~(subAck /\ SubWho = i) => m'[i] = m[i]
      /\ ~subAck => sub'.count = sub.count
      /\ sub'.count # 0 =>
           /\ SubWho # 0
           /\ m'[SubWho].en
           /\ m'[SubWho].left + sub'.count + 1 = LongLen
           /\ LockedRead(m'[SubWho]) <=> LockedRead(m[SubWho])
  BY InnerStep
<1>3. SubWho \in 0..4
  BY <1>0, PortOwner
<1>4. SubEn => SubWho \in Masters /\ m[SubWho].en
  BY <1>3 DEF SubEn, Masters
<1>5. Selected(sub'.state) = SubWho
  BY <1>2 DEF NextState, Selected
<1>6. InnerBurst'
  BY <1>2, <1>5 DEF InnerBurst
<1>7. InnerWait'
  BY <1>2, <1>4, <1>5 DEF InnerWait, Masters
<1>8. woa = "M1" => ~LockedRead(m1)
  BY <1>0, Decision DEF IInv, PlainAccess, SubHold
<1>9. woa = "M3" => ~LockedRead(m3)
  BY <1>0, Decision DEF IInv, PlainAccess, SubHold
<1>10. sub'.state = "M1" => woa = "M1" /\ SubWho = 1
  BY <1>2 DEF NextState, Selected
<1>11. sub'.state = "M3" => woa = "M3" /\ SubWho = 3
  BY <1>2 DEF NextState, Selected
<1>12. PlainAccess("M1", m1)'
  BY <1>2, <1>4, <1>8, <1>10, Wires DEF PlainAccess
<1>13. PlainAccess("M3", m3)'
  BY <1>2, <1>4, <1>9, <1>11, Wires DEF PlainAccess
<1>14. /\ ack /\ Owner = 1 <=> subAck /\ SubWho = 1
       /\ ack /\ Owner = 3 <=> subAck /\ SubWho = 3
  <2>1. \A i \in Masters : ack /\ Owner = i <=> subAck /\ SubWho = i
    BY <1>0, PortOwner
  <2> QED
    BY <2>1 DEF Masters
<1>15. holder' = NextHolder(ack)
  BY DEF Cycle
<1>16. Section(1, "M1", {"M1LOCK1", "M1LOCK2", "M12LOCKT"})'
  <2> SUFFICES ASSUME holder' = 1
               PROVE  \/ sub'.state \in {"M1LOCK1", "M1LOCK2", "M12LOCKT"}
                      \/ sub'.state = "M1" /\ sub'.mem.en /\ ~sub'.mem.ack
    BY DEF Section
  <2>1. CASE subAck /\ SubWho = 1 /\ LockedRead(m1)
    BY <1>2, <1>8, <2>1 DEF NextState, Selected
  <2>2. CASE ~(subAck /\ SubWho = 1 /\ LockedRead(m1))
    <3>1. /\ holder = 1 /\ ~(subAck /\ SubWho = 1)
          /\ (m1.en \/ m1.lock) \/ (subAck /\ SubWho = 3)
      <4>1. CASE ack /\ Owner = 1
        BY <1>14, <1>15, <2>2, <4>1, Wires DEF NextHolder, DataMasters
      <4>2. CASE ack /\ Owner = 3
        BY <1>14, <1>15, <2>2, <4>2, Wires DEF NextHolder, DataMasters
      <4>3. CASE ~(ack /\ Owner \in DataMasters)
        <5>1. holder = 1 /\ ~SilentlyUnlocked
          BY <1>15, <4>3 DEF NextHolder
        <5> QED
          BY <1>14, <4>3, <5>1, Wires DEF SilentlyUnlocked, DataMasters
      <4> QED
        BY <4>1, <4>2, <4>3 DEF DataMasters
    <3>2. \/ sub.state \in {"M1LOCK1", "M1LOCK2", "M12LOCKT"}
          \/ sub.state = "M1" /\ sub.mem.en /\ ~sub.mem.ack
      BY <3>1 DEF IInv, Section
    <3>3. \/ woa \in {"M1LOCK1", "M1LOCK2", "M12LOCKT"}
          \/ woa = "M1" /\ m1.en
          \/ woa = "IDLE" /\ ~m1.en /\ ~m1.lock
      <4>1. CASE sub.state = "M1" /\ sub.mem.en /\ ~sub.mem.ack
        BY <1>0, <4>1, Decision, Wires DEF IInv, InnerWait, SubHold, LockingStates, Selected
      <4>2. CASE sub.state \in {"M1LOCK1", "M1LOCK2", "M12LOCKT"}
        BY <1>0, <4>2, Decision
      <4> QED
        BY <3>2, <4>1, <4>2
    <3>4. CASE woa = "M1" /\ m1.en
      <4>1. SubWho = 1 /\ sub'.state = "M1"
        BY <1>2, <3>4 DEF NextState, Selected
      <4>2. SubEn
        BY <3>4, <4>1, Wires DEF SubEn
      <4> QED
        BY <1>2, <3>1, <4>1, <4>2
    <3>5. CASE woa = "IDLE" /\ ~m1.en /\ ~m1.lock
      BY <1>2, <3>1, <3>5 DEF Selected
    <3>6. CASE woa \in {"M1LOCK1", "M1LOCK2", "M12LOCKT"}
      BY <1>2, <3>6 DEF NextState
    <3> QED
      BY <3>3, <3>4, <3>5, <3>6
  <2> QED
    BY <2>1, <2>2
<1>17. Section(3, "M3", {"M3LOCK1", "M3LOCK2", "M34LOCKT"})'
  <2> SUFFICES ASSUME holder' = 3
               PROVE  \/ sub'.state \in {"M3LOCK1", "M3LOCK2", "M34LOCKT"}
                      \/ sub'.state = "M3" /\ sub'.mem.en /\ ~sub'.mem.ack
    BY DEF Section
  <2>1. CASE subAck /\ SubWho = 3 /\ LockedRead(m3)
    BY <1>2, <1>9, <2>1 DEF NextState, Selected
  <2>2. CASE ~(subAck /\ SubWho = 3 /\ LockedRead(m3))
    <3>1. /\ holder = 3 /\ ~(subAck /\ SubWho = 3)
          /\ (m3.en \/ m3.lock) \/ (subAck /\ SubWho = 1)
      <4>1. CASE ack /\ Owner = 1
        BY <1>14, <1>15, <2>2, <4>1, Wires DEF NextHolder, DataMasters
      <4>2. CASE ack /\ Owner = 3
        BY <1>14, <1>15, <2>2, <4>2, Wires DEF NextHolder, DataMasters
      <4>3. CASE ~(ack /\ Owner \in DataMasters)
        <5>1. holder = 3 /\ ~SilentlyUnlocked
          BY <1>15, <4>3 DEF NextHolder
        <5> QED
          BY <1>14, <4>3, <5>1, Wires DEF SilentlyUnlocked, DataMasters
      <4> QED
        BY <4>1, <4>2, <4>3 DEF DataMasters
    <3>2. \/ sub.state \in {"M3LOCK1", "M3LOCK2", "M34LOCKT"}
          \/ sub.state = "M3" /\ sub.mem.en /\ ~sub.mem.ack
      BY <3>1 DEF IInv, Section
    <3>3. \/ woa \in {"M3LOCK1", "M3LOCK2", "M34LOCKT"}
          \/ woa = "M3" /\ m3.en
          \/ woa = "IDLE" /\ ~m3.en /\ ~m3.lock
      <4>1. CASE sub.state = "M3" /\ sub.mem.en /\ ~sub.mem.ack
        BY <1>0, <4>1, Decision, Wires DEF IInv, InnerWait, SubHold, LockingStates, Selected
      <4>2. CASE sub.state \in {"M3LOCK1", "M3LOCK2", "M34LOCKT"}
        BY <1>0, <4>2, Decision
      <4> QED
        BY <3>2, <4>1, <4>2
    <3>4. CASE woa = "M3" /\ m3.en
      <4>1. SubWho = 3 /\ sub'.state = "M3"
        BY <1>2, <3>4 DEF NextState, Selected
      <4>2. SubEn
        BY <3>4, <4>1, Wires DEF SubEn
      <4> QED
        BY <1>2, <3>1, <4>1, <4>2
    <3>5. CASE woa = "IDLE" /\ ~m3.en /\ ~m3.lock
      BY <1>2, <3>1, <3>5 DEF Selected
    <3>6. CASE woa \in {"M3LOCK1", "M3LOCK2", "M34LOCKT"}
      BY <1>2, <3>6 DEF NextState
    <3> QED
      BY <3>3, <3>4, <3>5, <3>6
  <2> QED
    BY <2>1, <2>2
<1> QED
  BY <1>1, <1>6, <1>7, <1>12, <1>13, <1>16, <1>17 DEF IInv

LEMMA InitIInv == Init => IInv
<1> SUFFICES ASSUME Init PROVE IInv
  OBVIOUS
<1> USE BurstAssumption
<1>1. Quiet \in Drive /\ DmaQuiet \in DmaDrive
  BY DEF Quiet, Drive, DmaQuiet, DmaDrive
<1>2. NoCommand \in BOOLEAN \X BOOLEAN \X BOOLEAN
  BY Zenon DEF NoCommand
<1>3. TypeOK
  BY <1>1, <1>2 DEF Init, TypeOK, SubStates
<1>4. DrivesFormed
  BY DEF Init, DrivesFormed, Formed, Quiet
<1> QED
  BY <1>3, <1>4 DEF Init, IInv, InnerBurst, InnerWait, PlainAccess, Section

LEMMA UnchangedIInv == IInv /\ UNCHANGED vars => IInv'
<1> SUFFICES ASSUME IInv, UNCHANGED vars PROVE IInv'
  OBVIOUS
<1>1. /\ sub' = sub /\ top' = top /\ holder' = holder
      /\ m1' = m1 /\ m2' = m2 /\ m3' = m3 /\ m4' = m4 /\ m5' = m5
  BY DEF vars
<1>2. m' = m
  BY <1>1 DEF m
<1> QED
  BY <1>1, <1>2 DEF IInv, TypeOK, DrivesFormed, InnerBurst, InnerWait, PlainAccess, Section

THEOREM Invariance == Spec => []IInv
<1>1. IInv /\ [Next]_vars => IInv'
  BY StepIInv, UnchangedIInv DEF Next, Acknowledge, WaitState
<1> QED
  BY <1>1, InitIInv, PTL DEF Spec

\* Every register and every wire keeps its type; in particular the beat counters
\* never leave 0..LongLen-1, whatever the mixture of burst lengths.
THEOREM TypeCorrect == Spec => []TypeOK
<1>1. IInv => TypeOK
  BY DEF IInv
<1> QED
  BY <1>1, Invariance, PTL

LEMMA SectionOwner == IInv => LockExclusion
<1> SUFFICES ASSUME IInv PROVE LockExclusion
  OBVIOUS
<1>0. TypeOK
  BY DEF IInv
<1>1. Owner \in {5, Selected(Woa(sub, m))}
  BY DEF Owner, SubWho
<1>2. holder = 1 => Woa(sub, m) \in {"M1LOCK1", "M1LOCK2", "M12LOCKT", "M1", "IDLE"}
  BY <1>0, Decision DEF IInv, Section, SubHold, LockingStates
<1>3. holder = 3 => Woa(sub, m) \in {"M3LOCK1", "M3LOCK2", "M34LOCKT", "M3", "IDLE"}
  BY <1>0, Decision DEF IInv, Section, SubHold, LockingStates
<1> QED
  BY <1>1, <1>2, <1>3 DEF LockExclusion, Selected

\* While one cpu is inside a locked section no access of the other cpu reaches
\* the memory: the read-modify-write of TAS.B is atomic between the two cpus.
THEOREM LockedSectionsExclusive == Spec => []LockExclusion
  BY Invariance, SectionOwner, PTL

-----------------------------------------------------------------------------
(***************************************************************************)
(* The memory port: the outer stage, its count of beats and how it follows *)
(* the inner stage.                                                        *)
(***************************************************************************)

\* Who was at the port in the cycle before, by the states.
PortMeans ==
  top.mem.en \/ top.count # 0 =>
    top.mem.who = IF top.state = "M5" THEN 5 ELSE Selected(sub.state)
\* What waits at the port waits in the stage it came through, unchanged.
PortWait ==
  top.mem.en /\ ~top.mem.ack =>
    /\ top.state = "M5" => m5.en
    /\ top.state = "M6" => sub.mem.en /\ ~sub.mem.ack
    /\ Command(top.mem.who) = top.mem.cmd
\* Only the DMA engine has short bursts.
ShortIsDma == top.short => top.state = "M5"

PortInv == IInv /\ PortMeans /\ PortWait /\ CountsAgree /\ ShortIsDma

\* A burst of the DMA engine: how long it is, and how far.
Length(short) == IF short THEN ShortLen ELSE LongLen
DmaFormed(o) ==
  /\ ~(o.burst32 /\ o.burst16)
  /\ o.burst32 \/ o.burst16 => o.left = Length(o.burst16) - 1
DmaBeats ==
  IF top.state = "M5" /\ top.count # 0
  THEN m5.en /\ m5.left + 1 + top.count = Length(top.short)
  ELSE DmaFormed(m5)

BeatInv == PortInv /\ DmaBeats

-----------------------------------------------------------------------------
\* A stage that is in a burst, or has an access waiting, serves the same master.
LEMMA InnerStays ==
  ASSUME IInv, sub.count # 0 \/ (sub.mem.en /\ ~sub.mem.ack)
  PROVE  SubWho = Selected(sub.state) /\ SubEn
<1>0. TypeOK BY DEF IInv
<1>1. Selected(sub.state) # 0 /\ m[Selected(sub.state)].en
  BY DEF IInv, InnerBurst, InnerWait
<1>2. Selected(Woa(sub, m)) = Selected(sub.state)
  <2>1. CASE SubHold(sub) BY <1>0, <2>1, Decision
  <2>2. CASE ~SubHold(sub)
    <3>1. sub.state \in LockingStates BY <2>2 DEF SubHold
    <3>2. CASE sub.state \in {"M1LOCK1", "M3LOCK1"} BY <1>0, <3>2, Decision
    <3>3. CASE sub.state = "M1LOCK2"
      <4>1. m1.en BY <1>1, <3>3, Wires DEF Selected
      <4>2. Woa(sub, m) = Grant(1, m)
        BY <2>2, <3>3, <4>1, Wires DEF Woa, WhileLocked
      <4> QED BY <3>3, <4>2 DEF Selected, Grant
    <3>4. CASE sub.state = "M3LOCK2"
      <4>1. m3.en BY <1>1, <3>4, Wires DEF Selected
      <4>2. Woa(sub, m) = Grant(3, m)
        BY <2>2, <3>4, <4>1, Wires DEF Woa, WhileLocked
      <4> QED BY <3>4, <4>2 DEF Selected, Grant
    <3> QED BY <3>1, <3>2, <3>3, <3>4 DEF LockingStates
  <2> QED BY <2>1, <2>2
<1> QED BY <1>1, <1>2 DEF SubWho, SubEn

\* So does the port.
LEMMA PortStays ==
  ASSUME PortInv, TopHold PROVE TopNext = top.state /\ Owner = top.mem.who
<1>1. TypeOK BY DEF PortInv, IInv
<1>2. TopNext = top.state BY DEF TopNext
<1>3. top.mem.who = IF top.state = "M5" THEN 5 ELSE Selected(sub.state)
  BY DEF PortInv, PortMeans, TopHold
<1>4. CASE top.state = "M5" BY <1>2, <1>3, <1>4 DEF Owner
<1>5. CASE top.state = "M6"
  <2>1. sub.count # 0 \/ (sub.mem.en /\ ~sub.mem.ack)
    BY <1>5 DEF PortInv, CountsAgree, PortWait, TopHold
  <2> QED BY <1>2, <1>3, <1>5, <2>1, InnerStays DEF Owner, PortInv
<1> QED BY <1>1, <1>2, <1>4, <1>5 DEF TypeOK

\* The registers of both stages after an edge.
LEMMA PortStep ==
  ASSUME TypeOK, NEW ack \in BOOLEAN, Cycle(ack)
  PROVE  /\ top'.state = TopNext /\ top'.short = NextShort
         /\ top'.count = NextCount(top.count, ack, PortBurst, Length(top.short))
         /\ top'.mem.who = Owner /\ top'.mem.en = PortEn /\ top'.mem.ack = ack
         /\ top'.mem.cmd = Command(Owner)
         /\ Selected(sub'.state) = SubWho
         /\ sub'.mem.en = SubEn /\ sub'.mem.ack = (ack /\ TopNext = "M6")
         /\ sub'.count = NextCount(sub.count, ack /\ TopNext = "M6", SubBurst, LongLen)
         /\ m5' \in DmaSteps(ack /\ Owner = 5)
<1>1. sub'.state = NextState(Woa(sub, m), ack /\ TopNext = "M6") BY DEF Cycle
<1>2. Selected(sub'.state) = SubWho BY <1>1 DEF NextState, Selected, SubWho
<1> QED BY <1>2 DEF Cycle, Length

LEMMA PortMeansStep ==
  ASSUME TypeOK, NEW ack \in BOOLEAN, Cycle(ack) PROVE PortMeans'
BY PortStep DEF PortMeans, Owner

\* A master that drives what it drove has the command that it had.
LEMMA SameCommand ==
  ASSUME \/ top'.mem.who = 5 /\ m5' = m5
         \/ top'.mem.who \in Masters /\ m'[top'.mem.who] = m[top'.mem.who]
  PROVE  Command(top.mem.who)' = Command(top'.mem.who)
BY DEF Command, Masters

LEMMA PortWaitStep ==
  ASSUME IInv, NEW ack \in BOOLEAN, Cycle(ack) PROVE PortWait'
<1> SUFFICES ASSUME top'.mem.en, ~top'.mem.ack
             PROVE  /\ top'.state = "M5" => m5'.en
                    /\ top'.state = "M6" => sub'.mem.en /\ ~sub'.mem.ack
                    /\ Command(top.mem.who)' = top'.mem.cmd
  BY DEF PortWait
<1>0. TypeOK BY DEF IInv
<1>1. PortEn /\ ~ack BY <1>0, PortStep
<1>2. CASE TopNext = "M5"
  <2>1. m5.en BY <1>1, <1>2 DEF PortEn
  <2>2. m5' = m5 BY <1>0, <1>1, <2>1, PortStep DEF DmaSteps
  <2>3. Owner = 5 BY <1>2 DEF Owner
  <2>4. Command(top.mem.who)' = top'.mem.cmd
    BY <1>0, <2>2, <2>3, PortStep, SameCommand
  <2> QED BY <1>0, <1>2, <2>1, <2>2, <2>4, PortStep
<1>3. CASE TopNext = "M6"
  <2>1. SubEn /\ Owner = SubWho BY <1>1, <1>3 DEF PortEn, Owner
  <2>2. SubWho \in Masters /\ m[SubWho].en
    BY <1>0, <2>1, PortOwner DEF SubEn, Masters
  <2>3. m'[SubWho] = m[SubWho] BY <1>1, <2>2, InnerStep
  <2>4. Command(top.mem.who)' = top'.mem.cmd
    BY <1>0, <2>1, <2>2, <2>3, PortStep, SameCommand
  <2> QED BY <1>0, <1>1, <1>3, <2>1, <2>4, PortStep
<1> QED BY <1>0, <1>2, <1>3, PortOwner, PortStep

\* The two counts: the inner one counts the beats of the cpus with the outer one.
LEMMA CountsStep ==
  ASSUME PortInv, NEW ack \in BOOLEAN, Cycle(ack) PROVE CountsAgree'
<1> USE BurstAssumption
<1>0. TypeOK /\ IInv BY DEF PortInv, IInv
<1>1. top.count # 0 => TopNext = top.state BY PortStays DEF TopHold
<1>2. CASE TopNext = "M5"
  <2>1. sub.count = 0
    BY <1>0, <1>1, <1>2 DEF PortInv, CountsAgree
  <2>2. sub'.count = 0 BY <1>0, <1>2, <2>1, PortStep DEF NextCount
  <2> QED BY <1>0, <1>2, <2>2, PortStep DEF CountsAgree
<1>3. CASE TopNext = "M6"
  <2>1. sub.count = top.count BY <1>0, <1>1, <1>3 DEF PortInv, CountsAgree, TypeOK
  <2>2. PortBurst = SubBurst BY <1>3 DEF PortBurst
  <2>3. top.count # 0 => Length(top.short) = LongLen
    BY <1>1, <1>3 DEF PortInv, ShortIsDma, Length
  <2>4. sub'.count = top'.count
    BY <1>0, <1>3, <2>1, <2>2, <2>3, PortStep DEF NextCount
  <2> QED BY <1>0, <1>3, <2>4, PortStep DEF CountsAgree
<1> QED BY <1>0, <1>2, <1>3, PortOwner

LEMMA PortInvStep ==
  ASSUME PortInv, NEW ack \in BOOLEAN, Cycle(ack) PROVE PortInv'
<1>1. IInv /\ TypeOK BY DEF PortInv, IInv
<1>2. ShortIsDma' BY <1>1, PortStep DEF ShortIsDma, NextShort
<1> QED BY <1>1, <1>2, StepIInv, PortMeansStep, PortWaitStep, CountsStep DEF PortInv

LEMMA InitPortInv == Init => PortInv
<1> SUFFICES ASSUME Init PROVE PortInv OBVIOUS
<1> QED BY InitIInv DEF Init, PortInv, PortMeans, PortWait, CountsAgree, ShortIsDma

LEMMA UnchangedPortInv == PortInv /\ UNCHANGED vars => PortInv'
<1> SUFFICES ASSUME PortInv, UNCHANGED vars PROVE PortInv' OBVIOUS
<1>1. IInv' BY UnchangedIInv DEF PortInv
<1>2. /\ sub' = sub /\ top' = top /\ m5' = m5 /\ m' = m BY DEF vars, m
<1> QED BY <1>1, <1>2 DEF PortInv, PortMeans, PortWait, CountsAgree, ShortIsDma, Command

-----------------------------------------------------------------------------
\* How the registers of the two stages go together: who was at the port, what
\* waits, whose beats are counted (bus_mux_typec.vhm, both stages).
THEOREM PortInvariance == Spec => []PortInv
<1>1. PortInv /\ [Next]_vars => PortInv'
  BY PortInvStep, UnchangedPortInv DEF Next, Acknowledge, WaitState
<1> QED BY <1>1, InitPortInv, PTL DEF Spec

\* An access that the memory has not acknowledged keeps the port, with its command,
\* although the inner stage leaves the locked states out of its hold condition.
THEOREM WaitingKeepsPort == Spec => []StableUntilAck
<1>1. ASSUME PortInv, top.mem.en, ~top.mem.ack
      PROVE  Owner = top.mem.who /\ PortEn /\ Command(Owner) = top.mem.cmd
  <2>1. TopNext = top.state /\ Owner = top.mem.who BY <1>1, PortStays DEF TopHold
  <2>2. Command(Owner) = top.mem.cmd BY <1>1, <2>1 DEF PortInv, PortWait
  <2>3. top.state = "M5" => PortEn BY <1>1, <2>1 DEF PortInv, PortWait, PortEn
  <2>4. ASSUME top.state = "M6" PROVE PortEn
    <3>1. SubEn BY <1>1, <2>4, InnerStays DEF PortInv, PortWait
    <3> QED BY <2>1, <2>4, <3>1 DEF PortEn
  <2> QED BY <1>1, <2>1, <2>2, <2>3, <2>4 DEF PortInv, IInv, TypeOK
<1>2. PortInv => StableUntilAck BY <1>1 DEF StableUntilAck
<1> QED BY <1>2, PortInvariance, PTL

\* Nobody gets between two beats of a burst (the counters of both stages).
THEOREM BurstsAreWhole == Spec => []BurstIndivisible
<1>1. PortInv => BurstIndivisible BY PortStays DEF BurstIndivisible, TopHold
<1> QED BY <1>1, PortInvariance, PTL

\* The two stages count the beats of a cpu's burst alike, each with its own counter.
THEOREM CountersAgree == Spec => []CountsAgree
<1>1. PortInv => CountsAgree BY DEF PortInv
<1> QED BY <1>1, PortInvariance, PTL

-----------------------------------------------------------------------------
\* With the acknowledge of a beat the count goes up, and back to 0 with the last.
LEMMA Beat ==
  ASSUME NEW c \in Nat, NEW n \in Nat, NEW burst \in BOOLEAN, c # 0, c < n
  PROVE  NextCount(c, TRUE, burst, n) = IF c + 1 = n THEN 0 ELSE c + 1
<1>1. NextCount(c, TRUE, burst, n) = (c + 1) % n BY DEF NextCount
<1>2. n % n = 0 OBVIOUS
<1>3. c + 1 # n => (c + 1) % n = c + 1 OBVIOUS
<1> QED BY <1>1, <1>2, <1>3

\* The DMA engine asks for one length at a time.
OneLength == \A x \in DmaDrives : ~(x.burst32 /\ x.burst16)

LEMMA NewDrives == ASSUME OneLength PROVE \A x \in DmaDrives : DmaFormed(x)
BY DmaAssumption DEF OneLength, DmaFormed, Length, DmaDrive

\* The DMA engine keeps an unanswered request, goes on with a burst, or asks anew.
LEMMA DmaStep ==
  ASSUME TypeOK, OneLength, NEW acked \in BOOLEAN, NEW x \in DmaSteps(acked)
  PROVE  /\ m5.en /\ ~acked => x = m5
         /\ m5.en /\ acked /\ m5.left > 0 => x.en /\ x.left = m5.left - 1
         /\ ~m5.en \/ (acked /\ m5.left = 0) => DmaFormed(x)
         /\ DmaFormed(m5) /\ ~(m5.burst32 \/ m5.burst16) => DmaFormed(x)
<1>0. m5 \in DmaDrive /\ m5.left \in 0..(LongLen - 1) BY DEF TypeOK, DmaDrive
<1>1. CASE m5.en /\ ~acked BY <1>1 DEF DmaSteps
<1>2. CASE m5.en /\ acked /\ m5.left > 0
  <2>1. x = [m5 EXCEPT !.left = @ - 1] BY <1>2 DEF DmaSteps
  <2>2. /\ x.en /\ x.left = m5.left - 1
        /\ x.burst32 = m5.burst32 /\ x.burst16 = m5.burst16
    BY <1>0, <1>2, <2>1 DEF DmaDrive
  <2> QED BY <1>2, <2>2 DEF DmaFormed
<1>3. CASE ~(m5.en /\ (~acked \/ m5.left > 0))
  <2>1. x \in DmaDrives BY <1>3 DEF DmaSteps
  <2> QED BY <1>0, <1>3, <2>1, NewDrives
<1> QED BY <1>1, <1>2, <1>3

LEMMA BeatsStep ==
  ASSUME OneLength, BeatInv, NEW ack \in BOOLEAN, Cycle(ack) PROVE DmaBeats'
<1> USE BurstAssumption
<1>0. TypeOK BY DEF BeatInv, PortInv, IInv
<1>1. /\ m5 \in DmaDrive /\ m5.left \in 0..(LongLen - 1) /\ m5.en \in BOOLEAN
      /\ top.count \in 0..(LongLen - 1) /\ top.short \in BOOLEAN
      /\ m5.burst32 \in BOOLEAN /\ m5.burst16 \in BOOLEAN
      /\ \A b \in BOOLEAN : Length(b) \in Nat /\ Length(b) > 1
  BY <1>0 DEF TypeOK, DmaDrive, Length
<1>2. top.count # 0 => TopNext = top.state
  BY PortStays DEF TopHold, BeatInv
<1>3. ~(top.state = "M5" /\ top.count # 0) => DmaFormed(m5) BY DEF BeatInv, DmaBeats
<1>4. Owner = 5 <=> TopNext = "M5" BY <1>0, PortOwner DEF Owner
<1>5. /\ top'.state = TopNext /\ top'.short = NextShort
      /\ top'.count = NextCount(top.count, ack, PortBurst, Length(top.short))
      /\ m5' \in DmaSteps(ack /\ Owner = 5)
  BY <1>0, PortStep
<1>6. PortBurst \in BOOLEAN BY <1>0, PortOwner
<1>7. CASE TopNext = "M5" /\ ack
  <2>1. m5.en /\ Owner = 5 BY <1>4, <1>7 DEF Cycle, PortEn
  <2>2. m5' \in DmaSteps(TRUE) BY <1>5, <1>7, <2>1
  <2>3. CASE top.count = 0
    <3>1. DmaFormed(m5) BY <1>3, <2>3
    <3>2. PortBurst = (m5.burst32 \/ m5.burst16) BY <1>7 DEF PortBurst
    <3>3. top'.count = IF PortBurst THEN 1 ELSE 0
      BY <1>5, <1>7, <2>3 DEF NextCount
    <3>4. CASE PortBurst
      <4>1. m5.left = Length(m5.burst16) - 1 /\ m5.left > 0
        BY <1>1, <3>1, <3>2, <3>4 DEF DmaFormed
      <4>2. m5'.en /\ m5'.left = m5.left - 1 BY <1>0, <2>1, <2>2, <4>1, DmaStep
      <4>3. top'.short = m5.burst16 BY <1>1, <1>5, <1>7, <2>1, <2>3 DEF NextShort, DmaDrive
      <4>4. top'.count = 1 BY <3>3, <3>4
      <4>5. m5'.left + 1 + top'.count = Length(top'.short)
        BY <1>1, <4>1, <4>2, <4>3, <4>4
      <4>6. top'.count # 0 BY <4>4
      <4> QED BY <1>5, <1>7, <4>2, <4>5, <4>6 DEF DmaBeats, Length
    <3>5. CASE ~PortBurst
      <4>1. DmaFormed(m5') BY <1>0, <2>2, <3>1, <3>2, <3>5, DmaStep
      <4> QED BY <3>3, <3>5, <4>1 DEF DmaBeats, DmaFormed, Length
    <3> QED BY <1>6, <3>4, <3>5
  <2>4. CASE top.count # 0
    <3>1. m5.left + 1 + top.count = Length(top.short)
      BY <1>2, <1>7, <2>4 DEF BeatInv, DmaBeats
    <3>2. top'.count = IF m5.left = 0 THEN 0 ELSE top.count + 1
      <4> DEFINE c == top.count
                 left == m5.left
                 n == Length(top.short)
      <4>1. top'.count = NextCount(c, TRUE, PortBurst, n) BY <1>5, <1>7
      <4>2. c \in Nat /\ left \in Nat /\ n \in Nat /\ n > 1 BY <1>1
      <4>3. c # 0 /\ c < n /\ (c + 1 = n <=> left = 0) BY <2>4, <3>1, <4>2
      <4> HIDE DEF c, left, n
      <4>4. NextCount(c, TRUE, PortBurst, n) = IF c + 1 = n THEN 0 ELSE c + 1
        BY <1>6, <4>2, <4>3, Beat
      <4> QED BY <4>1, <4>3, <4>4 DEF c, left
    <3>3. CASE m5.left = 0
      <4>1. top'.count = 0 BY <3>2, <3>3
      <4>2. DmaFormed(m5') BY <1>0, <2>2, <3>3, DmaStep
      <4> QED BY <4>1, <4>2 DEF DmaBeats, DmaFormed, Length
    <3>4. CASE m5.left > 0
      <4>1. top'.count = top.count + 1 BY <3>2, <3>4
      <4>2. m5'.en /\ m5'.left = m5.left - 1 BY <1>0, <2>1, <2>2, <3>4, DmaStep
      <4>3. top'.short = top.short BY <1>1, <1>5, <1>7, <2>1, <2>4 DEF NextShort
      <4>4. m5'.left + 1 + top'.count = Length(top'.short)
        BY <1>1, <3>1, <4>1, <4>2, <4>3
      <4>5. top'.count # 0 BY <1>1, <4>1
      <4> QED BY <1>5, <1>7, <4>2, <4>4, <4>5 DEF DmaBeats, Length
    <3> QED BY <1>1, <3>3, <3>4
  <2> QED BY <2>3, <2>4
<1>8. CASE TopNext = "M5" /\ ~ack
  <2>1. top'.count = top.count BY <1>5, <1>8 DEF NextCount
  <2>2. m5' \in DmaSteps(FALSE) BY <1>5, <1>8
  <2>3. CASE top.count = 0
    <3>1. DmaFormed(m5') BY <1>0, <1>1, <1>3, <2>2, <2>3, DmaStep
    <3> QED BY <2>1, <2>3, <3>1 DEF DmaBeats, DmaFormed, Length
  <2>4. CASE top.count # 0
    <3>1. m5.en /\ m5.left + 1 + top.count = Length(top.short)
      BY <1>2, <1>8, <2>4 DEF BeatInv, DmaBeats
    <3>2. m5' = m5 BY <1>0, <2>2, <3>1, DmaStep
    <3>3. top'.short = top.short BY <1>1, <1>5, <1>8, <2>4, <3>1 DEF NextShort
    <3> QED BY <1>5, <1>8, <2>1, <2>4, <3>1, <3>2, <3>3 DEF DmaBeats, Length
  <2> QED BY <2>3, <2>4
<1>9. CASE TopNext = "M6"
  <2>1. DmaFormed(m5) BY <1>2, <1>3, <1>9
  <2>2. m5' \in DmaSteps(FALSE) BY <1>4, <1>5, <1>9
  <2>3. DmaFormed(m5') BY <1>0, <1>1, <2>1, <2>2, DmaStep
  <2> QED BY <1>5, <1>9, <2>3 DEF DmaBeats, DmaFormed, Length
<1> QED BY <1>0, <1>7, <1>8, <1>9, PortOwner

\* The beats counted at the port and those its master still expects make a burst,
\* for both lengths and through both counters, if the DMA engine asks for one
\* length at a time (dmaburst16at, the wrap of the counters).
THEOREM BeatsAddUp == ASSUME OneLength PROVE Spec => []BeatsMatch
<1>1. Init => BeatInv
  <2> SUFFICES ASSUME Init PROVE BeatInv OBVIOUS
  <2>1. DmaFormed(DmaQuiet) BY DEF DmaFormed, DmaQuiet
  <2> QED BY <2>1, InitPortInv DEF Init, BeatInv, DmaBeats, DmaFormed, Length
<1>2. BeatInv /\ [Next]_vars => BeatInv'
  <2> SUFFICES ASSUME BeatInv, [Next]_vars PROVE BeatInv' OBVIOUS
  <2>1. ASSUME NEW ack \in BOOLEAN, Cycle(ack) PROVE BeatInv'
    BY <2>1, PortInvStep, BeatsStep DEF BeatInv
  <2>2. CASE UNCHANGED vars
    <3>1. PortInv' BY <2>2, UnchangedPortInv DEF BeatInv
    <3>2. DmaBeats' BY <2>2 DEF BeatInv, DmaBeats, DmaFormed, Length, vars
    <3> QED BY <3>1, <3>2 DEF BeatInv
  <2> QED BY <2>1, <2>2 DEF Next, Acknowledge, WaitState
<1>3. BeatInv => BeatsMatch
  <2> SUFFICES ASSUME BeatInv, top.count # 0
               PROVE  (IF Owner = 5 THEN m5.left ELSE m[Owner].left) + 1 + top.count
                        = Length(top.short)
    BY DEF BeatsMatch, Length
  <2>1. TopNext = top.state BY PortStays DEF BeatInv, TopHold
  <2>2. TypeOK BY DEF BeatInv, PortInv, IInv
  <2>3. CASE top.state = "M5" BY <2>1, <2>3 DEF BeatInv, DmaBeats, Owner
  <2>4. CASE top.state = "M6"
    <3>1. sub.count = top.count BY <2>4 DEF BeatInv, PortInv, CountsAgree
    <3>2. SubWho = Selected(sub.state) BY <3>1, InnerStays DEF BeatInv, PortInv
    <3>3. SubWho \in 0..4 /\ Owner = SubWho
      BY <2>1, <2>4 DEF Owner, SubWho, Selected
    <3>4. m[SubWho].left + sub.count + 1 = LongLen
      BY <3>1, <3>2 DEF BeatInv, PortInv, IInv, InnerBurst
    <3>5. Length(top.short) = LongLen
      BY <2>2, <2>4 DEF BeatInv, PortInv, ShortIsDma, Length
    <3>6. top.count \in Nat /\ m[SubWho].left \in Nat
      <4>1. SubWho \in Masters
        BY <2>4, <3>1, <3>2, <3>3 DEF BeatInv, PortInv, IInv, InnerBurst, Masters
      <4> QED BY <2>2, <4>1, Typed, BurstAssumption DEF TypeOK, Drive
    <3> QED BY <3>1, <3>3, <3>4, <3>5, <3>6
  <2> QED BY <2>2, <2>3, <2>4 DEF TypeOK
<1> QED BY <1>1, <1>2, <1>3, PTL DEF Spec
=============================================================================

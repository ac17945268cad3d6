--------------------------- MODULE SharedRamProofs ---------------------------
(***************************************************************************)
(* What the arbiter of the shared RAM guarantees, proved: no write meets    *)
(* another access, whatever the cpus do, and a lock taken with TAS.B is     *)
(* held by one cpu, if cpu1 is not switched off inside a TAS.B.             *)
(***************************************************************************)
EXTENDS SharedRam, TLAPS

TypeOK ==
  /\ state_ramarb \in {"IDLE", "LOCK0", "LOCK1"}
  /\ cpu1en \in BOOLEAN
  /\ pc \in [Cpus -> Points]
  /\ seen \in [Cpus -> BOOLEAN]
  /\ taken \in BOOLEAN

\* A cpu between the read and the write of its TAS.B is the one the arbiter is
\* locked for, can write, and read what the byte still holds.
Inside(i) == pc[i] \in {"gap", "set"}
Holds(i) == pc[i] \in {"critical", "release"}
Sections ==
  /\ state_ramarb = "LOCK0" <=> Inside(0)
  /\ state_ramarb = "LOCK1" <=> Inside(1)
  /\ Inside(1) => cpu1en
Fresh == \A i \in Cpus : Inside(i) => seen[i] = taken
\* At most one cpu holds the lock, and the byte is set while one does.
OneHolder == ~(Holds(0) /\ Holds(1)) /\ (Holds(0) \/ Holds(1) => taken)

IInv == TypeOK /\ Sections /\ Fresh /\ OneHolder

-----------------------------------------------------------------------------
\* The ports: while the arbiter is locked, and in the cycle that locks it, only
\* the holder is let through; a write that is let through is alone.
LEMMA Alone ==
  ASSUME NEW i \in Cpus, NEW j \in Cpus, i # j, Granted(i), wr(i) PROVE ~Granted(j)
<1>1. CASE state_ramarb = "LOCK0" BY <1>1 DEF Cpus, Granted, a_en, Blocked
<1>2. CASE state_ramarb = "LOCK1" BY <1>2 DEF Cpus, Granted, a_en, Blocked
<1>3. CASE state_ramarb \notin {"LOCK0", "LOCK1"}
  <2>1. CASE NextArb = "LOCK0" BY <1>3, <2>1 DEF Cpus, Granted, a_en, Blocked
  <2>2. CASE NextArb = "LOCK1" BY <1>3, <2>2 DEF Cpus, Granted, a_en, Blocked
  <2>3. CASE NextArb \notin {"LOCK0", "LOCK1"}
    BY <1>3, <2>3 DEF Cpus, Granted, a_en, Blocked
  <2> QED BY <2>1, <2>2, <2>3
<1> QED BY <1>1, <1>2, <1>3

\* The arbiter is locked for cpu i after this edge exactly if the cpu has its
\* locked read done in this cycle, or waits inside its section.
LEMMA Locked ==
  ASSUME TypeOK, Sections
  PROVE  /\ NextArb \in {"IDLE", "LOCK0", "LOCK1"}
         /\ NextArb = "LOCK0" <=> (pc[0] = "tas" /\ Granted(0)) \/ pc[0] = "gap"
         /\ NextArb = "LOCK1" <=> (pc[1] = "tas" /\ Granted(1)) \/ pc[1] = "gap"
<1> USE DEF TypeOK, Sections, Inside, Cpus, Points
<1>1. CASE state_ramarb = "LOCK0"
  BY <1>1 DEF NextArb, Granted, a_en, Blocked, en, wr, lock, LockedRead
<1>2. CASE state_ramarb = "LOCK1"
  BY <1>2 DEF NextArb, Granted, a_en, Blocked, en, wr, lock, LockedRead
<1>3. CASE state_ramarb = "IDLE"
  <2>1. CASE LockedRead(0)
    BY <1>3, <2>1 DEF NextArb, Granted, a_en, Blocked, en, wr, lock, LockedRead
  <2>2. CASE ~LockedRead(0) /\ cpu1en /\ LockedRead(1)
    BY <1>3, <2>2 DEF NextArb, Granted, a_en, Blocked, en, wr, lock, LockedRead
  <2>3. CASE ~LockedRead(0) /\ ~(cpu1en /\ LockedRead(1))
    BY <1>3, <2>3 DEF NextArb, Granted, a_en, Blocked, en, wr, lock, LockedRead
  <2> QED BY <2>1, <2>2, <2>3
<1> QED BY <1>1, <1>2, <1>3

\* Only the holder is let through while the arbiter is locked.
LEMMA Guarded ==
  ASSUME TypeOK, Sections
  PROVE  /\ Inside(0) => ~Granted(1)
         /\ Inside(1) => ~Granted(0)
         /\ pc[0] = "set" => Granted(0)
         /\ pc[1] = "set" => Granted(1)
BY DEF TypeOK, Sections, Inside, Cpus, Points, Granted, a_en, Blocked, en

-----------------------------------------------------------------------------
LEMMA InitIInv == Init => IInv
BY DEF Init, IInv, TypeOK, Sections, Fresh, OneHolder, Inside, Holds, Cpus, Points

\* Where a cpu may be after an edge, by where it was.
LEMMA Moves ==
  ASSUME TypeOK, NEW i \in Cpus, NEW p \in After(i)
  PROVE  /\ p \in Points
         /\ p \in {"gap", "set"} => \/ pc[i] = "tas" /\ Granted(i) /\ p = "gap"
                                    \/ pc[i] = "gap"
                                    \/ pc[i] = "set" /\ ~Granted(i) /\ p = "set"
         /\ (pc[i] = "tas" /\ Granted(i)) \/ pc[i] = "gap" => p \in {"gap", "set"}
         /\ p \in {"critical", "release"} => \/ pc[i] = "set" /\ Granted(i) /\ ~seen[i]
                                             \/ pc[i] = "critical"
                                             \/ pc[i] = "release" /\ ~Granted(i)
         /\ pc[i] \in {"critical", "release"} /\ p \notin {"critical", "release"} =>
              pc[i] = "release" /\ Granted(i)
BY DEF TypeOK, After, Points, Cpus, en, Granted

LEMMA TypeStep == ASSUME TypeOK, Sections, Clock PROVE TypeOK'
<1>1. PICK p \in After(0), q \in After(1) : pc' = [i \in Cpus |-> IF i = 0 THEN p ELSE q]
  BY DEF Clock
<1>2. p \in Points /\ q \in Points BY Moves DEF Cpus
<1>3. pc' \in [Cpus -> Points] BY <1>1, <1>2
<1>4. state_ramarb' \in {"IDLE", "LOCK0", "LOCK1"} BY Locked DEF Clock
<1>5. seen' \in [Cpus -> BOOLEAN] BY DEF Clock, TypeOK
<1> QED BY <1>3, <1>4, <1>5 DEF Clock, TypeOK

LEMMA SectionStep ==
  ASSUME ~SplitDisable, TypeOK, Sections, Clock PROVE Sections'
<1>1. PICK p \in After(0), q \in After(1) : pc' = [i \in Cpus |-> IF i = 0 THEN p ELSE q]
  BY DEF Clock
<1>2. pc'[0] = p /\ pc'[1] = q BY <1>1 DEF Cpus
<1>3. state_ramarb' = NextArb BY DEF Clock
<1>4. Inside(0)' <=> (pc[0] = "tas" /\ Granted(0)) \/ pc[0] = "gap"
  BY <1>2, Moves, Guarded DEF Inside, Cpus
<1>5. Inside(1)' <=> (pc[1] = "tas" /\ Granted(1)) \/ pc[1] = "gap"
  BY <1>2, Moves, Guarded DEF Inside, Cpus
<1>6. InSection(1) => cpu1en BY DEF InSection, Granted, a_en, Sections, Inside
<1>7. cpu1en' = TRUE \/ cpu1en' = cpu1en \/ ~InSection(1) BY Zenon DEF Clock
<1>8. Inside(1)' => cpu1en' BY <1>5, <1>6, <1>7 DEF InSection
<1> QED BY <1>3, <1>4, <1>5, <1>8, Locked DEF Sections

LEMMA FreshStep ==
  ASSUME TypeOK, Sections, Fresh, Clock PROVE Fresh'
<1>1. PICK p \in After(0), q \in After(1) : pc' = [i \in Cpus |-> IF i = 0 THEN p ELSE q]
  BY DEF Clock
<1>2. pc'[0] = p /\ pc'[1] = q BY <1>1 DEF Cpus
<1> SUFFICES ASSUME NEW i \in Cpus, Inside(i)' PROVE seen'[i] = taken'
  BY DEF Fresh
<1>3. (pc[i] = "tas" /\ Granted(i)) \/ pc[i] = "gap"
  BY <1>2, Moves, Guarded DEF Inside, Cpus
\* In the cycle of the locked read, and inside the section, nobody writes.
<1>4. \A j \in Cpus : wr(j) => ~Granted(j)
  <2>1. ~wr(i) BY <1>3 DEF wr
  <2>2. ASSUME NEW j \in Cpus, wr(j), Granted(j), j # i PROVE FALSE
    <3>1. CASE pc[i] = "gap" BY <2>2, <3>1, Guarded DEF Inside, Cpus
    <3>2. CASE pc[i] = "tas" /\ Granted(i) BY <2>2, <3>2, Alone
    <3> QED BY <1>3, <3>1, <3>2
  <2> QED BY <2>1, <2>2
<1>5. taken' = taken BY <1>4 DEF Clock, wr
<1>6. seen'[i] = IF pc[i] = "tas" /\ Granted(i) THEN taken ELSE seen[i]
  BY DEF Clock
<1>7. pc[i] = "gap" => seen[i] = taken BY DEF Fresh, Inside
<1> QED BY <1>3, <1>5, <1>6, <1>7

LEMMA HolderStep ==
  ASSUME TypeOK, Sections, Fresh, OneHolder, Clock PROVE OneHolder'
<1>1. PICK p \in After(0), q \in After(1) : pc' = [i \in Cpus |-> IF i = 0 THEN p ELSE q]
  BY DEF Clock
<1>2. pc'[0] = p /\ pc'[1] = q BY <1>1 DEF Cpus
\* Who takes the lock found it free, so nobody held it.
<1>3. ASSUME NEW i \in Cpus, pc[i] = "set", Granted(i), ~seen[i]
      PROVE ~Holds(0) /\ ~Holds(1)
  <2>1. ~taken BY <1>3 DEF Fresh, Inside, TypeOK
  <2> QED BY <2>1 DEF OneHolder
<1>4. \A i \in Cpus : Holds(i)' => Holds(i) \/ (pc[i] = "set" /\ Granted(i) /\ ~seen[i])
  BY <1>2, Moves DEF Holds, Cpus
<1>5. ~(pc[0] = "set" /\ pc[1] = "set") BY DEF Sections, Inside
<1>6. ~(Holds(0)' /\ Holds(1)') BY <1>3, <1>4, <1>5 DEF OneHolder, Cpus
<1>7. ASSUME NEW i \in Cpus, Holds(i)' PROVE taken'
  <2>1. CASE pc[i] = "set" /\ Granted(i) BY <2>1 DEF Clock
  <2>2. CASE Holds(i)
    <3>1. taken BY <2>2 DEF OneHolder, Cpus
    <3>2. ~(pc[i] = "release" /\ Granted(i))
      BY <1>2, <1>7, Moves, <2>2 DEF Holds, Cpus, After, en
    <3>3. \A j \in Cpus : j # i => pc[j] # "release"
      BY <2>2 DEF OneHolder, Holds, Cpus
    <3> QED BY <3>1, <3>2, <3>3 DEF Clock
  <2> QED BY <1>4, <1>7, <2>1, <2>2
<1> QED BY <1>6, <1>7 DEF OneHolder, Cpus

LEMMA UnchangedIInv == IInv /\ UNCHANGED vars => IInv'
BY DEF IInv, vars, TypeOK, Sections, Fresh, OneHolder, Inside, Holds

-----------------------------------------------------------------------------
\* A write that reaches the RAM is alone, whatever the cpus and the system
\* controller do (the enables of cpumreg).
THEOREM WritesAreAlone == Spec => []WriteAlone
<1>1. WriteAlone BY Alone DEF WriteAlone
<1> QED BY <1>1, PTL

\* The state of the arbiter says which cpu is inside a TAS.B, what that cpu read
\* is still true, and the lock has one holder (cpumreg, TAS.B).
THEOREM Invariance == ASSUME ~SplitDisable PROVE Spec => []IInv
<1>1. Init => IInv BY InitIInv
<1>2. IInv /\ [Next]_vars => IInv'
  <2> SUFFICES ASSUME IInv, [Next]_vars PROVE IInv' OBVIOUS
  <2>1. CASE Clock
    BY <2>1, TypeStep, SectionStep, FreshStep, HolderStep DEF IInv
  <2>2. CASE UNCHANGED vars BY <2>2, UnchangedIInv
  <2> QED BY <2>1, <2>2 DEF Next
<1> QED BY <1>1, <1>2, PTL DEF Spec

\* A lock taken with TAS.B is held by one cpu at a time, and the byte says so,
\* if cpu1 is not switched off inside a TAS.B (cpumreg's locked states).
THEOREM LockHasOneHolder == ASSUME ~SplitDisable PROVE Spec => []MutualExclusion
<1>1. IInv => MutualExclusion
  BY DEF IInv, OneHolder, Holds, MutualExclusion, Cpus
<1> QED BY <1>1, Invariance, PTL

-----------------------------------------------------------------------------
\* Where the cpus are after an edge, as far as the lock goes.
LEMMA LockMoves ==
  ASSUME TypeOK, Clock, NEW i \in Cpus
  PROVE  /\ pc[i] = "set" /\ Granted(i) => (Holds(i)' <=> ~seen[i])
         /\ pc[i] = "release" /\ Granted(i) => ~Holds(i)'
         /\ ~(pc[i] \in {"set", "release"} /\ Granted(i)) => (Holds(i)' <=> Holds(i))
<1>1. PICK p \in After(0), q \in After(1) : pc' = [j \in Cpus |-> IF j = 0 THEN p ELSE q]
  BY DEF Clock
<1>2. pc'[i] \in After(i) BY <1>1 DEF Cpus
<1>3. pc[i] \in Points BY DEF TypeOK
<1>4. CASE pc[i] = "set" /\ Granted(i) BY <1>2, <1>4 DEF After, Holds, Granted, TypeOK
<1>5. CASE pc[i] = "release" /\ Granted(i) BY <1>2, <1>5 DEF After, Holds, Granted
<1>6. CASE ~(pc[i] \in {"set", "release"} /\ Granted(i))
  BY <1>2, <1>3, <1>6 DEF After, Holds, Points, en
<1> QED BY <1>4, <1>5, <1>6

\* A clock edge is a TAS.B, a release, or nothing to the lock.
LEMMA LockStep ==
  ASSUME IInv, Clock
  PROVE  [Lock!Next]_<<taken, {i \in Cpus : pc[i] \in {"critical", "release"}}>>
<1> DEFINE holders == {i \in Cpus : Holds(i)}
<1>1. {i \in Cpus : pc[i] \in {"critical", "release"}} = holders BY DEF Holds
<1>2. {i \in Cpus : pc[i] \in {"critical", "release"}}' = {i \in Cpus : Holds(i)'} BY DEF Holds
<1>3. CASE \E i \in Cpus : pc[i] = "set" /\ Granted(i)
  <2>1. PICK i \in Cpus : pc[i] = "set" /\ Granted(i) BY <1>3
  <2>2. \A j \in Cpus : j # i => ~Granted(j) BY <2>1, Alone DEF wr
  <2>3. \A j \in Cpus : j # i => (Holds(j)' <=> Holds(j)) BY <2>2, LockMoves DEF IInv
  <2>4. Holds(i)' <=> ~taken
    <3>1. seen[i] = taken BY <2>1 DEF IInv, Fresh, Inside
    <3> QED BY <2>1, <3>1, LockMoves DEF IInv
  <2>5. ~Holds(i) /\ taken' = TRUE BY <1>3, <2>1 DEF Holds, Clock
  <2>6. {j \in Cpus : Holds(j)'} = IF taken THEN holders ELSE holders \cup {i}
    BY <2>3, <2>4, <2>5
  <2>7. Lock!Tas(i) BY <1>1, <1>2, <2>5, <2>6 DEF Lock!Tas
  <2> QED BY <2>7 DEF Lock!Next
<1>4. CASE /\ ~\E i \in Cpus : pc[i] = "set" /\ Granted(i)
           /\ \E i \in Cpus : pc[i] = "release" /\ Granted(i)
  <2>1. PICK i \in Cpus : pc[i] = "release" /\ Granted(i) BY <1>4
  <2>2. \A j \in Cpus : j # i => ~Granted(j) BY <2>1, Alone DEF wr
  <2>3. \A j \in Cpus : j # i => (Holds(j)' <=> Holds(j)) BY <2>2, LockMoves DEF IInv
  <2>4. Holds(i) /\ ~Holds(i)' BY <2>1, LockMoves DEF IInv, Holds
  <2>5. taken' = FALSE BY <1>4 DEF Clock
  <2>6. {j \in Cpus : Holds(j)'} = holders \ {i} BY <2>3, <2>4
  <2>7. Lock!Clear(i) BY <1>1, <1>2, <2>4, <2>5, <2>6 DEF Lock!Clear
  <2> QED BY <2>7 DEF Lock!Next
<1>5. CASE ~\E i \in Cpus : pc[i] \in {"set", "release"} /\ Granted(i)
  <2>1. taken' = taken BY <1>5 DEF Clock
  <2>2. {j \in Cpus : Holds(j)'} = holders BY <1>5, LockMoves DEF IInv
  <2> QED BY <1>1, <1>2, <2>1, <2>2
<1> QED BY <1>3, <1>4, <1>5

\* The RAM and its arbiter implement a lock with an indivisible test and set, if cpu1
\* is not switched off inside a TAS.B (cpumreg's locked states).
THEOREM TasIsAtomic == ASSUME ~SplitDisable PROVE Spec => AtomicTas
<1>1. Init => Lock!Init BY DEF Init, Lock!Init, Cpus
<1>2. IInv /\ [Next]_vars => [Lock!Next]_<<taken, {i \in Cpus : pc[i] \in {"critical", "release"}}>>
  <2> SUFFICES ASSUME IInv, [Next]_vars
               PROVE  [Lock!Next]_<<taken, {i \in Cpus : pc[i] \in {"critical", "release"}}>>
    OBVIOUS
  <2>1. CASE Clock BY <2>1, LockStep
  <2>2. CASE UNCHANGED vars BY <2>2 DEF vars
  <2> QED BY <2>1, <2>2 DEF Next
<1> QED BY <1>1, <1>2, Invariance, PTL DEF Spec, AtomicTas, Lock!Spec
=============================================================================

----------------------------- MODULE AicProofs -----------------------------
(***************************************************************************)
(* Proofs about the interrupt controller, for every number of lines and    *)
(* levels: no edge is lost, and if the cpu leaves two cycles between two   *)
(* acknowledges and software disables no line that has an interrupt        *)
(* pending, no edge is served twice.                                       *)
(*                                                                         *)
(* The second needs to know how old the offer is: an offer without an edge *)
(* behind it is only seen in the AckGap - 1 cycles after an acknowledge.   *)
(***************************************************************************)
EXTENDS Aic, TLAPS, WellFoundedInduction

\* A line is cleared, with its edge detector still set, only right after its
\* acknowledge.
ClearFollowsAck == \A i \in Lines : i \in ec_irqs /\ q[i] => gap = AckGap

\* A disabled line has nothing pending.
DisabledIsEmpty == \A i \in Lines : ilevel[i] = 0 => ~q[i]

\* An offer of a line that no edge is behind is a leftover of an acknowledge.
StaleFollowsAck ==
  reg_event.kind = "line" => reg_event.line \in owed \/ gap >= AckGap - 1

Detectors == TypeOK /\ NothingLost
IInv == Detectors /\ ClearFollowsAck /\ DisabledIsEmpty /\ StaleFollowsAck

-----------------------------------------------------------------------------
(* The priorities.                                                         *)

\* A set of natural numbers that is not empty has a least element.
LEMMA Least ==
  ASSUME NEW S \in SUBSET Nat, S # {}
  PROVE  \E n \in S : \A k \in S : n <= k
<1>1. PICK n \in S : \A k \in S : <<k, n>> \notin OpToRel(<, Nat)
  BY NatLessThanWellFounded, WFMin, Zenon
<1>2. \A k \in S : k \in Nat /\ n \in Nat /\ ~(k < n)
  BY <1>1, Zenon DEF OpToRel
<1>3. \A k \in S : n <= k
  <2> TAKE k \in S
  <2>1. k \in Nat /\ n \in Nat /\ ~(k < n)
    BY <1>2
  <2> QED
    BY <2>1
<1> QED
  BY <1>3

\* A set of natural numbers below a bound has a greatest element.
LEMMA Greatest ==
  ASSUME NEW B \in Nat, NEW S \in SUBSET (0..B), S # {}
  PROVE  \E n \in S : \A k \in S : k <= n
<1> DEFINE Mirror == {B - k : k \in S}
<1>1. PICK n \in Mirror : \A k \in Mirror : n <= k
  <2>1. \A k \in S : B - k \in Nat
    OBVIOUS
  <2>2. Mirror \in SUBSET Nat /\ Mirror # {}
    BY <2>1
  <2> QED
    BY <2>2, Least
<1>2. PICK s \in S : n = B - s
  BY <1>1
<1>3. \A k \in S : k <= s
  <2> TAKE k \in S
  <2>1. B - k \in Mirror
    OBVIOUS
  <2>2. B - s <= B - k
    BY <2>1, <1>1, <1>2
  <2>3. k \in Nat /\ s \in Nat
    OBVIOUS
  <2> QED
    BY <2>2, <2>3
<1> QED
  BY <1>3

\* The search for the line to offer finds one that is pending and enabled, if there
\* is one.
LEMMA HighIsALine ==
  ASSUME TypeOK
  PROVE  /\ High \in Lines
         /\ (\E i \in Lines : q[i] /\ ilevel[i] > 0) => q[High] /\ ilevel[High] > 0
<1> DEFINE on == {i \in Lines : q[i] /\ ilevel[i] > 0}
           best(i) == \A j \in on : ilevel[j] < ilevel[i] \/ (ilevel[j] = ilevel[i] /\ j <= i)
<1>1. CASE on = {}
  BY <1>1, LinesAssumption DEF High, Lines
<1>2. CASE on # {}
  <2> DEFINE top == {ilevel[i] : i \in on}
  <2>1. top \in SUBSET (0..MaxLevel) /\ top # {}
    BY <1>2 DEF TypeOK, Levels
  <2>2. PICK l \in top : \A k \in top : k <= l
    BY <2>1, LinesAssumption, Greatest
  <2> DEFINE tied == {i \in on : ilevel[i] = l}
  <2>3. tied \in SUBSET (0..(NLines - 1)) /\ tied # {} /\ NLines - 1 \in Nat
    BY <2>2, LinesAssumption DEF Lines
  <2>4. PICK i \in tied : \A j \in tied : j <= i
    BY <2>3, Greatest
  <2>5. i \in on /\ best(i)
    <3> SUFFICES ASSUME NEW j \in on
                 PROVE  ilevel[j] < ilevel[i] \/ (ilevel[j] = ilevel[i] /\ j <= i)
      OBVIOUS
    <3>1. ilevel[j] <= l /\ ilevel[i] = l
      BY <2>2, <2>4
    <3>2. ilevel[j] \in Nat /\ l \in Nat
      BY <2>1 DEF TypeOK, Levels
    <3> QED
      BY <3>1, <3>2, <2>4
  <2>6. High = CHOOSE k \in on : best(k)
    BY <1>2, Zenon DEF High
  <2>7. High \in on
    BY <2>5, <2>6, Zenon
  <2> QED
    BY <2>7
<1> QED
  BY <1>1, <1>2

\* What the controller is about to offer is an event, and an offered line is pending.
LEMMA OfferFormed ==
  ASSUME TypeOK
  PROVE  /\ w_event \in [kind : Sources \cup {"line", "none"}, line : Lines, lvl : Levels]
         /\ w_event.kind = "line" =>
              w_event.line = High /\ \E i \in Lines : q[i]
<1>0. 0 \in Lines /\ MaxLevel \in Levels /\ PitLevel \in Levels /\ CountLevel \in Levels
  BY LinesAssumption, TimerAssumption DEF Lines, Levels
<1>1. CASE UrgentPending # {}
  <2> DEFINE first == CHOOSE n \in UrgentPending : \A k \in UrgentPending : n <= k
  <2>1. UrgentPending \in SUBSET Nat
    BY DEF UrgentPending, Urgent
  <2>2. \E n \in UrgentPending : \A k \in UrgentPending : n <= k
    BY <2>1, <1>1, Least
  <2>3. first \in UrgentPending
    BY <2>2, Zenon
  <2>4. Urgent[first] \in Sources /\ Urgent[first] # "line"
    BY <2>3, KindsAssumption DEF UrgentPending, TypeOK, Sources
  <2>5. w_event = Event(Urgent[first], 0, IF Urgent[first] = "pit" THEN PitLevel ELSE MaxLevel)
    BY <1>1, Zenon DEF w_event
  <2> QED
    BY <2>4, <2>5, <1>0 DEF Event
<1>2. CASE UrgentPending = {} /\ (\E i \in Lines : q[i])
  <2>1. w_event = Event("line", High, ilevel[High])
    BY <1>2 DEF w_event
  <2> QED
    BY <2>1, <1>2, HighIsALine DEF Event, TypeOK
<1>3. CASE UrgentPending = {} /\ (\A i \in Lines : ~q[i])
  <2>1. w_event \in {Event("count", 0, CountLevel), NoEvent}
    BY <1>3 DEF w_event
  <2> QED
    BY <2>1, <1>0 DEF Event, NoEvent, Sources
<1> QED
  BY <1>1, <1>2, <1>3

LEMMA MaskIsALevel ==
  ASSUME TypeOK
  PROVE  Mask \in 0..Above
<1>1. CASE active = {}
  BY <1>1, LinesAssumption DEF Mask, Above
<1>2. CASE active # {}
  <2>1. active \in SUBSET (0..Above) /\ Above \in Nat
    BY LinesAssumption DEF TypeOK, Above
  <2>2. \E l \in active : \A k \in active : k <= l
    BY <1>2, <2>1, Greatest
  <2>3. Mask = CHOOSE l \in active : \A k \in active : k <= l
    BY <1>2, Zenon DEF Mask
  <2>4. Mask \in active
    BY <2>2, <2>3, Zenon
  <2> QED
    BY <2>1, <2>4
<1> QED
  BY <1>1, <1>2

-----------------------------------------------------------------------------
(* One clock edge.                                                         *)

\* What Inputs allows: the common part of the three actions.
Driven(ack, back, irq, raised, levels) ==
  /\ ack \in BOOLEAN /\ back \in BOOLEAN
  /\ irq \in [Lines -> BOOLEAN] /\ raised \in SUBSET Sources
  /\ levels \in {ilevel} \cup LevelWrites
  /\ ack => CanTake
  /\ Cycle(ack, back, irq, raised, levels)

LEMMA EveryStepIsACycle ==
  ASSUME Next
  PROVE  \E ack, back, irq, raised, levels : Driven(ack, back, irq, raised, levels)
<1>1. CASE Take
  BY <1>1 DEF Take, Inputs, Driven
<1>2. CASE Return
  BY <1>2 DEF Return, Inputs, Driven
<1>3. CASE Run
  BY <1>3 DEF Run, Inputs, Driven
<1> QED
  BY <1>1, <1>2, <1>3 DEF Next

LEMMA CycleKeepsTypes ==
  ASSUME NEW ack, NEW back, NEW irq, NEW raised, NEW levels,
         TypeOK, Driven(ack, back, irq, raised, levels)
  PROVE  TypeOK'
<1> USE DEF Driven
<1>1. reg0' \in [Lines -> BOOLEAN] /\ reg1' \in [Lines -> BOOLEAN]
  BY DEF Cycle, TypeOK
<1>2. q' \in [Lines -> BOOLEAN]
  <2>1. \A i \in Lines : NextQ(i) \in BOOLEAN
    BY DEF NextQ, TypeOK
  <2> QED
    BY <2>1 DEF Cycle
<1>3. ilevel' \in [Lines -> Levels]
  BY SettingsAssumption DEF Cycle, LevelWrites, TypeOK
<1>4. ec_irqs' \subseteq Lines /\ owed' \subseteq Lines
  BY DEF Cycle, Cleared, TypeOK
<1>5. pending' \subseteq Sources
  BY DEF Cycle, NextPending, TypeOK
<1>6. reg_event' \in [kind : Sources \cup {"line", "none"}, line : Lines, lvl : Levels]
  BY OfferFormed DEF Cycle
<1>7. active' \subseteq 1..Above
  <2>1. CASE ack
    <3>1. Maskable(reg_event) => reg_event.lvl \in 1..Above
      BY <2>1, MaskIsALevel, LinesAssumption DEF CanTake, TypeOK, Levels, Above
    <3>2. Above \in 1..Above
      BY LinesAssumption DEF Above
    <3> QED
      BY <2>1, <3>1, <3>2 DEF Cycle, TypeOK
  <2>2. CASE ~ack
    BY <2>2 DEF Cycle, TypeOK
  <2> QED
    BY <2>1, <2>2
<1>8. gap' \in 0..AckGap
  BY CpuAssumption DEF Cycle, TypeOK
<1> QED
  BY <1>1, <1>2, <1>3, <1>4, <1>5, <1>6, <1>7, <1>8 DEF TypeOK

LEMMA CycleKeepsIInv ==
  ASSUME ~MayDisable, IInv,
         NEW ack, NEW back, NEW irq, NEW raised, NEW levels,
         Driven(ack, back, irq, raised, levels)
  PROVE  IInv'
<1> USE DEF Driven, IInv, Detectors
<1>1. TypeOK'
  BY CycleKeepsTypes
<1>2. \A i \in Lines : q'[i] = NextQ(i)
  BY DEF Cycle
<1>3. DisabledIsEmpty'
  <2> SUFFICES ASSUME NEW i \in Lines, levels[i] = 0
               PROVE  ~NextQ(i)
    BY <1>2 DEF DisabledIsEmpty, Cycle
  <2>1. CASE levels = ilevel
    BY <2>1 DEF DisabledIsEmpty, NextQ
  <2>2. CASE levels \in LevelWrites
    BY <2>2 DEF LevelWrites
  <2> QED
    BY <2>1, <2>2
<1>4. NothingLost'
  <2>1. ASSUME NEW i \in Lines, i \notin ec_irqs'
        PROVE  NextQ(i) <=> i \in owed \/ (Edge(i) /\ ilevel[i] # 0)
    <3>1. q[i] /\ i \notin ec_irqs <=> i \in owed
      BY DEF NothingLost
    <3>2. q[i] => ilevel[i] # 0
      BY DEF DisabledIsEmpty
    <3> QED
      BY <3>1, <3>2 DEF NextQ
  <2>2. owed' = {i \in Lines : i \notin ec_irqs' /\ (i \in owed \/ (Edge(i) /\ ilevel[i] # 0))}
    BY DEF Cycle, Cleared
  <2> QED
    BY <2>1, <2>2, <1>2 DEF NothingLost
<1>5. ClearFollowsAck'
  BY DEF ClearFollowsAck, Cycle, Cleared
<1>6. StaleFollowsAck'
  <2> SUFFICES ASSUME reg_event'.kind = "line"
               PROVE  reg_event'.line \in owed' \/ gap' >= AckGap - 1
    BY DEF StaleFollowsAck
  <2>1. reg_event'.line = High /\ High \in Lines /\ q[High]
    <3>1. reg_event' = w_event
      BY DEF Cycle
    <3>2. reg_event'.line = High /\ \E i \in Lines : q[i]
      BY <3>1, OfferFormed
    <3>3. \A i \in Lines : q[i] => ilevel[i] > 0
      BY DEF DisabledIsEmpty, TypeOK, Levels
    <3> QED
      BY <3>2, <3>3, HighIsALine
  <2>2. CASE High \in ec_irqs
    <3>1. gap = AckGap
      BY <2>1, <2>2 DEF ClearFollowsAck
    <3> QED
      BY <3>1, CpuAssumption DEF Cycle, CanTake
  <2>3. CASE High \notin ec_irqs
    <3>1. High \in owed
      BY <2>1, <2>3 DEF NothingLost
    <3>2. CASE ack
      <4>1. gap' = AckGap
        BY <3>2 DEF Cycle
      <4> QED
        BY <4>1, CpuAssumption
    <3>3. CASE ~ack
      BY <2>1, <3>1, <3>3 DEF Cycle
    <3> QED
      BY <3>2, <3>3
  <2> QED
    BY <2>2, <2>3
<1> QED
  BY <1>1, <1>3, <1>4, <1>5, <1>6

LEMMA InitIInv == Init => IInv
<1> SUFFICES ASSUME Init
             PROVE  IInv
  OBVIOUS
<1>1. 0 \in Lines /\ 0 \in Levels /\ MaxLevel \in Levels /\ 0 \in 0..AckGap
  BY LinesAssumption, CpuAssumption DEF Lines, Levels
<1>2. TypeOK
  BY <1>1 DEF Init, TypeOK, NoEvent, Event
<1> QED
  BY <1>2 DEF Init, IInv, Detectors, NothingLost, ClearFollowsAck, DisabledIsEmpty,
              StaleFollowsAck, NoEvent, Event

-----------------------------------------------------------------------------

\* The registers of the controller and of the cpu model keep their ranges: the
\* priority search always names an existing line, whatever software writes.
THEOREM TypeCorrect == Spec => []TypeOK
<1>1. Init => TypeOK
  BY InitIInv DEF IInv, Detectors
<1>2. TypeOK /\ [Next]_vars => TypeOK'
  <2> SUFFICES ASSUME TypeOK, [Next]_vars
               PROVE  TypeOK'
    OBVIOUS
  <2>1. CASE Next
    BY <2>1, EveryStepIsACycle, CycleKeepsTypes
  <2>2. CASE UNCHANGED vars
    BY <2>2 DEF vars, TypeOK
  <2> QED
    BY <2>1, <2>2
<1> QED
  BY <1>1, <1>2, PTL DEF Spec

\* The inductive invariant, if software disables no line that is pending.
THEOREM Invariance == ASSUME ~MayDisable PROVE Spec => []IInv
<1>1. IInv /\ [Next]_vars => IInv'
  <2> SUFFICES ASSUME IInv, [Next]_vars
               PROVE  IInv'
    OBVIOUS
  <2>1. CASE Next
    BY <2>1, EveryStepIsACycle, CycleKeepsIInv
  <2>2. CASE UNCHANGED vars
    BY <2>2 DEF vars, IInv, Detectors, TypeOK, NothingLost, ClearFollowsAck,
                DisabledIsEmpty, StaleFollowsAck
  <2> QED
    BY <2>1, <2>2
<1> QED
  BY InitIInv, <1>1, PTL DEF Spec

\* aic_edgedet and p_sirqs: the edge detectors hold exactly what the cpu owes an
\* interrupt, whatever the devices do around the clear of a detector.
THEOREM EdgesAreKept == ASSUME ~MayDisable PROVE Spec => []NothingLost
<1>1. IInv => NothingLost
  BY DEF IInv, Detectors
<1> QED
  BY Invariance, <1>1, PTL

\* p_lat and p_interface: the registered offer, up to two cycles old, is never taken
\* for a second interrupt of one edge by a cpu that waits more than a cycle.
THEOREM ServedOnce ==
  ASSUME ~MayDisable, AckGap > 1
  PROVE  Spec => []OneInterruptPerEdge
<1>1. IInv => OneInterruptPerEdge
  BY CpuAssumption DEF IInv, StaleFollowsAck, OneInterruptPerEdge, Spurious, CanTake
<1> QED
  BY Invariance, <1>1, PTL
=============================================================================

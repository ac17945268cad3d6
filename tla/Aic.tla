-------------------------------- MODULE Aic --------------------------------
(***************************************************************************)
(* The interrupt controller (aic): interrupt lines with an edge detector   *)
(* and a programmable level each (aic_edgedet), the timers and the system  *)
(* events.  It offers one event at a time to the cpu, which acknowledges   *)
(* it when it starts the handler.                                          *)
(*                                                                         *)
(* One step is one rising clock edge.  The offer (reg_event) is registered *)
(* and the clear of an edge detector too (ec_irqs), so what the cpu sees   *)
(* is up to two cycles old.  The timers are left at "may expire in any     *)
(* cycle"; the real-time clock, the breakpoint and the read-back of the    *)
(* registers do not touch the events and are left out.                     *)
(***************************************************************************)
EXTENDS Naturals

CONSTANTS
  NLines,      \* number of lines, 8 in the code
  MaxLevel,    \* highest level, 15 in the code
  Settings,    \* what software may write to the level register
  SystemKinds, \* the system events looked at
  PitLevel, CountLevel,  \* levels of the timers: testvect(11 downto 8), and 3
  AckGap,      \* the cpu acknowledges at most every AckGap + 1 cycles
  MayDisable   \* may software disable a line that has an interrupt pending?

Lines == 0..(NLines - 1)
Levels == 0..MaxLevel
Urgent == <<"mres", "der", "cer", "nmi", "pit">>
ASSUME LinesAssumption == NLines \in Nat \ {0} /\ MaxLevel \in Nat \ {0}
ASSUME SettingsAssumption == Settings \subseteq [Lines -> Levels]
ASSUME KindsAssumption == SystemKinds \subseteq {"mres", "der", "cer", "nmi"}
ASSUME TimerAssumption == PitLevel \in 1..MaxLevel /\ CountLevel \in 1..MaxLevel
ASSUME CpuAssumption == AckGap \in Nat \ {0} /\ MayDisable \in BOOLEAN

VARIABLES
  reg0, reg1,  \* line -> its last two samples
  q,           \* line -> edge detected
  ilevel,      \* line -> level, 0 = disabled
  ec_irqs,     \* the lines whose edge detector is being cleared
  pending,     \* the other sources that are pending (r_mrst, ... r_irq1, r_irq10)
  reg_event,   \* the event offered to the cpu
  active,      \* levels of the handlers that the cpu is in
  gap,         \* cycles until the cpu can acknowledge again
  owed         \* history: lines with an edge since their last interrupt

vars == <<reg0, reg1, q, ilevel, ec_irqs, pending, reg_event, active, gap, owed>>

Sources == SystemKinds \cup {"pit", "count"}
Event(k, i, l) == [kind |-> k, line |-> i, lvl |-> l]
NoEvent == Event("none", 0, MaxLevel)

-----------------------------------------------------------------------------
(* Combinational logic.                                                    *)

\* Mutant: the search starts with level 1 instead of 0.
HighAboveOne ==
  LET on == {i \in Lines : q[i] /\ ilevel[i] > 1}
  IN IF on = {} THEN 0
     ELSE CHOOSE i \in on : \A j \in on : ilevel[j] < ilevel[i] \/ (ilevel[j] = ilevel[i] /\ j <= i)
\* high_i: the pending line of the highest level, among equals the highest number;
\* line 0 if every pending line has been disabled.
High ==
  LET on == {i \in Lines : q[i] /\ ilevel[i] > 0}
  IN IF on = {} THEN 0
     ELSE CHOOSE i \in on : \A j \in on : ilevel[j] < ilevel[i] \/ (ilevel[j] = ilevel[i] /\ j <= i)

\* The lines come after the interval timer, whatever their level, and before the
\* countdown.
UrgentPending == {n \in DOMAIN Urgent : Urgent[n] \in pending}
w_event ==
  LET first == CHOOSE n \in UrgentPending : \A k \in UrgentPending : n <= k
  IN CASE UrgentPending # {} ->
            Event(Urgent[first], 0, IF Urgent[first] = "pit" THEN PitLevel ELSE MaxLevel)
       [] UrgentPending = {} /\ (\E i \in Lines : q[i]) -> Event("line", High, ilevel[High])
       [] UrgentPending = {} /\ (\A i \in Lines : ~q[i]) /\ "count" \in pending ->
            Event("count", 0, CountLevel)
       [] OTHER -> NoEvent

Edge(i) == reg0[i] /\ ~reg1[i]

\* Mutants: a clear beats an edge; a line is not cleared while it is high.
NextQClearFirst(i) == IF i \in ec_irqs THEN FALSE ELSE IF Edge(i) THEN ilevel[i] # 0 ELSE q[i]
NextQLevel(i) == IF Edge(i) THEN ilevel[i] # 0 ELSE IF i \in ec_irqs THEN reg0[i] ELSE q[i]
NextQ(i) == IF Edge(i) THEN ilevel[i] # 0 ELSE IF i \in ec_irqs THEN FALSE ELSE q[i]

\* Mutant: the clear is one bit off.
ClearedNext(ack) == IF ack /\ reg_event.kind = "line" THEN {reg_event.line + 1} ELSE {}
Cleared(ack) == IF ack /\ reg_event.kind = "line" THEN {reg_event.line} ELSE {}

\* An event that comes in the cycle of an acknowledge of the same kind is taken
\* by the same handler.
NextPending(ack, raised) ==
  (pending \cup raised) \ (IF ack THEN {reg_event.kind} ELSE {})

-----------------------------------------------------------------------------
(* The cpu: it takes an interrupt of a higher level than the handlers that *)
(* it is in, and the other events always.                                  *)

Above == MaxLevel + 1
Mask == IF active = {} THEN 0 ELSE CHOOSE l \in active : \A k \in active : k <= l
Maskable(e) == e.kind \in {"pit", "line", "count"}
CanTake ==
  /\ gap = 0 /\ reg_event.kind # "none"
  /\ Maskable(reg_event) => reg_event.lvl > Mask

\* What software may do to the levels in one write.
LevelWrites ==
  {f \in Settings : \A i \in Lines : f[i] = 0 /\ ~MayDisable => ~NextQ(i)}

Init ==
  /\ reg0 = [i \in Lines |-> FALSE] /\ reg1 = reg0 /\ q = reg0
  /\ ilevel = [i \in Lines |-> 0]
  /\ ec_irqs = Lines
  /\ pending = {} /\ reg_event = NoEvent
  /\ active = {} /\ gap = 0 /\ owed = {}

\* One clock edge: irq and raised are what the devices do, levels what software
\* writes, ack and back what the cpu does.
Cycle(ack, back, irq, raised, levels) ==
  /\ reg0' = irq /\ reg1' = reg0
  /\ q' = [i \in Lines |-> NextQ(i)]
  /\ ilevel' = levels
  /\ ec_irqs' = Cleared(ack)
  /\ pending' = NextPending(ack, raised)
  /\ reg_event' = w_event
  /\ active' = CASE ack -> active \cup {IF Maskable(reg_event) THEN reg_event.lvl ELSE Above}
                 [] back -> active \ {Mask}
                 [] OTHER -> active
  /\ gap' = IF ack THEN AckGap ELSE IF gap > 0 THEN gap - 1 ELSE 0
  /\ owed' = {i \in Lines : ~(ack /\ i \in Cleared(ack)) /\ (i \in owed \/ (Edge(i) /\ ilevel[i] # 0))}

Inputs(ack, back) ==
  \E irq \in [Lines -> BOOLEAN], raised \in {{}} \cup {{s} : s \in Sources},
     levels \in {ilevel} \cup LevelWrites : Cycle(ack, back, irq, raised, levels)

Take == CanTake /\ Inputs(TRUE, FALSE)
Return == active # {} /\ gap = 0 /\ Inputs(FALSE, TRUE)
Run == Inputs(FALSE, FALSE)
Next == Take \/ Return \/ Run
Spec == Init /\ [][Next]_vars

\* The clock runs; the cpu takes an event that stays acceptable, and its handlers end.
Takes == []<>~CanTake
Returns == []<>(active = {})
FairSpec == Spec /\ WF_vars(Next) /\ Takes /\ Returns

-----------------------------------------------------------------------------

TypeOK ==
  /\ reg0 \in [Lines -> BOOLEAN] /\ reg1 \in [Lines -> BOOLEAN] /\ q \in [Lines -> BOOLEAN]
  /\ ilevel \in [Lines -> Levels]
  /\ ec_irqs \subseteq Lines /\ owed \subseteq Lines
  /\ pending \subseteq Sources
  /\ reg_event \in [kind : Sources \cup {"line", "none"}, line : Lines, lvl : Levels]
  /\ active \subseteq 1..Above
  /\ gap \in 0..AckGap

\* The edge detectors remember exactly what the cpu owes an interrupt, apart from
\* the one that is being cleared: an edge that comes while the last interrupt of
\* its line is being acknowledged or cleared is neither lost nor served twice.
NothingLost == owed = {i \in Lines : q[i] /\ i \notin ec_irqs}

\* An interrupt of a line that the cpu can take has an edge of that line behind
\* it, although the offer is older than the state of the edge detectors.
Spurious == CanTake /\ reg_event.kind = "line" /\ reg_event.line \notin owed
OneInterruptPerEdge == ~Spurious

\* The comment on the levels: "when the level is 0. the interrupt is disabled".
\* While only disabled lines have an edge, no interrupt is made up from it.
DisabledIsSilent == owed # {} /\ (\A i \in owed : ilevel[i] = 0) => ~Spurious

\* An edge leads to an interrupt of its line, as soon as nothing else comes in:
\* no other event, pending or in a handler, keeps it waiting for ever.
OthersRest(i) == <>[][pending' \subseteq pending /\ owed' \subseteq owed \cup {i}]_vars
LastEdgeServed == \A i \in Lines : OthersRest(i) => (i \in owed ~> i \notin owed)
=============================================================================

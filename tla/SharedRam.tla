----------------------------- MODULE SharedRam -----------------------------
(***************************************************************************)
(* The RAM that the two cpus share (cpus_two_fpga) and its arbiter         *)
(* (cpumreg).  The RAM has two ports and answers in the cycle of the       *)
(* access, so the arbiter only gates the two enables: reads go together, a *)
(* write or a locked section goes alone.                                   *)
(*                                                                         *)
(* One step is one rising clock edge.  The cpus run what the arbiter is    *)
(* for, a spin lock on one byte with TAS.B (a locked read, some cycles     *)
(* later the locked write that closes the section), mixed with loads and   *)
(* stores to other addresses.                                              *)
(***************************************************************************)
EXTENDS Naturals

CONSTANTS SplitDisable  \* may cpu1 be switched off in the middle of a TAS.B?
ASSUME SplitAssumption == SplitDisable \in BOOLEAN

VARIABLES
  state_ramarb,  \* IDLE, LOCK0, LOCK1
  cpu1en,        \* cpu1 may use the RAM
  pc,            \* cpu -> where it is in its program
  seen,          \* cpu -> what its last TAS.B read
  taken          \* the lock byte

vars == <<state_ramarb, cpu1en, pc, seen, taken>>

Cpus == {0, 1}

\* What a cpu drives at each point of its program.
Points == {"run", "load", "store", "tas", "gap", "set", "critical", "release"}
en(i) == pc[i] \in {"load", "store", "tas", "set", "release"}
wr(i) == pc[i] \in {"store", "set", "release"}
lock(i) == pc[i] \in {"tas", "gap", "set"}

-----------------------------------------------------------------------------
(* The arbiter.                                                            *)

LockedRead(i) == en(i) /\ ~wr(i) /\ lock(i)

\* Mutant: cpu1's locked read is not looked at while cpu0 reads.
NextArbCpu0First ==
  CASE state_ramarb = "IDLE" ->
         IF LockedRead(0) THEN "LOCK0"
         ELSE IF cpu1en /\ LockedRead(1) /\ ~en(0) THEN "LOCK1" ELSE "IDLE"
    [] state_ramarb = "LOCK0" -> IF lock(0) /\ ~en(0) THEN "LOCK0" ELSE "IDLE"
    [] OTHER -> IF lock(1) /\ ~en(1) THEN "LOCK1" ELSE "IDLE"
\* Mutant: the section of cpu1 is never left.
NextArbStuck ==
  CASE state_ramarb = "IDLE" ->
         IF LockedRead(0) THEN "LOCK0" ELSE IF cpu1en /\ LockedRead(1) THEN "LOCK1" ELSE "IDLE"
    [] state_ramarb = "LOCK0" -> IF lock(0) /\ ~en(0) THEN "LOCK0" ELSE "IDLE"
    [] OTHER -> "LOCK1"
\* A section starts with the cycle of the locked read and ends with the next
\* access, of whatever kind, or with the lock.
NextArb ==
  CASE state_ramarb = "IDLE" ->
         IF LockedRead(0) THEN "LOCK0" ELSE IF cpu1en /\ LockedRead(1) THEN "LOCK1" ELSE "IDLE"
    [] state_ramarb = "LOCK0" -> IF lock(0) /\ ~en(0) THEN "LOCK0" ELSE "IDLE"
    [] OTHER -> IF lock(1) /\ ~en(1) THEN "LOCK1" ELSE "IDLE"

\* Mutant: a write of cpu1 does not exclude cpu0.
BlockedNoWrite1 ==
  CASE state_ramarb = "LOCK0" -> {1}
    [] state_ramarb = "LOCK1" -> {0}
    [] OTHER ->
         IF NextArb = "LOCK0" THEN {1}
         ELSE IF NextArb = "LOCK1" THEN {0}
         ELSE IF en(0) /\ wr(0) THEN {1} ELSE {}
\* The cpus whose enable is withheld in this cycle.
Blocked ==
  CASE state_ramarb = "LOCK0" -> {1}
    [] state_ramarb = "LOCK1" -> {0}
    [] OTHER ->
         IF NextArb = "LOCK0" THEN {1}
         ELSE IF NextArb = "LOCK1" THEN {0}
         ELSE IF en(0) /\ wr(0) THEN {1}
         ELSE IF cpu1en /\ en(1) /\ wr(1) THEN {0} ELSE {}

\* cpuNram_a_en, and the accesses that reach the RAM and are acknowledged.
a_en(i) == i \notin Blocked /\ (i = 1 => cpu1en)
Granted(i) == en(i) /\ a_en(i)

-----------------------------------------------------------------------------
(* The cpus and the RAM.                                                   *)

\* Where cpu i may be after this edge: a denied access is repeated.
After(i) ==
  CASE en(i) /\ ~Granted(i) -> {pc[i]}
    [] pc[i] = "tas" /\ Granted(i) -> {"gap"}
    [] pc[i] = "gap" -> {"gap", "set"}
    [] pc[i] = "set" /\ Granted(i) -> IF seen[i] THEN {"run"} ELSE {"critical"}
    [] pc[i] = "critical" -> {"critical", "release"}
    [] OTHER -> {"run", "load", "store", "tas"}

Init ==
  /\ state_ramarb = "IDLE" /\ cpu1en = FALSE
  /\ pc = [i \in Cpus |-> "run"]
  /\ seen = [i \in Cpus |-> FALSE]
  /\ taken = FALSE

\* The locked read is done or is being done, and the locked write is to come.
InSection(i) == pc[i] = "gap" \/ (pc[i] = "tas" /\ Granted(i))

\* One clock edge.  The system controller may force the enable (cpu1en_sbu); cpu0
\* may write the register (db0), on the bus it would access the RAM with.
Clock ==
  /\ state_ramarb' = NextArb
  /\ \/ cpu1en' = TRUE
     \/ cpu1en' = cpu1en
     \/ /\ cpu1en' = FALSE
        /\ pc[0] \in {"run", "critical"}
        /\ SplitDisable \/ ~InSection(1)
  /\ \E p \in After(0), q \in After(1) : pc' = [i \in Cpus |-> IF i = 0 THEN p ELSE q]
  /\ seen' = [i \in Cpus |-> IF pc[i] = "tas" /\ Granted(i) THEN taken ELSE seen[i]]
  /\ taken' = IF \E i \in Cpus : pc[i] = "set" /\ Granted(i) THEN TRUE
              ELSE IF \E i \in Cpus : pc[i] = "release" /\ Granted(i) THEN FALSE
              ELSE taken

Next == Clock
Spec == Init /\ [][Next]_vars

\* The clock runs, and a cpu does not stay in the middle of a TAS.B for ever.
Closes(i) == Clock /\ pc[i] = "gap" /\ pc'[i] = "set"
FairSpec == Spec /\ WF_vars(Clock) /\ \A i \in Cpus : SF_vars(Closes(i))

-----------------------------------------------------------------------------

\* What the lock is for: a spin lock taken with TAS.B is held by one cpu, and the
\* byte says so.  A TAS.B of the other cpu in between would break it.
MutualExclusion ==
  /\ ~(\A i \in Cpus : pc[i] \in {"critical", "release"})
  /\ (\E i \in Cpus : pc[i] \in {"critical", "release"}) => taken

\* The two ports never meet on a write: an access that reaches the RAM together
\* with a write of the other port would read or leave an undefined value.
WriteAlone ==
  \A i, j \in Cpus : i # j /\ Granted(i) /\ wr(i) => ~Granted(j)

\* A TAS.B is one step for whoever uses the byte, although it is two accesses with
\* other cycles between them (the locked states of cpumreg).
Lock == INSTANCE TestAndSet WITH holds <- {i \in Cpus : pc[i] \in {"critical", "release"}}
AtomicTas == Lock!Spec

\* An access is granted in the end if the other cpu pauses now and then, and if
\* cpu1 is not switched off for good.
Pauses(i) == []<>(~en(i) /\ ~lock(i))
Progress ==
  /\ Pauses(1) => (en(0) ~> Granted(0))
  /\ Pauses(0) /\ <>[]cpu1en => (en(1) ~> Granted(1))
=============================================================================

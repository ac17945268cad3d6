---------------------------- MODULE BusMuxTypec ----------------------------
(***************************************************************************)
(* The memory arbiter of the two-cpu system (bus_mux_typec): the inner     *)
(* round robin over the four cpu ports (BusMuxTypecSub) and an outer stage *)
(* that alternates between it (M6) and the DMA engine (M5).                *)
(*                                                                         *)
(* One step is one rising clock edge.  The masters and the memory are not  *)
(* part of the entity: the masters hold a request until its acknowledge,   *)
(* the memory acknowledges only a request it is given, after any number of *)
(* wait states.                                                            *)
(***************************************************************************)
EXTENDS BusMuxTypecSub

CONSTANTS
  LongLen,      \* beats of a 32-byte burst (8 in the code: a 3-bit count)
  ShortLen,     \* beats of a 16-byte DMA burst (4 in the code: bit 2 cleared)
  Active,       \* the cpu masters that issue requests
  DmaDrives,    \* the requests the DMA engine may issue
  SilentUnlock  \* may a cpu drop its lock without a closing access?

ASSUME BurstAssumption ==
  /\ ShortLen \in Nat /\ ShortLen > 1
  /\ LongLen \in Nat /\ LongLen >= ShortLen
ASSUME ActiveAssumption == Active \subseteq Masters

\* What a cpu master drives, and what the DMA engine drives; left is not on the
\* wires: the beats the master still expects after the current one.
Drive == [en : BOOLEAN, wr : BOOLEAN, lock : BOOLEAN, burst : BOOLEAN, left : 0..(LongLen - 1)]
DmaDrive == [en : BOOLEAN, wr : BOOLEAN, burst32 : BOOLEAN, burst16 : BOOLEAN,
             bgrp : BOOLEAN, left : 0..(LongLen - 1)]
ASSUME DmaAssumption ==
  \A o \in DmaDrives :
    /\ o \in DmaDrive
    /\ o.left = CASE o.burst32 -> LongLen - 1
                  [] ~o.burst32 /\ o.burst16 -> ShortLen - 1
                  [] OTHER -> 0
ASSUME SilentAssumption == SilentUnlock \in BOOLEAN

VARIABLES
  sub,             \* registers of the inner stage
  top,             \* registers of the outer stage
  m1, m2, m3, m4,  \* what the four cpu masters drive in this cycle
  m5,              \* what the DMA engine drives in this cycle
  holder           \* history: the data master inside a locked section, or 0

vars == <<sub, top, m1, m2, m3, m4, m5, holder>>

m == <<m1, m2, m3, m4>>
Quiet == [en |-> FALSE, wr |-> FALSE, lock |-> FALSE, burst |-> FALSE, left |-> 0]
DmaQuiet == [en |-> FALSE, wr |-> FALSE, burst32 |-> FALSE, burst16 |-> FALSE,
             bgrp |-> FALSE, left |-> 0]

-----------------------------------------------------------------------------
(* Combinational outputs of the current cycle.                             *)

SubWho == Selected(Woa(sub, m))
SubEn == SubWho # 0 /\ m[SubWho].en
SubBurst == SubWho # 0 /\ PassesBurst(Woa(sub, m)) /\ m[SubWho].burst

\* Mutants: the outer stage forgets the burst, or the waiting access.
TopHoldNoBurst == top.mem.en /\ ~top.mem.ack
TopHoldNoWait == top.count # 0
TopHold == top.count # 0 \/ (top.mem.en /\ ~top.mem.ack)
TopNext ==
  CASE TopHold -> top.state
    [] ~TopHold /\ m5.bgrp -> "M5"
    [] ~TopHold /\ ~m5.bgrp /\ top.state = "M5" -> IF SubEn THEN "M6" ELSE "M5"
    [] OTHER -> IF m5.en THEN "M5" ELSE "M6"

\* The master at the memory port (0: none) and whether it requests.
Owner == IF TopNext = "M5" THEN 5 ELSE SubWho
PortEn == IF TopNext = "M5" THEN m5.en ELSE SubEn
\* The first beat of a burst, as the outer stage counts it.
PortBurst == IF TopNext = "M5" THEN m5.burst32 \/ m5.burst16 ELSE SubBurst
Requests(i) == IF i = 5 THEN m5.en ELSE m[i].en
NoCommand == <<FALSE, FALSE, FALSE>>
Command(i) ==
  CASE i = 0 -> NoCommand
    [] i = 5 -> <<m5.wr, m5.burst32, m5.burst16>>
    [] OTHER -> <<m[i].wr, m[i].lock, m[i].burst>>

\* Mutant: the burst length is not remembered.
NextShortLost == FALSE
\* dmaburst16at: the burst in progress is a short one.
NextShort == TopNext = "M5" /\ m5.en /\ (IF top.count = 0 THEN m5.burst16 ELSE top.short)

-----------------------------------------------------------------------------
(* The masters.                                                            *)

\* What a cpu may drive when it starts anew: only the data masters write or lock,
\* a fill is a read, marked as a burst in its first beat.
DataStarts == {o \in Drive : /\ o.wr \/ o.burst => o.en
                             /\ ~(o.wr /\ o.burst)
                             /\ o.left = IF o.burst THEN LongLen - 1 ELSE 0}
FetchStarts == {o \in DataStarts : ~o.wr /\ ~o.lock}
CpuStarts(i) ==
  CASE i \notin Active -> {Quiet}
    [] i \in Active \cap DataMasters -> DataStarts
    [] OTHER -> FetchStarts

\* A cpu that may not unlock silently keeps its lock up until the closing
\* access; h is the holder after this edge.
MustKeepLock(i, h) == ~SilentUnlock /\ h = i

\* The next drives of cpu master i: a request is held until its acknowledge, a
\* fill goes on beat by beat.
CpuSteps(i, acked, h) ==
  CASE m[i].en /\ ~acked -> {m[i]}
    [] m[i].en /\ acked /\ m[i].left > 0 -> {[m[i] EXCEPT !.burst = FALSE, !.left = @ - 1]}
    [] OTHER -> {o \in CpuStarts(i) : MustKeepLock(i, h) => o.lock}

DmaSteps(acked) ==
  CASE m5.en /\ ~acked -> {m5}
    [] m5.en /\ acked /\ m5.left > 0 -> {[m5 EXCEPT !.left = @ - 1]}
    [] OTHER -> DmaDrives

\* The locked section of a data master: opened by its acknowledged locked read,
\* closed by its next acknowledged access of another kind, or by an idle cycle
\* without the lock.
SilentlyUnlocked == holder # 0 /\ ~m[holder].en /\ ~m[holder].lock
NextHolder(ack) ==
  CASE ack /\ Owner \in DataMasters ->
         IF LockedRead(m[Owner]) THEN Owner ELSE IF holder = Owner THEN 0 ELSE holder
    [] ~(ack /\ Owner \in DataMasters) /\ SilentlyUnlocked -> 0
    [] OTHER -> holder

-----------------------------------------------------------------------------

Init ==
  /\ sub = [state |-> "M1", count |-> 0, mem |-> [en |-> FALSE, ack |-> FALSE]]
  /\ top = [state |-> "M5", count |-> 0, short |-> FALSE,
            mem |-> [who |-> 0, en |-> FALSE, ack |-> FALSE, cmd |-> NoCommand]]
  /\ m1 = Quiet /\ m2 = Quiet /\ m3 = Quiet /\ m4 = Quiet
  /\ m5 = DmaQuiet
  /\ holder = 0

\* One clock edge; ack is mem_i.ack in the cycle that it ends.
Cycle(ack) ==
  /\ ack => PortEn
  /\ LET woa == Woa(sub, m)
         subAck == ack /\ TopNext = "M6"
     IN sub' = [state |-> NextState(woa, subAck),
                count |-> NextCount(sub.count, subAck, SubBurst, LongLen),
                mem   |-> [en |-> SubEn, ack |-> subAck]]
  /\ top' = [state |-> TopNext,
             count |-> NextCount(top.count, ack, PortBurst,
                                 IF top.short THEN ShortLen ELSE LongLen),
             short |-> NextShort,
             mem   |-> [who |-> Owner, en |-> PortEn, ack |-> ack,
                        cmd |-> Command(Owner)]]
  /\ holder' = NextHolder(ack)
  /\ m1' \in CpuSteps(1, ack /\ Owner = 1, holder')
  /\ m2' \in CpuSteps(2, ack /\ Owner = 2, holder')
  /\ m3' \in CpuSteps(3, ack /\ Owner = 3, holder')
  /\ m4' \in CpuSteps(4, ack /\ Owner = 4, holder')
  /\ m5' \in DmaSteps(ack /\ Owner = 5)

Acknowledge == Cycle(TRUE)
WaitState == Cycle(FALSE)

Next == Acknowledge \/ WaitState

Spec == Init /\ [][Next]_vars

\* The clock runs and the memory answers every request in the end.
Answered == []<>~PortEn \/ []<>top.mem.ack
FairSpec == Spec /\ WF_vars(Next) /\ Answered

-----------------------------------------------------------------------------

TypeOK ==
  /\ sub \in [state : SubStates, count : 0..(LongLen - 1), mem : [en : BOOLEAN, ack : BOOLEAN]]
  /\ top \in [state : {"M5", "M6"}, count : 0..(LongLen - 1), short : BOOLEAN,
              mem : [who : 0..5, en : BOOLEAN, ack : BOOLEAN, cmd : BOOLEAN \X BOOLEAN \X BOOLEAN]]
  /\ m1 \in Drive /\ m2 \in Drive /\ m3 \in Drive /\ m4 \in Drive
  /\ m5 \in DmaDrive
  /\ holder \in {0} \cup DataMasters

\* A request that the memory has seen and not acknowledged stays at the port,
\* with the same master and the same command: neither the round robin, nor the
\* locked phases (which the hold condition of the inner stage leaves out), nor
\* the DMA engine takes the port away under a waiting access.
StableUntilAck ==
  top.mem.en /\ ~top.mem.ack =>
    /\ Owner = top.mem.who
    /\ PortEn
    /\ Command(Owner) = top.mem.cmd

\* From the first acknowledge of a burst to its last one no other master reaches
\* the memory.
BurstIndivisible == top.count # 0 => Owner = top.mem.who

\* Both stages count the beats of a cpu burst, each from its own registers: they
\* agree, and the inner one is at rest while the DMA engine bursts.
CountsAgree ==
  sub.count = IF top.state = "M6" THEN top.count ELSE 0

\* Between the locked read of one cpu and the end of its locked section no data
\* access and no instruction fetch of the other cpu reaches the memory.
LockExclusion ==
  /\ holder = 1 => Owner \notin {3, 4}
  /\ holder = 3 => Owner \notin {1, 2}

\* A burst is never cut short or run over: the beats counted at the port and the
\* beats the master still expects add up to the burst.
BeatsMatch ==
  top.count # 0 =>
    (IF Owner = 5 THEN m5.left ELSE m[Owner].left) + 1 + top.count
      = IF top.short THEN ShortLen ELSE LongLen

\* Every request of every master is served in the end, provided no cpu stays in
\* its locked section for ever and the DMA engine does not hold a burst group
\* for ever: nobody is passed over by the two round robins.
Served(i) == Requests(i) ~> ~Requests(i) \/ (top.mem.who = i /\ top.mem.ack)
LocksEnd == []<>(holder = 0)
NoStarvation == LocksEnd => \A i \in Active \cup {5} : Served(i)
=============================================================================

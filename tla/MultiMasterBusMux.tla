------------------------- MODULE MultiMasterBusMux -------------------------
(***************************************************************************)
(* The arbiters between two data bus masters and one slave:                *)
(*   "mux"  multi_master_bus_mux      combinational, M1 first              *)
(*   "ff"   multi_master_bus_muxff    registered requests; the variant     *)
(*          multi_master_bus_muxffwbs sends each access to the word or to  *)
(*          the byte bus of the slave by a route bit registered with it    *)
(*   "lock" multi_master_bus_muxlock  combinational, with locked sections  *)
(* One step is one rising clock edge.  kind, chosen initially, says which  *)
(* of them the system contains.                                            *)
(***************************************************************************)
EXTENDS Naturals

CONSTANTS Kinds  \* the arbiters to look at
ASSUME KindsAssumption == Kinds \subseteq {"mux", "ff", "lock"}

VARIABLES
  kind,
  state,      \* the registered state of the arbiter
  slave_ack,  \* the slave's acknowledge of the previous cycle
  o,          \* what the two masters drive in this cycle
  d,          \* their drives of the previous cycle (mN_o_1delay), only in "ff"
  acked,      \* their acknowledges of the previous cycle (mN.ack), only in "ff"
  waiting,    \* history: the access at the slave that it did not acknowledge
  fresh,      \* history: the masters whose request is new in this cycle
  holder      \* history: the master inside a locked section, or 0

vars == <<kind, state, slave_ack, o, d, acked, waiting, fresh, holder>>

Masters == {1, 2}
Drive == [en : BOOLEAN, wr : BOOLEAN, lock : BOOLEAN, byte : BOOLEAN]
Quiet == [en |-> FALSE, wr |-> FALSE, lock |-> FALSE, byte |-> FALSE]
Nothing == [who |-> 0, req |-> Quiet]

\* Which wires a master uses: locks exist in "lock", routes in "ff".
Drives == {x \in Drive : /\ x.wr \/ x.byte => x.en
                         /\ x.lock => kind = "lock"
                         /\ x.byte => kind = "ff"}

LockedRead(x) == x.en /\ ~x.wr /\ x.lock

Lock1(i) == IF i = 1 THEN "M1LOCK1" ELSE "M2LOCK1"
Lock2(i) == IF i = 1 THEN "M1LOCK2" ELSE "M2LOCK2"
Plain(i) == IF i = 1 THEN "M1" ELSE "M2"
States == {"M1", "M2", "M1LOCK1", "M1LOCK2", "M2LOCK1", "M2LOCK2", "M2POLL"}

-----------------------------------------------------------------------------
(* Combinational logic of one cycle.                                       *)

\* Mutant: M1 does not wait for the acknowledge of M2.
MutableAlways == state \in {"M1", "M2"}
\* M1 may take the bus: it is M1's, or M2 was just acknowledged.
Mutable == state = "M1" \/ (state = "M2" /\ slave_ack)

SelMux == IF (o[1].en \/ ~o[2].en) /\ Mutable THEN 1 ELSE 2

\* The registered arbiter looks at the previous cycle; an access that was just
\* acknowledged does not count.
\* Mutant: the access of M1 that was just acknowledged still counts.
SelFFGreedy ==
  IF (d[1].en \/ (~d[2].en \/ acked[2])) /\ Mutable THEN 1 ELSE 2
SelFF ==
  IF ((d[1].en /\ ~acked[1]) \/ (~d[2].en \/ acked[2])) /\ Mutable THEN 1 ELSE 2

\* Mutant: M2's section ends with the first idle cycle.
SelLockShort ==
  CASE state = "M2LOCK2" -> IF ~o[2].en THEN 1 ELSE 2
    [] state = "M2POLL" -> IF o[2].en THEN 2 ELSE 1
    [] state \in {"M1LOCK1", "M1LOCK2"} -> 1
    [] state = "M2LOCK1" -> 2
    [] OTHER -> SelMux
\* In a locked section the master that opened it is selected; M2's ends at once
\* when it drops the lock, after M1's there is one cycle that prefers M2.
SelLock ==
  CASE state = "M2LOCK2" -> IF ~o[2].en /\ ~o[2].lock THEN 1 ELSE 2
    [] state = "M2POLL" -> IF o[2].en THEN 2 ELSE 1
    [] state \in {"M1LOCK1", "M1LOCK2"} -> 1
    [] state = "M2LOCK1" -> 2
    [] OTHER -> SelMux

Sel == CASE kind = "mux" -> SelMux [] kind = "ff" -> SelFF [] OTHER -> SelLock

\* Mutant: the bubble after an acknowledge is missing.
PresentedNoBubble == IF kind = "ff" THEN d[Sel] ELSE o[Sel]
\* What the slave sees: the registered arbiter repeats the acknowledged access
\* for one cycle and masks it.
Presented ==
  CASE kind # "ff" -> o[Sel]
    [] kind = "ff" /\ slave_ack -> [d[Sel] EXCEPT !.en = FALSE, !.wr = FALSE]
    [] OTHER -> d[Sel]
WordBusEn == Presented.en /\ ~Presented.byte
ByteBusEn == Presented.en /\ Presented.byte

\* Mutant: a section without an access in this cycle is over.
IdleSectionNone(i) == FALSE
\* Whether the selected master's section goes on without an access.
IdleSection(i) == state = Lock2(i) /\ ~o[i].en /\ o[i].lock

\* slave_lock
SlaveLock ==
  /\ kind = "lock"
  /\ \/ state \in {"M1LOCK1", "M2LOCK1"}
     \/ \E i \in Masters : IdleSection(i)
     \/ LockedRead(o[Sel])

NextState(back) ==
  LET locking == kind = "lock" /\ (state = Lock1(Sel) \/ LockedRead(o[Sel]))
  IN CASE locking -> IF back THEN Lock2(Sel) ELSE Lock1(Sel)
       [] ~locking /\ kind = "lock" /\ IdleSection(Sel) -> state
       [] ~locking /\ kind = "lock" /\ state = "M1LOCK2" /\ ~o[1].en /\ ~o[1].lock -> "M2POLL"
       [] OTHER -> Plain(Sel)

-----------------------------------------------------------------------------

Init ==
  /\ kind \in Kinds
  /\ state = "M1" /\ slave_ack = FALSE
  /\ o = [i \in Masters |-> Quiet]
  /\ d = [i \in Masters |-> Quiet]
  /\ acked = [i \in Masters |-> FALSE]
  /\ waiting = Nothing /\ fresh = {} /\ holder = 0

\* A locked section is opened by an acknowledged locked read, closed by the next
\* acknowledged access of another kind or by an idle cycle without the lock.
NextHolder(back) ==
  CASE back -> IF LockedRead(o[Sel]) THEN Sel ELSE 0
    [] ~back /\ holder # 0 /\ ~o[holder].en /\ ~o[holder].lock -> 0
    [] OTHER -> holder

\* One clock edge; back is slave_i.ack in the cycle that it ends.  The slave
\* answers only what is presented; a master holds its request until its
\* acknowledge, which it sees in the same cycle.
Cycle(back) ==
  /\ back => Presented.en
  /\ state' = NextState(back)
  /\ slave_ack' = back
  /\ IF kind = "ff"
       THEN d' = o /\ acked' = [i \in Masters |-> back /\ Sel = i]
       ELSE UNCHANGED <<d, acked>>
  /\ \E x \in Drives, y \in Drives :
       /\ o[1].en /\ ~(back /\ Sel = 1) => x = o[1]
       /\ o[2].en /\ ~(back /\ Sel = 2) => y = o[2]
       /\ o' = <<x, y>>
  /\ waiting' = IF Presented.en /\ ~back THEN [who |-> Sel, req |-> Presented] ELSE Nothing
  /\ fresh' = {i \in Masters : o'[i].en /\ (~o[i].en \/ (back /\ Sel = i))}
  /\ holder' = NextHolder(back)
  /\ UNCHANGED kind

Acknowledge == Cycle(TRUE)
WaitState == Cycle(FALSE)
Next == Acknowledge \/ WaitState
Spec == Init /\ [][Next]_vars

\* The clock runs and the slave answers every access in the end.
Answered == []<>~Presented.en \/ []<>slave_ack
FairSpec == Spec /\ WF_vars(Next) /\ Answered

-----------------------------------------------------------------------------

\* Whatever is presented to the slave is what the selected master requests now:
\* the registered arbiter never shows the slave an access that was already
\* acknowledged (which would be done twice), on either of its two buses.
NoRepeat == Presented.en => Presented = o[Sel]

\* An access that the slave has not acknowledged stays in front of it.
StableUntilAck == waiting.who # 0 => Sel = waiting.who /\ Presented = waiting.req

\* Inside a locked section of one master no access of the other reaches the
\* slave.  The section ends in the cycle in which its master drops the lock
\* without an access.
InSection == holder # 0 /\ (o[holder].en \/ o[holder].lock)
LockExclusive == InSection /\ Presented.en => Sel = holder

\* slave_lock, which chains the section to the next arbiter, stays up from the
\* locked read until the section's closing access or its silent end.
SlaveLockSpans ==
  InSection => SlaveLock \/ (o[holder].en /\ ~LockedRead(o[holder]))

\* M1 is served if the locked sections of M2 end; so is M2, if M1 pauses now and
\* then.  The registered arbiter serves both without that condition: the cycle
\* after an acknowledge lets the other master in.
LocksEnd == []<>(holder = 0)
Pauses == kind = "ff" \/ []<>(~o[1].en /\ ~o[1].lock)
Served(i) == o[i].en ~> (~o[i].en \/ i \in fresh)
NoStarvation == LocksEnd => Served(1) /\ (Pauses => Served(2))
=============================================================================

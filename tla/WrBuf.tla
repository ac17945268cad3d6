------------------------------- MODULE WrBuf -------------------------------
(***************************************************************************)
(* The write buffer in front of the DDR controller (wrbuf): a FIFO between *)
(* a master (port a) and the memory (port b).  A write is acknowledged as  *)
(* soon as it is in the FIFO; a read queues behind the writes and is       *)
(* acknowledged with the memory's answer.                                  *)
(*                                                                         *)
(* One step is one rising clock edge.  A slot of the FIFO keeps its old    *)
(* contents after it has been read, and the logic looks at the slot under  *)
(* the read pointer even when the FIFO is empty.  Byte enables go with the *)
(* data and are left out.                                                  *)
(***************************************************************************)
EXTENDS Naturals

CONSTANTS Addr, Value, Zero,
          Depth  \* WRBUF_MEM_DEPTH_C, 4 in the code
ASSUME DepthAssumption == Depth \in Nat /\ Depth > 0
ASSUME ResetAssumption == Zero \in Value

VARIABLES
  mem,           \* slot -> entry (wrbufmem)
  waddr, raddr,  \* pointers, one bit wider than a slot number
  ack,           \* an access was pushed in the previous cycle
  wack,          \* the write of the previous cycle is acknowledged now
  stall,         \* a read is on its way to the memory
  rw,            \* was the slot at the read pointer a write in the previous cycle
  a,             \* what the master drives
  store,         \* the memory behind port b
  reply          \* the data of the last acknowledged read

vars == <<mem, waddr, raddr, ack, wack, stall, rw, a, store, reply>>

Access == [wr : BOOLEAN, a : Addr, d : Value]
Accesses == {x \in Access : ~x.wr => x.d = Zero}
Idle == [en |-> FALSE]
Request == {[en |-> TRUE, acc |-> x] : x \in Accesses}
Drives == {Idle} \cup Request

Slots == 0..(Depth - 1)
Pointers == 0..(2 * Depth - 1)

Slot(p) == IF p >= Depth THEN p - Depth ELSE p
Advance(p) == IF p = 2 * Depth - 1 THEN 0 ELSE p + 1

Empty == waddr = raddr
\* Mutant: the extra pointer bit is not compared, a full FIFO looks empty.
FullUnseen == FALSE
Full == waddr # raddr /\ Slot(waddr) = Slot(raddr)

Writing == a.en /\ a.acc.wr
Reading == a.en /\ ~a.acc.wr

\* Mutant: the push keeps one slot in reserve, the acknowledge does not.
PushReserve == a.en /\ ~ack /\ ~stall /\ Slot(Advance(waddr)) # Slot(raddr)
Push == a.en /\ ~ack /\ ~Full /\ ~stall
Oldest == mem[Slot(raddr)]

\* Mutants: any answer ends the read; only a read seen for two cycles does.
ReadAnswerAny(back) == back
ReadAnswerLate(back) == back /\ ~Oldest.wr /\ ~rw
\* The answer to a read: the slot at the read pointer is, or was one cycle ago,
\* a read (this_c.rw, this_r.rw).
ReadAnswer(back) == back /\ (~Oldest.wr \/ ~rw)
\* ya.ack in this cycle.
Acked(back) == (stall /\ ReadAnswer(back)) \/ wack

\* Reset clears the registers and leaves the slots as they are.
Init ==
  /\ mem \in [Slots -> Access]
  /\ waddr = 0 /\ raddr = 0
  /\ ack = FALSE /\ wack = FALSE /\ stall = FALSE /\ rw = FALSE
  /\ a = Idle
  /\ store = [x \in Addr |-> Zero] /\ reply = Zero

\* One clock edge; back is b.ack in the cycle that it ends.  The memory answers
\* only an access that is presented to it (yb.en), the master holds a request
\* until its acknowledge.
Cycle(back) ==
  /\ back => ~Empty
  /\ mem' = IF Push THEN [mem EXCEPT ![Slot(waddr)] = a.acc] ELSE mem
  /\ waddr' = IF Push THEN Advance(waddr) ELSE waddr
  /\ ack' = Push
  /\ raddr' = IF back /\ ~Empty THEN Advance(raddr) ELSE raddr
  /\ wack' = (Writing /\ ~wack /\ ~Full)
  /\ stall' = IF ReadAnswer(back) THEN FALSE ELSE stall \/ (Reading /\ ~Full)
  /\ rw' = Oldest.wr
  /\ store' = IF back /\ Oldest.wr THEN [store EXCEPT ![Oldest.a] = Oldest.d] ELSE store
  /\ reply' = IF a.en /\ Acked(back) /\ ~a.acc.wr THEN store[Oldest.a] ELSE reply
  /\ IF a.en /\ ~Acked(back) THEN a' = a ELSE a' \in Drives

MemoryAcks == Cycle(TRUE)
MemoryWaits == Cycle(FALSE)
Next == MemoryAcks \/ MemoryWaits

Spec == Init /\ [][Next]_vars
\* The clock runs and the memory answers every access in the end.
FairSpec == Spec /\ WF_vars(Next) /\ WF_vars(MemoryAcks)

-----------------------------------------------------------------------------

TypeOK ==
  /\ mem \in [Slots -> Access]
  /\ waddr \in Pointers /\ raddr \in Pointers
  /\ ack \in BOOLEAN /\ wack \in BOOLEAN /\ stall \in BOOLEAN /\ rw \in BOOLEAN
  /\ a \in Drives
  /\ store \in [Addr -> Value] /\ reply \in Value

\* The number of accesses in the FIFO, and the k-th of them.
Occupancy == IF waddr >= raddr THEN waddr - raddr ELSE 2 * Depth + waddr - raddr
After(p, k) == IF p + k >= 2 * Depth THEN p + k - 2 * Depth ELSE p + k
Nth(k) == mem[Slot(After(raddr, k))]

\* The FIFO never holds more accesses than it has slots: a push never overwrites
\* one that the memory has not seen.
NoOverflow == Occupancy <= Depth

\* A write is acknowledged exactly while it is the youngest access in the FIFO,
\* although the acknowledge (wack) and the push (ack) are decided by different
\* conditions; a read in flight is the youngest access too.
AckedIsQueued ==
  /\ wack => Writing /\ ack /\ Occupancy > 0 /\ Nth(Occupancy - 1) = a.acc
  /\ stall => Reading /\ Occupancy > 0 /\ Nth(Occupancy - 1) = a.acc

\* The memory as the master sees it: the queued writes, up to the one being
\* acknowledged, are as good as done.
Queued == Occupancy - (IF wack THEN 1 ELSE 0)
Visible(x) == {k \in 0..(Queued - 1) : Nth(k).wr /\ Nth(k).a = x}
View == [x \in Addr |->
  IF Visible(x) = {} THEN store[x]
  ELSE Nth(CHOOSE k \in Visible(x) : \A j \in Visible(x) : j <= k).d]

\* The buffer is invisible: the master sees a memory that answers in order.
Bus == INSTANCE MemoryBus WITH cell <- View
Transparent == Bus!Spec

\* Every request is acknowledged in the end: a write by wack, a read by the end
\* of the stall that it causes.
Answered == /\ Writing ~> wack
            /\ Reading ~> stall
            /\ stall ~> ~stall
=============================================================================

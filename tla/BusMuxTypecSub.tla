-------------------------- MODULE BusMuxTypecSub --------------------------
(***************************************************************************)
(* The inner stage of the memory arbiter (bus_mux_typecsub): four masters, *)
(*    1 = cpu0 data, 2 = cpu0 instruction,                                 *)
(*    3 = cpu1 data, 4 = cpu1 instruction,                                 *)
(* share one port towards the outer stage (BusMuxTypec).  The fifth port   *)
(* of the entity is tied to '0' by its only user, so state M5 is           *)
(* unreachable and left out.  This module holds the combinational          *)
(* functions of one clock cycle; BusMuxTypec holds the registers.          *)
(*                                                                         *)
(* A master drives [en, wr, lock, burst]; burst marks the first beat of a  *)
(* cache fill (mN_ddrburst).                                               *)
(***************************************************************************)
EXTENDS Naturals

Masters == 1..4
DataMasters == {1, 3}

LockingStates == {"M1LOCK1", "M1LOCK2", "M3LOCK1", "M3LOCK2"}
SubStates == {"M1", "M2", "M3", "M4", "M12LOCKT", "M34LOCKT", "IDLE"} \cup LockingStates

LockedRead(o) == o.en /\ ~o.wr /\ o.lock

\* The state that serves master i from an unlocked bus; only the data masters
\* have a lock input.
Grant(i, m) ==
  CASE i = 1 -> IF LockedRead(m[1]) THEN "M1LOCK1" ELSE "M1"
    [] i = 3 -> IF LockedRead(m[3]) THEN "M3LOCK1" ELSE "M3"
    [] i = 2 -> "M2"
    [] OTHER -> "M4"

\* Mutant: fixed priority instead of the rotation.
OrderFixed(s) == <<1, 2, 3, 4>>
\* Round robin: the masters after the one just served, in order; a master that
\* finds no other request keeps the bus, and an IDLE bus falls back to M1.
Order(s) ==
  CASE s = "M1" -> <<2, 3, 4, 1>>
    [] s = "M2" -> <<3, 4, 1, 2>>
    [] s = "M3" -> <<4, 1, 2, 3>>
    [] s = "M4" -> <<1, 2, 3, 4>>
    [] OTHER    -> <<1, 2, 3, 4>>
Fallback(s) == CASE s = "M2" -> 2 [] s = "M3" -> 3 [] s = "M4" -> 4 [] OTHER -> 1

RoundRobin(s, m) ==
  LET o == Order(s) IN
  CASE m[o[1]].en -> Grant(o[1], m)
    [] ~m[o[1]].en /\ m[o[2]].en -> Grant(o[2], m)
    [] ~m[o[1]].en /\ ~m[o[2]].en /\ m[o[3]].en -> Grant(o[3], m)
    [] ~m[o[1]].en /\ ~m[o[2]].en /\ ~m[o[3]].en /\ m[o[4]].en -> Grant(o[4], m)
    [] OTHER -> Grant(Fallback(s), m)

\* Mutant: an idle lock holder loses the bus.
WhileLockedIdle(d, i, locked, through, m) ==
  CASE m[d].en -> Grant(d, m)
    [] ~m[d].en /\ m[i].en -> through
    [] OTHER -> "IDLE"
\* While data master d holds the lock only d itself and the instruction master
\* i of the same cpu are served; dropping the lock without an access frees the bus.
WhileLocked(d, i, locked, through, m) ==
  CASE m[d].en -> Grant(d, m)
    [] ~m[d].en /\ m[i].en -> through
    [] ~m[d].en /\ ~m[i].en /\ ~m[d].lock -> "IDLE"
    [] OTHER -> locked

\* An access that was presented and not acknowledged, or a burst in progress,
\* freezes the arbiter.
SubHold(sub) ==
  \/ sub.count # 0
  \/ sub.mem.en /\ ~sub.mem.ack /\ sub.state \notin LockingStates

\* state_busarbc_woa: the state before this cycle's acknowledge is seen.
Woa(sub, m) ==
  CASE SubHold(sub) -> sub.state
    [] ~SubHold(sub) /\ sub.state \in {"M1LOCK1", "M3LOCK1"} -> sub.state
    [] ~SubHold(sub) /\ sub.state \in {"M1LOCK2", "M12LOCKT"} ->
         WhileLocked(1, 2, "M1LOCK2", "M12LOCKT", m)
    [] ~SubHold(sub) /\ sub.state \in {"M3LOCK2", "M34LOCKT"} ->
         WhileLocked(3, 4, "M3LOCK2", "M34LOCKT", m)
    [] OTHER -> RoundRobin(sub.state, m)

\* The registered state: an acknowledged locked read enters the locked phase.
NextState(woa, ack) ==
  CASE ack /\ woa = "M1LOCK1" -> "M1LOCK2"
    [] ack /\ woa = "M3LOCK1" -> "M3LOCK2"
    [] OTHER -> woa

\* The master connected to the port (0: none), and whether its first-beat mark
\* is passed on; an instruction fetch inside a locked section is never a burst.
Selected(woa) ==
  CASE woa \in {"M1", "M1LOCK1", "M1LOCK2"} -> 1
    [] woa \in {"M2", "M12LOCKT"} -> 2
    [] woa \in {"M3", "M3LOCK1", "M3LOCK2"} -> 3
    [] woa \in {"M4", "M34LOCKT"} -> 4
    [] OTHER -> 0
PassesBurst(woa) == woa \notin {"M12LOCKT", "M34LOCKT", "IDLE"}

\* Beats acknowledged of the burst in progress: the first acknowledge of a burst
\* starts the count, it wraps to 0 with the last one.
NextCount(count, ack, burst, length) ==
  CASE ~ack -> count
    [] ack /\ count # 0 -> (count + 1) % length
    [] OTHER -> IF burst THEN 1 ELSE 0
=============================================================================

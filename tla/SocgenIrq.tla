------------------------------- MODULE SocgenIrq -------------------------------
(* How socgen wires interrupts: every irq of a device is a bit of the vector      *)
(* irqs<cpu> of the interrupt controller (class aic) of its cpu, several on one    *)
(* bit through an or; a controller gets the vector number of each bit.            *)
EXTENDS SocgenNets

CONSTANTS FirstVector,  \* 0x11
          Paths         \* interrupt inputs of a controller (8)
ASSUME IrqAssumption == FirstVector \in Nat /\ Paths \in Nat \ {0}

Irqs(cpu) == "irqs" \o ToString(cpu)
Source(cpu, path, n) == "irq_" \o ToString(cpu) \o "_" \o ToString(path) \o "_" \o ToString(n)

IsAic(d, i) == Lc(d.devices[i].class) = "aic"
(* aicByCPU: of two controllers of one cpu the later one. *)
Aics(d) == {i \in DOMAIN d.devices : IsAic(d, i) /\ d.devices[i].cpu >= 0}
AicCpus(d) == {d.devices[i].cpu : i \in Aics(d)}
AicOf(d, cpu) == Max({i \in Aics(d) : d.devices[i].cpu = cpu})

(* The tuples: each irq that a device gives, with the port that is its own. *)
IrqPort(dev) == SelectInSeq(dev.ports, LAMBDA p : p.kind = "irq")
HasPort(dev, port) ==
    \/ dev.entity = ""
    \/ Lib.entities[dev.entity].ports = <<>>
    \/ \E k \in DOMAIN Lib.entities[dev.entity].ports : Lib.entities[dev.entity].ports[k].name = port
Tuple(i, port, cpu, path) ==
    [dev |-> i, port |-> port, cpu |-> cpu, path |-> path, vector |-> FirstVector + path]
TuplesOf(d, devices, i) ==
    LET irq == d.devices[i].irq
        at == IrqPort(devices[i])
    IN  CASE irq.k = "int" -> IF at = 0 THEN {}
                              ELSE {Tuple(i, devices[i].ports[at].name, d.devices[i].cpu, irq.n)}
          [] irq.k = "named" -> {Tuple(i, p, irq.of[p].cpu, irq.of[p].irq) :
                                    p \in {p \in DOMAIN irq.of : HasPort(devices[i], p)}}
          [] OTHER -> {}
Tuples(d, devices) == UNION {TuplesOf(d, devices, i) : i \in DOMAIN d.devices}
Groups(tuples) == {<<t.cpu, t.path>> : t \in tuples}
(* Mutant: the irqs of one path of any cpu are taken together. *)
GroupAnyCpu(tuples, g) == {t \in tuples : t.path = g[2]}
Group(tuples, g) == {t \in tuples : <<t.cpu, t.path>> = g}
IsShared(tuples, t) == Cardinality(Group(tuples, <<t.cpu, t.path>>)) > 1
(* The sources of an or are numbered in the order of the devices and their ports. *)
Place(tuples, t) == SelectInSeq(Listed(Group(tuples, <<t.cpu, t.path>>)), LAMBDA u : u = t)

(* setOverride: what an interrupt port is connected to, instead of its signal. An  *)
(* actual is a reference: a vector's bit or a signal; Open is no connection.       *)
Open == <<"open", "">>
Actual(d, tuples, t) ==
    IF t.cpu \notin AicCpus(d) THEN Open
    ELSE IF IsShared(tuples, t) THEN <<Source(t.cpu, t.path, Place(tuples, t)), "">>
    ELSE <<Irqs(t.cpu), ToString(t.path)>>

(* buildIRQ. Without a controller nothing is wired. The controller's own input is  *)
(* the vector, unless the device of the design says what it is.                    *)
NoIrq == [signals |-> {}, vectors |-> {}, ors |-> {}, overrides |-> <<>>, numbers |-> <<>>]
Overrides(d, tuples) ==
    LET own == {AicOf(d, c) : c \in {c \in AicCpus(d) : "irq_i" \notin DOMAIN d.devices[AicOf(d, c)].ports}}
        keys == {<<t.dev, t.port>> : t \in tuples} \union {<<i, "irq_i">> : i \in own}
    IN  [key \in keys |->
            IF key[1] \in own /\ key[2] = "irq_i" THEN <<Irqs(d.devices[key[1]].cpu), "">>
            ELSE Actual(d, tuples, CHOOSE t \in tuples : <<t.dev, t.port>> = key)]
BuildIrq(d, devices) ==
    LET tuples == Tuples(d, devices)
        wired == {t \in tuples : t.cpu \in AicCpus(d)}
        shared == {t \in wired : IsShared(tuples, t)}
    IN  IF Aics(d) = {} THEN NoIrq
        ELSE [vectors |-> {Irqs(c) : c \in AicCpus(d)},
              signals |-> {Actual(d, tuples, t)[1] : t \in shared},
              ors |-> {[target |-> <<Irqs(g[1]), ToString(g[2])>>,
                        sources |-> {Actual(d, tuples, t) : t \in Group(tuples, g)}] : g \in Groups(shared)},
              overrides |-> Overrides(d, tuples),
              numbers |-> [i \in {AicOf(d, c) : c \in AicCpus(d)} |->
                            [p \in 0..Paths - 1 |->
                                IF <<d.devices[i].cpu, p>> \in Groups(wired) THEN FirstVector + p ELSE 0]]]
IrqErrors(d, devices) ==
    LET tuples == Tuples(d, devices)
        int(i) == d.devices[i].irq.k = "int"
    IN  {<<"irq cpu", i>> : i \in {i \in DOMAIN d.devices : IsAic(d, i) /\ d.devices[i].cpu < 0}}
        \union IF Aics(d) = {} THEN {}
          ELSE {<<"aic coverage", 0>> : x \in {1} \ {IF AicCpus(d) = 0..Cardinality(AicCpus(d)) - 1 THEN 1 ELSE 0}}
          \union {<<"no irq port", i>> : i \in {i \in DOMAIN devices : int(i) /\ IrqPort(devices[i]) = 0}}
          \union {<<"no named port", i>> : i \in {i \in DOMAIN devices : d.devices[i].irq.k = "named" /\
                        \E p \in DOMAIN d.devices[i].irq.of : ~HasPort(devices[i], p)}}
          \union {<<"irq cpu", t.dev>> : t \in {t \in tuples : t.cpu < 0}}
          \union {<<"irq path", t.dev>> : t \in {t \in tuples : t.path \notin 0..Paths - 1}}
=============================================================================

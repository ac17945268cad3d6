---------------------------- MODULE SocgenProperties ---------------------------
(* What the designs that socgen takes without a word must come out as: documents  *)
(* that overlay each other as written, a decoder that finds every device, files   *)
(* that are VHDL, and hardware connected as the net-list and the irqs say.         *)
EXTENDS Socgen, SocgenInclude

(* The tree of a board that loads is what its documents mean: each mapping over    *)
(* the one it merges, each file on its own, whatever the order of the keys and the *)
(* depth of the merges (include.go).                                               *)
IncludeIsOverlay ==
    pc = "load" =>
        LET root == LoadTree(files, BoardFile)
        IN  root.k # "error" /\ (\A path \in DOMAIN files : ~MarkUsedTwice(files[path])) =>
                Tree(root) = Cleared(Meant(files, files[BoardFile], Front(BoardFile)))

-------------------------------------------------------------------------------
(* A unit of VHDL-93 as far as names go. *)
Meets(r, s) == r[1] = s[1] /\ (r[2] = "" \/ s[2] = "" \/ r[2] = s[2])
Declared(unit) == Listed(DOMAIN unit.ports) \o unit.decls
Conns(unit) == UNION {unit.insts[k].map : k \in DOMAIN unit.insts}
Read(unit) == {c.actual : c \in {c \in Conns(unit) : c.dir = "in"}} \union UNION {a.from : a \in unit.assigns}
Used(unit) == {r \in Read(unit) \union {c.actual : c \in Conns(unit)} \union {a.to : a \in unit.assigns} : IsRef(r)}

NamesOnce(unit) ==
    LET names == Declared(unit)
    IN  \A i, j \in DOMAIN names : Lc(names[i]) = Lc(names[j]) => i = j
NamesKnown(unit) ==
    LET names == {Lc(n) : n \in Range(Declared(unit))}
    IN  \A r \in Used(unit) : /\ Lc(r[1]) \in names
                              /\ r[1] \in {"devs_bus_i", "devs_bus_o"} /\ r[2] # "" => Lc(r[2]) \in names
DrivenOnce(unit) ==
    LET outs == UNION {{[place |-> k, formal |-> c.formal, to |-> c.actual] :
                    c \in {c \in unit.insts[k].map : c.dir # "in" /\ IsRef(c.actual)}} : k \in DOMAIN unit.insts}
        all == outs \union {[place |-> 0, formal |-> a, to |-> a.to] : a \in unit.assigns}
    IN  /\ \A x, y \in all : x # y => ~Meets(x.to, y.to)
        /\ \A x \in all : x.to[1] \in DOMAIN unit.ports => unit.ports[x.to[1]] # "in"
DrivenAll(unit) ==
    \A r \in Read(unit) : IsRef(r) =>
        \/ \E c \in Conns(unit) : c.dir # "in" /\ Meets(c.actual, r)
        \/ \E a \in unit.assigns : Meets(a.to, r)
        \/ r[1] \in DOMAIN unit.ports
        \/ r[1] \in res.irq.vectors
OutsUnread(unit) ==
    \A r \in Read(unit) : r[1] \in DOMAIN unit.ports => unit.ports[r[1]] # "out"
LabelsOnce(unit) ==
    LET labels == {a.label : a \in unit.assigns} \ {""}
    IN  /\ \A i, j \in DOMAIN unit.insts : Lc(unit.insts[i].label) = Lc(unit.insts[j].label) => i = j
        /\ \A k \in DOMAIN unit.insts : Lc(unit.insts[k].label) \notin labels \union {Lc(n) : n \in Range(Declared(unit))}
IsVhdl(unit) == /\ NamesOnce(unit) /\ NamesKnown(unit) /\ DrivenOnce(unit) /\ DrivenAll(unit)
                /\ OutsUnread(unit) /\ LabelsOnce(unit)

-------------------------------------------------------------------------------
(* The generated hardware, flattened. What drives a reference of a unit: ports of  *)
(* instances and pads, found through assignments and through the units around and  *)
(* inside.                                                                         *)
Outer(u) == CASE u = "devices" -> "soc" [] OTHER -> "pad_ring"
Inner(u) == CASE u = "pad_ring" -> "soc" [] OTHER -> "devices"
(* A multiplexer of masters passes on its buses and not its clock and reset. *)
Passed(a) == a.from \ (IF a.label \in {st.label : st \in Range(res.bus.stages)}
                       THEN {Whole("clk_sys"), Whole("reset")} ELSE {})
RECURSIVE Sources(_, _)
Sources(u, r) ==
    LET unit == out[u]
        mode == Get(unit.ports, r[1], "")
    IN  IF u = "pad_ring" /\ mode # "" THEN {<<u, "pad", r[1]>>}
        ELSE UNION {UNION {Sources(u, s) : s \in Passed(a)} : a \in {a \in unit.assigns : Meets(a.to, r)}}
             \union UNION {{<<u, inst.label, c.formal[1]>> :
                             c \in {c \in inst.map : c.dir = "out" /\ Meets(c.actual, r)}} :
                         inst \in {i \in Range(unit.insts) : i.label # Inner(u)}}
             \union (IF u # "devices" /\ Get(out[Inner(u)].ports, r[1], "") = "out" THEN Sources(Inner(u), r) ELSE {})
             \union (IF mode = "in" THEN Sources(Outer(u), r) ELSE {})

(* What the net-list says drives a reference. The reads of a connected bus come     *)
(* from all devices of the bus, and through the decoder from the masters.           *)
Home(ctx) == CASE ctx = "device" -> "devices" [] ctx = "top" -> "soc" [] OTHER -> "pad_ring"
DriverRefs(s, elem) ==
    {r \in Range(res.refs) : r.sig = s /\ r.dir = "out" /\ (elem = "" \/ r.elem \in {"", elem})}
BusPorts(dir) == UNION {{<<"devices", Lc(res.devices[i].name), Lc(p.name)>> :
                            p \in {p \in Range(res.devices[i].ports) : p.kind = "databus" /\ p.dir = dir}} :
                        i \in BusDevices(res)}
PortOf(r) == <<Home(r.ctx), Lc(r.id), Lc(r.port)>>
Written(buses) == {PortOf(r) : r \in UNION {DriverRefs(Out(b)[1], "") : b \in buses}}
PioDrivers == IF \E i \in DOMAIN res.pio : res.pio[i].const = None THEN {PortOf(r) : r \in DriverRefs("po", "")} ELSE {}
Driver(r) ==
    CASE r.id = "_internal" ->
            IF r.sig \in {In(b)[1] : b \in res.bus.connected}
            THEN BusPorts("out") \union Written(res.bus.connected)
            ELSE Written({b \in res.bus.disconnected : In(b)[1] = r.sig})
      [] r.ctx = "zero" -> {}
      [] r.ctx = "pin" -> {<<"pad_ring", "pad", PinName(r.id)>>}
      [] r.ctx = "padring" /\ r.id = "pi" /\ "pi" \notin DOMAIN res.pads -> PioDrivers
      [] OTHER -> {PortOf(r)}
DrivenBy(s, elem) == UNION {Driver(r) : r \in DriverRefs(s, elem)}

(* What the port of an instance is connected to in the files. *)
PortActuals(u, label, port) ==
    {c.actual : c \in {c \in UNION {inst.map : inst \in {i \in Range(out[u].insts) : i.label = Lc(label)}} :
                        c.formal[1] = Lc(port)}}
Reached(u, label, port) == UNION {Sources(u, a) : a \in {a \in PortActuals(u, label, port) : IsRef(a)}}

ReadersServed ==
    \A r \in Range(res.refs) :
        /\ r.dir = "in" /\ r.ctx # "pin" /\ r.id # "_internal"
        /\ ~\E i \in DOMAIN res.devices : res.devices[i].name = r.id /\ <<i, r.port>> \in DOMAIN res.irq.overrides
        =>
            Reached(Home(r.ctx), r.id, r.port) = DrivenBy(r.sig, "")
PadsServed ==
    \A pin \in Range(res.pins) :
        LET legs == {r \in Range(res.refs) : r.ctx = "pin" /\ r.id = pin.net /\ r.dir = "in"}
            from == UNION {a.from : a \in {a \in out["pad_ring"].assigns : a.to = Pad(pin)}}
        IN  UNION {Sources("pad_ring", s) : s \in from} = UNION {DrivenBy(r.sig, r.elem) : r \in legs}
DevicesServed ==
    \A i \in BusDevices(res) : \A p \in Range(res.devices[i].ports) :
        p.kind = "databus" /\ p.dir = "in" =>
            Reached("devices", res.devices[i].name, p.name) = Written(res.bus.connected)

-------------------------------------------------------------------------------
(* Designs that socgen takes without a word and that do not come out right: what   *)
(* soc.vhd both drives for the outside and reads; a zero for what is not in        *)
(* soc.vhd; a loop of system.pio on a signal that the design does not have; a      *)
(* multiplexer in devices.vhd without clock and reset; a chain of multiplexers that *)
(* starts from other masters than the connected ones; a device of the bus that has *)
(* no address.                                                                     *)
SocReadsItsOutput ==
    \E r \in Range(res.refs) : /\ Get(res.loc.soc, r.sig, "") = "out" /\ r.dir = "in"
                               /\ r.ctx = "top" \/ (r.ctx = "device" /\ SourceKinds(res.refs, r.sig) = {"top"})
ZeroElsewhere == \E s \in ZeroOut(res) : ~(Kinds(res.refs, s) \subseteq {"top", "zero"})
LoopOfNothing ==
    \/ res.pio # <<>> /\ RefsOf(res.refs, "pi") = {}
    \/ RefsOf(res.refs, "po") = {} /\ \E i \in DOMAIN res.pio : res.pio[i].const = None
StageUnclocked == res.bus.stages # <<>> /\ ~({"clk_sys", "reset"} \subseteq DOMAIN res.loc.devices)
ChainOfOthers ==
    LET outs == {st.out : st \in Range(res.bus.stages)}
        ins == {res.bus.master} \union UNION {{st.in1, st.in2} : st \in Range(res.bus.stages)}
    IN  res.bus.on /\ ins \ outs # res.bus.connected
NoAddress == \E i \in DOMAIN res.devices : res.devices[i].dataBus /\ res.devices[i].base = None
Excepted == (\E i \in DOMAIN res.pins : OddLegs(res.pins[i])) \/ SocReadsItsOutput \/ ZeroElsewhere \/ LoopOfNothing \/ StageUnclocked \/ ChainOfOthers \/ NoAddress

(* The three files of a design that is taken without a word are VHDL: names are    *)
(* declared, once; what is read is driven, by one driver; no port is used against  *)
(* its mode (soc.go, devices.go, padring.go, categorize.go).                       *)
Legal == Accepted /\ ~Excepted => \A u \in DOMAIN out : IsVhdl(out[u])

(* What reads a signal of the net-list, in whatever file, is connected to what     *)
(* drives it and to nothing else: ports, pads and the devices on the bus.          *)
Faithful == Accepted /\ ~Excepted => ReadersServed /\ PadsServed /\ DevicesServed

(* The irqs that the design gives a path of a cpu, and only those, are what the    *)
(* bit of the vector that this cpu's controller gets is made of, and a path that   *)
(* is used has its vector number (irq.go).                                         *)
Asked(cpu, path) ==
    UNION {LET irq == d.devices[i].irq
           IN  CASE irq.k = "int" -> IF d.devices[i].cpu = cpu /\ irq.n = path
                        THEN {<<"devices", Lc(res.devices[i].name), Lc(p.name)>> :
                                p \in {p \in Range(res.devices[i].ports) : p.kind = "irq"}} ELSE {}
                 [] irq.k = "named" -> {<<"devices", Lc(res.devices[i].name), Lc(p)>> :
                                p \in {p \in DOMAIN irq.of : irq.of[p] = [cpu |-> cpu, irq |-> path]}}
                 [] OTHER -> {} : i \in DOMAIN d.devices}
InterruptReaches ==
    Accepted => \A i \in {i \in Controllers : "irq_i" \notin DOMAIN d.devices[i].ports} :
        LET cpu == d.devices[i].cpu
            inst == CHOOSE inst \in Range(out["devices"].insts) : inst.label = Lc(res.devices[i].name)
        IN  /\ PortActuals("devices", res.devices[i].name, "irq_i") = {Whole(Irqs(cpu))}
            /\ \A p \in 0..Paths - 1 :
                    /\ Sources("devices", <<Irqs(cpu), ToString(p)>>) = Asked(cpu, p)
                    /\ inst.numbers[p] = IF Asked(cpu, p) = {} THEN 0 ELSE FirstVector + p
=============================================================================

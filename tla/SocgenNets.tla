------------------------------- MODULE SocgenNets ------------------------------
(* The passes of socgen's elaboration that make the net-list: what every port of  *)
(* every device and entity is connected to, which buses reach the devices, which  *)
(* signals stay, and in which of the generated files each is a port or a signal.  *)
(*                                                                                *)
(* The net-list is the sequence of the references to signals, [sig, ctx, id,      *)
(* port, dir, type, elem, diff]: `ctx` is the kind of place the port is in        *)
(* ("device", "top", "padring", "pin" or "zero") and `id` the instance; `elem` is *)
(* the part of the signal that a pin stands for, "" for all of it.                *)
EXTENDS SocgenDevices

NoType == <<"", None>>
Ref(sig, ctx, id, port, dir, type, elem, diff) ==
    [sig |-> sig, ctx |-> ctx, id |-> id, port |-> port, dir |-> dir, type |-> type,
     elem |-> elem, diff |-> diff]
Signals(refs) == {refs[i].sig : i \in DOMAIN refs}
RefsOf(refs, s) == {i \in DOMAIN refs : refs[i].sig = s}
(* A Signal has the type of the port that it was first met at. *)
TypeOf(refs, s) == IF RefsOf(refs, s) = {} THEN NoType ELSE refs[Min(RefsOf(refs, s))].type

(* genericEnv and resolveType: a vector may be as wide as a generic says. *)
Env(generics, entity) ==
    [n \in {Lc(g) : g \in DOMAIN generics} |-> generics[CHOOSE g \in DOMAIN generics : Lc(g) = n]]
    @@ Lib.entities[entity].generics
TypeIn(type, env) == <<type.mark, IF type.width = "" THEN None ELSE Get(env, Lc(type.width), None)>>

(* reverseMerge and mergeName: the signal an alias is merged into. *)
MergeName(merge, s) ==
    LET targets == {t \in DOMAIN merge : s \in merge[t]}
    IN  IF targets = {} THEN s ELSE CHOOSE t \in targets : TRUE

(* buildPorts: what the specification says of a port, and else its own name: of a *)
(* device with the device's name before it, of an entity bare.                     *)
CharLiterals == {"'0'", "'1'"}
IsValue(v) == v.k = "lit" \/ (v.k = "expr" /\ Lc(v.text) \in Lib.constants \union CharLiterals)
Names(v) == v.k = "expr" /\ ~IsValue(v)
IsExplicit(p, spec) == IF p.name \in DOMAIN spec THEN Names(spec[p.name]) ELSE p.global # ""
MapKind(key) == CASE key = "irq?" -> "irq" [] key = "data-bus" -> "databus" [] OTHER -> "deferred"
DefaultSignal(owner, p, merge, bare) ==
    LET local == IF p.local = "" THEN p.name ELSE p.local
        full == owner \o "_" \o local
    IN  IF p.global # "" THEN MergeName(merge, p.global)
        ELSE IF bare /\ MergeName(merge, full) = full THEN MergeName(merge, local)
        ELSE MergeName(merge, full)
BuiltPort(owner, p, spec, env, merge, bare) ==
    LET v == spec[p.name]
        said == p.name \in DOMAIN spec
        kind == IF said /\ v.k = "map" THEN MapKind(v.key)
                ELSE IF said /\ IsValue(v) THEN "value"
                ELSE IF p.irq /\ ~IsExplicit(p, spec) THEN "irq" ELSE "signal"
    IN  [name |-> p.name, dir |-> p.dir, type |-> TypeIn(p.type, env), kind |-> kind,
         value |-> IF kind = "value" THEN v.text ELSE "",
         sig |-> IF kind # "signal" THEN ""
                 ELSE IF said THEN MergeName(merge, v.text) ELSE DefaultSignal(owner, p, merge, bare)]

(* applyClkRstHeuristic: the only clock or reset port that nothing was said of is *)
(* the system's, unless a like port already is.                                    *)
Guessed(ports, explicit, merge, target, candidates) ==
    LET free == {i \in DOMAIN ports : ports[i].kind = "signal" /\ ports[i].name \notin explicit}
        hits == {i \in free : Lc(ports[i].name) \in candidates}
        sig == MergeName(merge, target)
    IN  IF Cardinality(hits) = 1 /\ \A i \in free : ports[i].sig # sig
        THEN [ports EXCEPT ![CHOOSE i \in hits : TRUE].sig = sig] ELSE ports
BuildPorts(owner, entity, spec, env, merge, bare) ==
    LET decl == Lib.entities[entity].ports
        built == [i \in DOMAIN decl |-> BuiltPort(owner, decl[i], spec, env, merge, bare)]
        explicit == {decl[i].name : i \in {i \in DOMAIN decl : IsExplicit(decl[i], spec)}}
        clocked == Guessed(built, explicit, merge, "clk_sys", {"clk", "clk_bus"})
    IN  Guessed(clocked, explicit, merge, "reset", {"rst", "reset"})

(* markNamedIRQPorts: a port that the irq map names is an interrupt. *)
MarkNamedIrqs(ports, irq) ==
    [i \in DOMAIN ports |->
        IF irq.k = "named" /\ ports[i].kind = "signal" /\ ports[i].name \in DOMAIN irq.of
        THEN [ports[i] EXCEPT !.kind = "irq", !.sig = ""] ELSE ports[i]]

(* The loop of Elaborate over the devices. The ports of a class are taken under    *)
(* the name the device writes, which may differ in case from the class's own.      *)
DevicePorts(d, dev, i) ==
    LET spec == d.devices[i].ports @@
                (IF dev.class \in DOMAIN d.classes THEN d.classes[dev.class].ports ELSE <<>>)
    IN  IF dev.entity = "" THEN <<>>
        ELSE MarkNamedIrqs(BuildPorts(dev.name, dev.entity, spec, Env(dev.generics, dev.entity), d.merge, FALSE),
                           d.devices[i].irq)

(* classifyDataBus: one port for what is read and one for what is written make a  *)
(* device of the data bus.                                                         *)
ReadData(ports) == {i \in DOMAIN ports : ports[i].type[1] = "cpu_data_i_t" /\ ports[i].dir = "out"}
WriteData(ports) == {i \in DOMAIN ports : ports[i].type[1] = "cpu_data_o_t" /\ ports[i].dir = "in"}
HasBus(ports) == Cardinality(ReadData(ports)) = 1 /\ Cardinality(WriteData(ports)) = 1
BadBus(ports) == ~HasBus(ports) /\ ReadData(ports) \union WriteData(ports) # {}
Classified(dev, ports) ==
    [dev EXCEPT !.dataBus = HasBus(ports),
        !.ports = [i \in DOMAIN ports |->
            IF HasBus(ports) /\ i \in ReadData(ports) \union WriteData(ports)
            THEN [ports[i] EXCEPT !.kind = "databus"] ELSE ports[i]]]

ConnectDevices(d, devices) ==
    [i \in DOMAIN devices |-> Classified(devices[i], DevicePorts(d, devices[i], i))]
BusPortErrors(devices) ==
    {<<"data-bus ports", devices[i].name>> : i \in {i \in DOMAIN devices : BadBus(devices[i].ports)}}

(* resolveEntities: an entity is its own unless another one is given. *)
ResolveEntities(d, entities) ==
    [n \in DOMAIN entities |->
        LET te == entities[n]
            bound == ChooseArch(IF te.entity = "" THEN n ELSE te.entity, te.arch, te.config)
        IN  [entity |-> bound.entity, arch |-> bound.arch, config |-> bound.config, err |-> bound.err,
             ports |-> IF bound.entity = "" THEN <<>>
                       ELSE BuildPorts(n, bound.entity, te.ports, Env(te.generics, bound.entity), d.merge, TRUE)]]
EntityErrors(resolved) ==
    {<<resolved[n].err, n>> : n \in {n \in DOMAIN resolved : resolved[n].err # ""}}

-------------------------------------------------------------------------------
(* gatherSignals and addPortsToSignals *)
PortRefs(ctx, id, ports) ==
    LET used == SelectSeq(ports, LAMBDA p : p.kind = "signal" /\ p.sig # "")
    IN  [i \in DOMAIN used |-> Ref(used[i].sig, ctx, id, used[i].name, used[i].dir, used[i].type, "", "")]
EntityRefs(ctx, resolved) ==
    FoldSet(LAMBDA n, refs : refs \o PortRefs(ctx, n, resolved[n].ports), <<>>, DOMAIN resolved)
GatherSignals(res) ==
    FoldLeft(LAMBDA refs, dev : refs \o PortRefs("device", dev.name, dev.ports), <<>>, res.devices)
    \o EntityRefs("top", res.tops) \o EntityRefs("padring", res.pads)

(* gatherPeripheralBuses and resolvePeripheralBuses: the masters' buses that the   *)
(* design leaves connected are put together by multiplexers.                       *)
NoBus == [on |-> FALSE, master |-> "", connected |-> {}, disconnected |-> {}, stages |-> <<>>, mode |-> ""]
Stage(label, unit, in1, in2, out) ==
    [label |-> label, unit |-> unit, in1 |-> in1, in2 |-> in2, out |-> out]
BoundEntities(res) ==
    ({res.devices[i].entity : i \in DOMAIN res.devices} \union {res.tops[n].entity : n \in DOMAIN res.tops}
     \union {res.pads[n].entity : n \in DOMAIN res.pads}) \ {""}
GatheredBuses(res) == UNION {Lib.entities[e].buses : e \in BoundEntities(res)}
(* Mutant: the master stays cpu0 after a multiplexer. *)
ChainEndCpu0(stages) == "cpu0"
ChainEnd(stages) == IF stages = <<>> THEN "cpu0" ELSE stages[Len(stages)].out
BusModel(gathered, override, mode) ==
    LET on(b) == IF b \in DOMAIN override THEN override[b] ELSE b \in gathered
        cpus == IF on("cpu0") /\ on("cpu1")
                THEN <<Stage("cpus_mux", "multi_master_bus_mux", "cpu0", "cpu1", "cpu01")>> ELSE <<>>
        stages == cpus \o
                  (IF on("dmac") THEN <<Stage("dmac_mux", "multi_master_bus_muxff", ChainEnd(cpus), "dmac", "cpudm")>>
                   ELSE <<>>)
    IN  [on |-> TRUE, master |-> ChainEnd(stages), stages |-> stages, mode |-> IF mode = "" THEN "simple" ELSE mode,
         connected |-> {b \in gathered : on(b)}, disconnected |-> {b \in gathered : ~on(b)}]
FindBuses(d, res) ==
    IF \E i \in DOMAIN res.devices : res.devices[i].dataBus
    THEN BusModel(GatheredBuses(res), d.buses, d.decode) ELSE NoBus

(* applyZeroSignals: a signal of the list that nothing drives is driven by zero. *)
TieZeros(refs, zeros) ==
    FoldLeft(LAMBDA rs, z :
        IF RefsOf(rs, z) = {} \/ \E i \in RefsOf(rs, z) : rs[i].dir = "out" THEN rs
        ELSE Append(rs, Ref(z, "zero", "_zero", z, "out", TypeOf(rs, z), "", "")), refs, zeros)

(* validateSignals *)
Drivers(refs, s) == {i \in RefsOf(refs, s) : refs[i].dir \in {"out", "buffer", "inout"}}
Consumers(refs, s) == {i \in RefsOf(refs, s) : refs[i].dir \in {"in", "inout"}}
Shared(refs, drivers) ==
    /\ \A i \in drivers : refs[i].ctx = "pin"
    /\ \/ Cardinality(drivers) = 2 /\ {refs[i].diff : i \in drivers} = {"pos", "neg"}
       \/ \A i \in drivers : refs[i].elem # "" /\ \A j \in drivers \ {i} : refs[i].elem # refs[j].elem
SignalErrors(refs) ==
    {<<"type mismatch", s>> : s \in {s \in Signals(refs) :
        Cardinality({refs[i].type : i \in RefsOf(refs, s)}) > 1}}
    \union {<<"multiple drivers", s>> : s \in {s \in Signals(refs) :
        Cardinality(Drivers(refs, s)) > 1 /\ ~Shared(refs, Drivers(refs, s))}}
    \union {<<"undriven", s>> : s \in {s \in Signals(refs) :
        Drivers(refs, s) = {} /\ Consumers(refs, s) # {}}}

(* injectInternalBusPorts: the ports that the generated logic of the devices file *)
(* has on the masters' buses, and the driver that the loops of system.pio are.     *)
BusRefs(refs, bus) ==
    LET read == bus \o "_periph_dbus_i"
        write == bus \o "_periph_dbus_o"
        typed(s, mark) == IF RefsOf(refs, s) = {} THEN <<mark, None>> ELSE TypeOf(refs, s)
    IN  <<Ref(read, "device", "_internal", read, "out", typed(read, "cpu_data_i_t"), "", ""),
          Ref(write, "device", "_internal", write, "in", typed(write, "cpu_data_o_t"), "", "")>>
PioLoop(refs) ==
    LET pi == RefsOf(refs, "pi")
    IN  IF /\ \E i \in pi : refs[i].ctx = "device" /\ refs[i].dir = "in"
           /\ \A i \in pi : refs[i].dir # "out"
        THEN <<Ref("pi", "padring", "pi", "pi", "out", TypeOf(refs, "pi"), "", "")>> ELSE <<>>
Inject(res) ==
    IF ~res.bus.on THEN res.refs
    ELSE res.refs
         \o FoldSet(LAMBDA b, rs : rs \o BusRefs(res.refs, b), <<>>, res.bus.connected \union res.bus.disconnected)
         \o PioLoop(res.refs)

(* removeWriteOnlySignals and clearPrunedRefs: a signal that nothing reads goes,   *)
(* and its ports are left open.                                                    *)
(* Mutant: a signal is read by pins only. *)
WriteOnlyPinsOnly(d, res) ==
    {s \in Signals(res.refs) : /\ s \notin Range(d.zeros) \union res.bound
                               /\ \A i \in RefsOf(res.refs, s) : res.refs[i].ctx # "pin"}
WriteOnly(d, res) ==
    {s \in Signals(res.refs) : /\ s \notin Range(d.zeros) \union res.bound
                               /\ \A i \in RefsOf(res.refs, s) :
                                    res.refs[i].dir # "in" /\ res.refs[i].ctx # "pin"}
Opened(ports, pruned) ==
    [i \in DOMAIN ports |-> IF ports[i].kind = "signal" /\ ports[i].sig \in pruned
                            THEN [ports[i] EXCEPT !.sig = ""] ELSE ports[i]]
WithoutPorts(users, pruned) == [i \in DOMAIN users |-> [users[i] EXCEPT !.ports = Opened(@, pruned)]]
Prune(d, res) ==
    LET gone == WriteOnly(d, res)
    IN  [res EXCEPT !.refs = SelectSeq(@, LAMBDA r : r.sig \notin gone),
            !.devices = WithoutPorts(@, gone), !.tops = WithoutPorts(@, gone), !.pads = WithoutPorts(@, gone)]

-------------------------------------------------------------------------------
(* categorize: the kinds of places a signal is used in say where it is declared.  *)
(* An ordinary signal crosses from pad_ring to soc as a port of soc, from soc to  *)
(* devices as a port of devices, and is a signal of the file outside of that.      *)
Kinds(refs, s) == {refs[i].ctx : i \in RefsOf(refs, s)}
Outside == {"pin", "padring"}
Where(refs, Fits(_)) == {s \in Signals(refs) : Fits(Kinds(refs, s))}
PadringTop(refs) == Where(refs, LAMBDA k : /\ k \cap Outside # {} /\ k \cap {"top", "device"} # {}
                                           /\ k \subseteq Outside \union {"top", "device"})
TopDevices(refs) == Where(refs, LAMBDA k : /\ "device" \in k /\ k # {"device"}
                                           /\ k \subseteq Outside \union {"top", "device"})
PadringOnly(refs) == Where(refs, LAMBDA k : k \cap Outside # {} /\ k \subseteq Outside \union {"top", "device"})
TopOnly(refs) == Where(refs, LAMBDA k : "top" \in k /\ k \subseteq {"top", "device"})
DevicesOnly(refs) == Where(refs, LAMBDA k : k = {"device"})

(* srcContext: the one kind of place that drives the signal; a pin is the padring. *)
SourceKinds(refs, s) ==
    {IF refs[i].ctx = "pin" THEN "padring" ELSE refs[i].ctx : i \in {i \in RefsOf(refs, s) : refs[i].dir = "out"}}
PortDirs(refs, sigs, outs) ==
    [s \in {s \in sigs : Cardinality(SourceKinds(refs, s)) = 1} |->
        IF SourceKinds(refs, s) \subseteq outs THEN "out" ELSE "in"]
(* inOutSignals: what a file both drives and reads needs a signal beside the port. *)
InOut(refs, sigs, ctx) ==
    {s \in sigs : {refs[i].dir : i \in {i \in RefsOf(refs, s) : refs[i].ctx = ctx}} = {"in", "out"}}

Categorize(refs) ==
    [soc |-> PortDirs(refs, PadringTop(refs), {"device", "top"}),
     devices |-> PortDirs(refs, TopDevices(refs), {"device"}),
     padring |-> PadringOnly(refs), top |-> TopOnly(refs), local |-> DevicesOnly(refs),
     topExtra |-> InOut(refs, PadringTop(refs), "top"),
     devicesExtra |-> InOut(refs, TopDevices(refs), "device")]
SourceErrors(refs) ==
    {<<"multiple contexts", s>> : s \in {s \in PadringTop(refs) \union TopDevices(refs) :
        Cardinality(SourceKinds(refs, s)) # 1}}

(* resolvePio: one bit of a range of system.pio after the other. *)
ResolvePio(pio) ==
    FoldLeft(LAMBDA bits, e : bits \o [k \in 1..e.hi - e.lo + 1 |-> [idx |-> e.lo + k - 1, const |-> e.const]],
             <<>>, pio)
=============================================================================

------------------------------- MODULE SocgenUnits -----------------------------
(* The files socgen generates, as the names they declare and connect: devices.vhd *)
(* with the devices, the data bus and the interrupts, soc.vhd around it with the  *)
(* top entities, and pad_ring.vhd around that with the pads.                      *)
(*                                                                                *)
(* A unit is [ports, decls, insts, assigns]: its ports with their modes, the names *)
(* its architecture declares, its instances [label, unit, map, numbers] and its    *)
(* assignments [label, to, from]; a buffer, a multiplexer and a function call are  *)
(* assignments that pass on what they read. A reference is <<name, element>>, ""   *)
(* for all of it; an actual of a map is a reference, Open or a Value.              *)
EXTENDS SocgenDecode, SocgenPins, SocgenIrq

Value(text) == <<"'", text>>
Whole(name) == <<name, "">>
IsRef(actual) == actual[1] \notin {"open", "'"}
Assign(label, to, from) == [label |-> label, to |-> to, from |-> from]
Plain(to, from) == Assign("", to, from)
Conn(formal, dir, actual) == [formal |-> formal, dir |-> dir, actual |-> actual]
Alias(s) == "sig_" \o s

(* portActual: an interrupt's wire, a signal or the name beside it, a value, a     *)
(* place on the data bus; everything else is left open.                            *)
DevLit(name) == "DEV_" \o Lc(name)
PortActual(p, literal, alias, overrides, i) ==
    IF <<i, p.name>> \in DOMAIN overrides THEN overrides[<<i, p.name>>]
    ELSE CASE p.kind = "signal" /\ p.sig # "" -> Whole(IF p.sig \in alias THEN Alias(p.sig) ELSE p.sig)
           [] p.kind = "value" -> Value(p.value)
           [] p.kind = "databus" /\ literal # "" ->
                <<IF p.dir = "out" THEN "devs_bus_i" ELSE "devs_bus_o", literal>>
           [] OTHER -> Open

-------------------------------------------------------------------------------
(* databusStmts and databusDecls: the masters' buses come together, the address   *)
(* picks the device that is given the bus and whose answer goes back.              *)
In(bus) == Whole(bus \o "_periph_dbus_i")
Out(bus) == Whole(bus \o "_periph_dbus_o")
StageAssigns(st) ==
    {Assign(st.label, In(st.in1), {In(st.out), Whole("clk_sys"), Whole("reset")}),
     Assign(st.label, In(st.in2), {In(st.out), Whole("clk_sys"), Whole("reset")}),
     Assign(st.label, Out(st.out), {Out(st.in1), Out(st.in2), Whole("clk_sys"), Whole("reset")})}
Literals(res) == {"NONE"} \union {DevLit(res.devices[i].name) : i \in BusDevices(res)}

(* phase2Devices: with a word bus the acknowledge comes from word_ack_gen. *)
Answer(d, res) ==
    LET master == res.bus.master
    IN  IF d.busWord = <<>> THEN {Plain(In(master), {Whole("devs_bus_i"), Whole("active_dev")})}
        ELSE {Plain(<<In(master)[1], "d">>, {Whole("devs_bus_i"), Whole("active_dev")}),
              Assign("word_ack_gen", <<In(master)[1], "ack">>,
                     {Out(master)} \union {<<"devs_bus_i", DevLit(n)>> : n \in Range(d.busWord)})}
BusAssigns(d, res) ==
    LET master == res.bus.master
    IN  {Plain(In(b), {Out(b)}) : b \in res.bus.disconnected}
        \union UNION {StageAssigns(st) : st \in Range(res.bus.stages)}
        \union {Plain(Whole("active_dev"), {Out(master)})} \union Answer(d, res)
        \union {Plain(<<"devs_bus_o", l>>, {Out(master), Whole("active_dev")}) : l \in Literals(res)}
        \union {Plain(<<"devs_bus_i", "NONE">>, {<<"devs_bus_o", "NONE">>})}
BusDecls(res) ==
    FoldLeft(LAMBDA ds, st : ds \o <<In(st.out)[1], Out(st.out)[1]>>, <<>>, res.bus.stages)
    \o <<"device_t", "active_dev", "data_bus_i_t", "data_bus_o_t", "devs_bus_i", "devs_bus_o",
         "decode_address", "NONE">>
    \o (LET s == Listed(BusDevices(res)) IN [k \in DOMAIN s |-> DevLit(res.devices[s[k]].name)])

(* Devices and instStmt. Explicit vector numbers replace those of the interrupts. *)
DeviceInst(res, i) ==
    LET dev == res.devices[i]
        literal == IF dev.dataBus THEN DevLit(dev.name) ELSE ""
        numbered == i \in DOMAIN res.irq.numbers /\ \A g \in DOMAIN dev.generics : Lc(g) # "vector_numbers"
    IN  [label |-> Lc(dev.name), unit |-> dev.entity,
         map |-> {Conn(Whole(Lc(p.name)), p.dir, PortActual(p, literal, res.loc.devicesExtra, res.irq.overrides, i)) :
                    p \in Range(dev.ports)},
         numbers |-> IF numbered THEN res.irq.numbers[i] ELSE <<>>]
DevicesUnit(d, res) ==
    LET insts == Listed({i \in DOMAIN res.devices : res.devices[i].entity # ""})
        extra == res.loc.devicesExtra
    IN  [ports |-> res.loc.devices,
         decls |-> Listed(res.loc.local \union {Alias(s) : s \in extra})
                   \o (IF res.bus.on THEN BusDecls(res) ELSE <<>>)
                   \o Listed(res.irq.vectors \union res.irq.signals),
         insts |-> [k \in DOMAIN insts |-> DeviceInst(res, insts[k])],
         assigns |-> {Plain(Whole(s), {Whole(Alias(s))}) : s \in extra}
                     \union {Plain(o.target, o.sources) : o \in res.irq.ors}
                     \union (IF res.bus.on THEN BusAssigns(d, res) ELSE {})]

-------------------------------------------------------------------------------
(* topInstStmt: an entity, with the pads that are its own ports, one by one or all *)
(* at once. An instance of a top entity never uses the name beside a port of soc.  *)
PinName(net) == "pin_" \o net
PadBits(res, s) == {p \in Range(res.pins) : OfEntity(p) /\ p.sig = Whole(s) /\ p.index # "" /\ p.net = s \o p.index}
PortConns(res, p) ==
    IF p.kind = "signal" /\ p.sig \in res.bound
    THEN IF PadBits(res, p.sig) = {} THEN {Conn(Whole(Lc(p.name)), p.dir, Whole(PinName(p.sig)))}
         ELSE {Conn(<<Lc(p.name), b.index>>, p.dir, Whole(PinName(b.net))) : b \in PadBits(res, p.sig)}
    ELSE {Conn(Whole(Lc(p.name)), p.dir, PortActual(p, "", {}, <<>>, 0))}
EntityInst(res, n, re) ==
    [label |-> Lc(n), unit |-> re.entity, map |-> UNION {PortConns(res, p) : p \in Range(re.ports)},
     numbers |-> <<>>]
EntityInsts(res, resolved) ==
    LET bound == Listed({n \in DOMAIN resolved : resolved[n].entity # "" \/ resolved[n].config # ""})
    IN  [k \in DOMAIN bound |-> EntityInst(res, bound[k], resolved[bound[k]])]
(* devicesInstStmt and socInstStmt: the ports of the unit inside keep their names. *)
UnitInst(label, ports) ==
    [label |-> label, unit |-> label, numbers |-> <<>>,
     map |-> {Conn(Whole(s), ports[s], Whole(s)) : s \in DOMAIN ports}]

(* SoC *)
ZeroOut(res) == {r.sig : r \in {r \in Range(res.refs) : r.ctx = "zero"}}
SocUnit(res) ==
    LET extra == res.loc.topExtra
    IN  [ports |-> res.loc.soc,
         decls |-> Listed(res.loc.top \union {Alias(s) : s \in extra}) \o Listed(ZeroOut(res)),
         insts |-> Append(EntityInsts(res, res.tops), UnitInst("devices", res.loc.devices)),
         assigns |-> {Plain(Whole(s), {Whole(Alias(s))}) : s \in extra}
                     \union {Plain(Whole(s), {}) : s \in ZeroOut(res)}]

-------------------------------------------------------------------------------
(* The pads. outExpr, inExpr: what leaves and what enters by a pad. *)
External(target) == target \in {"ecp5", "ice40"}
InvertName(ref) == "pad_" \o ref[1] \o ref[2] \o "_n"
OutFrom(pin) == IF pin.const # None THEN {}
                ELSE IF pin.invert THEN {Whole(InvertName(pin.out))}
                ELSE IF pin.out # NoRef THEN {pin.out} ELSE {pin.sig}
InTo(pin) == IF pin.in # NoRef THEN pin.in ELSE pin.sig
Pad(pin) == Whole(PinName(pin.net))
Buffer(pin) == pin.kind \o "_" \o pin.net

(* pinStmt: a plain connection, or a buffer of the kind that the legs ask for. *)
PinAssigns(pin) ==
    CASE pin.kind = "direct" ->
            IF pin.dir = "in"
            THEN IF pin.in = NoRef /\ pin.sig = NoRef THEN {} ELSE {Plain(InTo(pin), {Pad(pin)})}
            ELSE IF pin.out = NoRef /\ pin.sig = NoRef THEN {} ELSE {Plain(Pad(pin), OutFrom(pin))}
      [] pin.kind = "ibuf" -> {Assign(Buffer(pin), InTo(pin), {Pad(pin)})}
      [] pin.kind = "obuf" -> {Assign(Buffer(pin), Pad(pin), OutFrom(pin))}
      [] pin.kind = "obuft" -> {Assign(Buffer(pin), Pad(pin), OutFrom(pin) \union {pin.en})}
      [] pin.kind = "iobuf" -> {Assign(Buffer(pin), Pad(pin), OutFrom(pin) \union {pin.en}),
                                Assign(Buffer(pin), InTo(pin), {Pad(pin)})}
      [] OTHER -> {}

(* diffPairs: one buffer for the two pads of a signal; the last of each sign. *)
Differential(pin) == pin.kind \in {"ibufds", "obufds"}
Signed(pins, s, sign) == {i \in DOMAIN pins : Differential(pins[i]) /\ pins[i].sig[1] = s /\ pins[i].diff = sign}
DiffSignals(pins) == {pins[i].sig[1] : i \in {i \in DOMAIN pins : Differential(pins[i])}}
Paired(pins, s) == Signed(pins, s, "pos") # {} /\ Signed(pins, s, "neg") # {}
PairAssigns(pins, s) ==
    LET pos == pins[Max(Signed(pins, s, "pos"))]
        neg == pins[Max(Signed(pins, s, "neg"))]
        label == pos.kind \o "_" \o pos.net \o "_" \o neg.net
    IN  IF pos.kind = "ibufds" THEN {Assign(label, InTo(pos), {Pad(pos), Pad(neg)})}
        ELSE {Assign(label, Pad(pos), OutFrom(pos)), Assign(label, Pad(neg), OutFrom(pos))}

(* ecp5PinStmt: the other tools infer the buffers; what needs a kind of buffer is  *)
(* an error, and an inverted leg is negated where it is.                           *)
Deferred(pin) == pin.diff # "" \/ pin.en # NoRef \/ (pin.in # NoRef /\ pin.out # NoRef)
                 \/ (pin.out # NoRef /\ pin.sig # NoRef)
InferredAssigns(pin) ==
    IF pin.kind = "entity" \/ Deferred(pin) THEN {}
    ELSE (IF pin.out # NoRef /\ pin.invert THEN {Plain(Pad(pin), {pin.out})}
          ELSE IF pin.in # NoRef THEN {Plain(pin.in, {Pad(pin)})}
          ELSE IF pin.out # NoRef \/ pin.const # None THEN {Plain(Pad(pin), OutFrom(pin))} ELSE {})
         \union (IF pin.sig = NoRef THEN {}
                 ELSE IF pin.dir = "in" THEN {Plain(pin.sig, {Pad(pin)})} ELSE {Plain(Pad(pin), {pin.sig})})

(* pinStatements *)
PadAssigns(d, pins) ==
    IF External(d.target) THEN UNION {InferredAssigns(p) : p \in Range(pins)}
    ELSE UNION {PinAssigns(p) : p \in Range(pins)}
         \union UNION {PairAssigns(pins, s) : s \in {s \in DiffSignals(pins) : Paired(pins, s)}}
PadErrors(d, pins) ==
    IF External(d.target)
    THEN {<<"pad deferred", p.net>> : p \in {p \in Range(pins) : p.kind # "entity" /\ Deferred(p)}}
    ELSE {<<"differential pair", s>> : s \in {s \in DiffSignals(pins) : ~Paired(pins, s)}}

(* invertIntermediates: one inverted signal for all the pads that show it. *)
Inverted(d, pins) ==
    IF External(d.target) THEN {} ELSE {p.out : p \in {p \in Range(pins) : p.invert /\ p.out # NoRef}}

(* pioStatements: a bit of pi is a constant or the bit of po that it is tied to. *)
PioAssigns(bits) ==
    {Plain(<<"pi", ToString(b.idx)>>, IF b.const # None THEN {} ELSE {<<"po", ToString(b.idx)>>}) : b \in Range(bits)}

(* PadRing *)
PadRingUnit(d, res) ==
    LET inverted == Inverted(d, res.pins)
    IN  [ports |-> [n \in {PinName(p.net) : p \in Range(res.pins)} |->
                        res.pins[SelectInSeq(res.pins, LAMBDA p : PinName(p.net) = n)].dir],
         decls |-> Listed(res.loc.padring \ res.bound) \o Listed({InvertName(r) : r \in inverted}),
         insts |-> Append(EntityInsts(res, res.pads), UnitInst("soc", res.loc.soc)),
         assigns |-> PioAssigns(res.pio) \union {Plain(Whole(InvertName(r)), {r}) : r \in inverted}
                     \union PadAssigns(d, res.pins)]

(* Build: the three files, unless a plugin is not known or named twice. Everything *)
(* else that goes wrong is reported, and what can be generated is.                 *)
Plugins == {"device_tree", "board.h", "aic1"}
PluginErrors(d) ==
    {<<"plugin", p>> : p \in {p \in Range(d.plugins) : p \notin Plugins
                                \/ Cardinality({i \in DOMAIN d.plugins : d.plugins[i] = p}) > 1}}
UnboundErrors(res) ==
    {<<"unbound", res.devices[i].name>> : i \in {i \in DOMAIN res.devices : res.devices[i].entity = ""}}
    \union {<<"unbound", n>> : n \in {n \in DOMAIN res.tops : res.tops[n].entity = ""}
                                \union {n \in DOMAIN res.pads : res.pads[n].entity = ""}}
Build(d, res) ==
    [devices |-> DevicesUnit(d, res), soc |-> SocUnit(res), pad_ring |-> PadRingUnit(d, res)]
=============================================================================

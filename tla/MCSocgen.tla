------------------------------- MODULE MCSocgen -------------------------------
(* A small library in the manner of this repository's, and the boards that socgen *)
(* is given: variations of one two-cpu board, one aspect at a time.               *)
EXTENDS SocgenProperties

MCLower == [UART |-> "uart", Clk |-> "clk", Cfg_Rate |-> "cfg_rate"]
MCReserved == {[name |-> "cpu control", lo |-> 640, hi |-> 643]}

-------------------------------------------------------------------------------
(* The library. *)
Bit1 == [mark |-> "std_logic", width |-> ""]
Byte == [mark |-> "std_logic_vector", width |-> "n"]
BusI == [mark |-> "cpu_data_i_t", width |-> ""]
BusO == [mark |-> "cpu_data_o_t", width |-> ""]
Port(dir, type, names) == [names |-> names, dir |-> dir, type |-> type]
Entity(name, generics, ports, groups, attrs) ==
    [k |-> "entity", name |-> name, generics |-> generics, ports |-> ports, groups |-> groups, attrs |-> attrs]
Arch(entity, name) == [k |-> "architecture", name |-> name, entity |-> entity]
Globals(members) == [template |-> "global_ports", name |-> "g", members |-> members]
BusGroup(bus) == [template |-> "peripheral_bus", name |-> bus, members |-> <<>>]
Attr(attr, value, of) == [attr |-> attr, value |-> value, of |-> of, class |-> "signal"]

OnBus == <<Port("in", Bit1, <<"clk", "rst">>), Port("in", BusO, <<"db_i">>), Port("out", BusI, <<"db_o">>)>>
Symbol(name, kind) == [name |-> name, kind |-> kind]
(* Names are repeated as on a real board: an older fan, a constant of two packages, *)
(* and a constant that a later package has as a type.                               *)
MCUnits == <<
    Entity("fan", [n |-> 1], <<Port("in", Bit1, <<"clk">>)>>, <<>>, <<>>),
    Entity("uart", <<>>, OnBus \o <<Port("in", Bit1, <<"rx">>), Port("out", Bit1, <<"tx", "int">>)>>,
           <<>>, <<Attr("soc_port_irq", "true", <<"int">>)>>),
    Entity("pio", [n |-> 2], OnBus \o <<Port("in", Byte, <<"p_i">>), Port("out", Byte, <<"p_o">>), Port("out", Bit1, <<"irq">>)>>,
           <<>>, <<Attr("soc_port_irq", "true", <<"irq">>), Attr("soc_port_global_name", "pi", <<"p_i">>),
                   Attr("soc_port_global_name", "po", <<"p_o">>)>>),
    Entity("aic", [vector_numbers |-> 0],
           OnBus \o <<Port("in", Bit1, <<"irq_i", "rtc">>), Port("out", Bit1, <<"event">>)>>, <<>>, <<>>),
    Entity("timer", <<>>, <<Port("in", Bit1, <<"Clk">>), Port("out", Bit1, <<"rtc", "tick", "tock">>)>>,
           <<>>, <<Attr("soc_port_global_name", "rtc", <<"rtc">>)>>),
    Entity("fan", <<>>, <<Port("in", Bit1, <<"sense">>), Port("out", Bit1, <<"spin">>)>>,
           <<>>, <<Attr("soc_port_local_name", "speed", <<"spin">>)>>),
    Entity("cpu", <<>>,
           <<Port("in", Bit1, <<"clk", "rst", "event">>), Port("in", BusI, <<"cpu0_periph_dbus_i">>),
             Port("out", BusO, <<"cpu0_periph_dbus_o">>), Port("out", Bit1, <<"dbg">>)>>,
           <<Globals(<<"cpu0_periph_dbus_i", "cpu0_periph_dbus_o">>), BusGroup("cpu0")>>, <<>>),
    Entity("cpus", <<>>,
           <<Port("in", Bit1, <<"clk", "rst">>), Port("in", BusI, <<"cpu0_periph_dbus_i", "cpu1_periph_dbus_i">>),
             Port("out", BusO, <<"cpu0_periph_dbus_o", "cpu1_periph_dbus_o">>)>>,
           <<Globals(<<"cpu0_periph_dbus_i", "cpu0_periph_dbus_o", "cpu1_periph_dbus_i", "cpu1_periph_dbus_o">>),
             BusGroup("cpu0"), BusGroup("cpu1")>>, <<>>),
    Entity("dma", <<>>,
           <<Port("in", Bit1, <<"clk", "rst">>), Port("in", BusI, <<"dmac_periph_dbus_i">>),
             Port("out", BusO, <<"dmac_periph_dbus_o">>)>>,
           <<Globals(<<"dmac_periph_dbus_i", "dmac_periph_dbus_o">>), BusGroup("dmac")>>, <<>>),
    Entity("pll", <<>>, <<Port("in", Bit1, <<"clk_in">>), Port("out", Bit1, <<"clk_sys", "reset">>)>>, <<>>, <<>>),
    Entity("phy", [n |-> 2],
           <<Port("in", Bit1, <<"send">>), Port("out", Bit1, <<"got">>), Port("inout", Byte, <<"dq">>)>>, <<>>, <<>>),
    Entity("odd", <<>>, <<Port("in", BusO, <<"db_i">>)>>, <<>>, <<>>),
    Arch("uart", "rtl"), Arch("pio", "rtl"), Arch("pio", "sim"), Arch("aic", "rtl"), Arch("timer", "rtl"), Arch("fan", "rtl"),
    Arch("cpu", "rtl"), Arch("cpus", "rtl"), Arch("dma", "rtl"), Arch("pll", "rtl"), Arch("phy", "rtl"), Arch("odd", "rtl"),
    [k |-> "configuration", name |-> "pio_fpga", entity |-> "pio", arch |-> "rtl"],
    [k |-> "package", name |-> "config", symbols |-> <<Symbol("cfg_rate", "constant"), Symbol("cfg_mode", "constant")>>],
    [k |-> "package", name |-> "old", symbols |-> <<Symbol("Cfg_Rate", "constant"), Symbol("cfg_mode", "type")>>]>>

-------------------------------------------------------------------------------
(* Designs, as sections of named or listed entries. *)
Class(entity, left, regs) ==
    [entity |-> entity, arch |-> "", config |-> "", left |-> left, regs |-> regs, generics |-> <<>>, ports |-> <<>>]
Reg(addr, width) == [name |-> "r", addr |-> addr, width |-> width]
OneWord == <<Reg(None, None)>>
Dev(class, base) ==
    [class |-> class, name |-> "", base |-> base, generics |-> <<>>, ports |-> <<>>,
     irq |-> [k |-> "none"], cpu |-> 0]
Inst(entity) == [entity |-> entity, arch |-> "", config |-> "", generics |-> <<>>, ports |-> <<>>]
Own == Inst("")
Sig(name) == [k |-> "expr", text |-> name]
Lit(text) == [k |-> "lit", text |-> text]
Map(key) == [k |-> "map", key |-> key]
Loop(lo, hi, const) == [lo |-> lo, hi |-> hi, const |-> const]
IrqBit(n) == [k |-> "int", n |-> n]
IrqOf(f) == [k |-> "named", of |-> f]
At(cpu, path) == [cpu |-> cpu, irq |-> path]

MCClasses == [uart |-> Class("uart", 0, OneWord), pio |-> [Class("pio", 0, <<Reg(0, 4), Reg(None, 2)>>) EXCEPT !.arch = "rtl"],
              aic |-> Class("aic", 0, <<Reg(None, None), Reg(None, None)>>), timer |-> Class("timer", 0, <<>>),
              fan |-> Class("fan", 0, <<>>)]
Cpu == [cpu |-> [Own EXCEPT !.ports = [event |-> Sig("event"), dbg |-> Sig("dbg")]]]
Pll == [pll |-> [Own EXCEPT !.ports = [clk_in |-> Sig("osc")]]]

Rule(nets, field, leg) ==
    [[nets |-> nets, buff |-> "", pad |-> "", sig |-> NoLeg, in |-> NoLeg, out |-> NoLeg, en |-> NoLeg] EXCEPT ![field] = leg]
Wire(name) == Leg("name", Whole(name), "", FALSE)
OscRule == [Rule({"osc"}, "sig", Leg("pin", NoRef, "", FALSE)) EXCEPT !.buff = "no"]
PadNet(net) == [net |-> net, index |-> ""]
Pins(rules, nets) == [rules |-> <<OscRule>> \o rules, pins |-> <<PadNet("osc")>> \o nets]

Plain0 ==
    [target |-> "spartan6", classes |-> MCClasses, tops |-> Cpu, pads |-> Pll, merge |-> <<>>,
     devices |-> <<[Dev("uart", 704 - 8) EXCEPT !.ports = [rx |-> Lit("'1'")]]>>, zeros |-> <<"event">>,
     buses |-> <<>>, system |-> <<>>, pins |-> Pins(<<>>, <<>>), busWord |-> <<>>, plugins |-> <<"board.h">>]

(* The documents of a design. *)
Sec(f) == LET keys == Listed(DOMAIN f) IN Mapping([i \in DOMAIN keys |-> <<keys[i], Scalar(f[keys[i]])>>])
Seq0(s) == List([i \in DOMAIN s |-> Scalar(s[i])])
Sections(x) ==
    <<<<"target", Scalar(x.target)>>, <<"device-classes", Sec(x.classes)>>, <<"devices", Seq0(x.devices)>>,
      <<"top-entities", Sec(x.tops)>>, <<"padring-entities", Sec(x.pads)>>, <<"merge-signals", Sec(x.merge)>>,
      <<"zero-signals", Seq0(x.zeros)>>, <<"peripheral-buses", Sec(x.buses)>>, <<"system", Sec(x.system)>>,
      <<"pins", Scalar(x.pins)>>, <<"bus-word", Seq0(x.busWord)>>, <<"plugins", Seq0(x.plugins)>>>>
MCBoardFile == <<"boards", "b", "design.yaml">>
OneFile(x) == MCBoardFile :> Mapping(Sections(x))


-------------------------------------------------------------------------------
(* Documents: a mapping over another one, in the file, in a file of its own, or     *)
(* over a third; marks, sequences and mappings on either side; unreadable files.   *)
Inc(name) == Include(<<"..", name>>)
Buses2(v, w) == Mapping(<<<<"cpu0", v>>, <<"cpu1", w>>>>)
Leaf(b) == List(<<Scalar(b)>>)
Pair(v) == Mapping(<<<<"x", v>>, <<"y", Scalar(TRUE)>>>>)
Nodes == {Scalar(TRUE), Scalar(FALSE), Removal, Leaf(TRUE), Pair(Removal), Pair(Scalar(FALSE))}
Over(section, own, base, first) ==
    IF first THEN Mapping(<<<<"<<", base>>, <<section, own>>>>) ELSE Mapping(<<<<section, own>>, <<"<<", base>>>>)
Only(section, base) == Mapping(<<<<section, base>>>>)
Base == <<"boards", "base.yaml">>
PB == "peripheral-buses"
Documents ==
    {MCBoardFile :> Over(PB, Mapping(<<<<"cpu0", v>>>>), Only(PB, Buses2(w, v)), first) :
        v, w \in Nodes, first \in BOOLEAN}
    \union {(MCBoardFile :> Over(PB, Buses2(Scalar(TRUE), v), Inc("base.yaml"), TRUE)) @@ (Base :> Only(PB, Buses2(w, v))) :
        v, w \in Nodes}
    \union {(MCBoardFile :> Over(PB, Mapping(<<<<"cpu0", u>>>>), Inc("base.yaml"), FALSE))
            @@ (Base :> Over(PB, Mapping(<<<<"cpu0", v>>>>), Only(PB, Buses2(w, w)), TRUE)) : u, v, w \in Nodes}
    \union {MCBoardFile :> Over(PB, Mapping(<<<<"cpu0", u>>>>),
                                Over(PB, Mapping(<<<<"cpu0", v>>>>), Only(PB, Buses2(w, w)), TRUE), FALSE) : u, v, w \in Nodes}
BadDocuments ==
    {MCBoardFile :> Only(PB, Inc("base.yaml")),
     (MCBoardFile :> Over(PB, Mapping(<<>>), Inc("base.yaml"), TRUE)) @@ (Base :> Scalar("x")),
     MCBoardFile :> Mapping(<<<<"<<", Mapping(<<>>)>>, <<"<<", Mapping(<<>>)>>>>),
     MCBoardFile :> Only(PB, Include(<<"design.yaml">>)),
     (MCBoardFile :> Only(PB, Inc("base.yaml"))) @@ (Base :> Only("x", Include(<<"base.yaml">>))),
     (MCBoardFile :> Only(PB, Inc("base.yaml"))) @@ (Base :> Only("x", Include(<<"b1.yaml">>)))
        @@ (<<"boards", "b1.yaml">> :> Only("x", Include(<<"b2.yaml">>)))
        @@ (<<"boards", "b2.yaml">> :> Only("x", Include(<<"b3.yaml">>)))
        @@ (<<"boards", "b3.yaml">> :> Scalar(TRUE)),
     Base :> Scalar(TRUE)}
(* The board itself out of two files: everything but its target is in another one. *)
Split(x) == (MCBoardFile :> Mapping(<<<<"target", Scalar("ecp5")>>, <<"<<", Inc("base.yaml")>>>>)) @@ (Base :> Mapping(Sections(x)))

-------------------------------------------------------------------------------
(* Windows: three devices wherever they may be, in both modes of the decoder. *)
WithRx(dev) == [dev EXCEPT !.ports = [rx |-> Lit("'1'")]]
Placed3(b1, b2, b3, left, mode) ==
    [Plain0 EXCEPT !.devices = <<WithRx(Dev("uart", b1)), Dev("pio", b2), [Dev("aic", b3) EXCEPT !.ports = [rtc |-> Lit("'0'")]]>>,
        !.classes = [MCClasses EXCEPT !.aic.left = left], !.system = ("data-bus-decode" :> mode) @@ [pio |-> <<Loop(0, 1, 0)>>]]
Windows ==
    {Placed3(b1, b2, b3, 0, mode) : b1 \in {644, 652, 668, 700}, b2 \in {640, 648, 656, 672, 696}, b3 \in {664, 680, 648}, mode \in {"simple", "exact"}}
    \union {Placed3(b1, 664, 672, left, mode) : b1 \in {642, 648, 700, 512, 1024 + 648, None}, left \in {2, 3, 4}, mode \in {"simple", "exact"}}
    \union {Placed3(648, 656, b3, left, "exact") : b3 \in {672, 1048568}, left \in {3, 12, 19}}

-------------------------------------------------------------------------------
(* Interrupts: who asks for which path of which cpu, and who controls it. *)
Aic(name, cpu, explicit) ==
    [Dev("aic", 656 + 8 * cpu) EXCEPT !.name = name, !.cpu = cpu,
        !.ports = [rtc |-> Lit("'0'"), event |-> Sig("event" \o ToString(cpu))]
                  @@ (IF explicit THEN [irq_i |-> Lit("'0'")] ELSE <<>>)]
IrqBoard(one, two, named, aics) ==
    [Plain0 EXCEPT !.devices =
        <<[WithRx(Dev("uart", 672)) EXCEPT !.irq = IrqBit(one[2]), !.cpu = one[1]],
          [WithRx(Dev("uart", 676)) EXCEPT !.irq = IF two = None THEN [k |-> "none"] ELSE IrqBit(two)],
          [Dev("timer", None) EXCEPT !.irq = named]>> \o aics]
Ids == {<<>>, <<Aic("aic0", 0, FALSE)>>, <<Aic("aic0", 0, FALSE), Aic("aic1", 1, FALSE)>>, <<Aic("aic1", 1, FALSE)>>}
Named2 == {[k |-> "none"]} \union {IrqOf([tick |-> At(c, p)]) : c \in 0..1, p \in 0..1}
          \union {IrqOf([tick |-> At(c, 0), tock |-> At(0, p)]) : c \in 0..1, p \in 0..1}
Interrupts ==
    {IrqBoard(<<c, n>>, two, named, aics) : c \in 0..1, n \in 0..1, two \in {None, 0, 1}, named \in Named2, aics \in Ids}
    \union {IrqBoard(<<0, 2>>, 0, [k |-> "none"], <<Aic("aic0", 0, FALSE)>>),
            IrqBoard(<<-1, 0>>, 0, IrqOf([no |-> At(0, 1)]), <<Aic("aic0", 0, FALSE)>>),
            [Plain0 EXCEPT !.devices = <<[Dev("timer", None) EXCEPT !.irq = IrqBit(0)], Aic("aic0", 0, TRUE)>>],
            [Plain0 EXCEPT !.devices = <<Aic("aic0", 0, FALSE), [Aic("a", 1, FALSE) EXCEPT !.cpu = -1]>>]}

-------------------------------------------------------------------------------
(* Pads: every combination of legs on one net, on both kinds of targets, with what *)
(* the legs name in the design or not; then nets that belong together.             *)
Uart(rx) == [Dev("uart", 648) EXCEPT !.ports = IF rx THEN <<>> ELSE [rx |-> Lit("'1'")]]
Fan(sense) == [Dev("fan", None) EXCEPT !.ports = IF sense THEN <<>> ELSE [sense |-> Sig("cfg_rate")]]
PinBoard(target, rules, nets, rx, sense, loops) ==
    [Plain0 EXCEPT !.target = target, !.devices = <<Uart(rx), Fan(sense), Dev("timer", None), Dev("pio", 656)>>,
        !.pads = Pll @@ [phy |-> [Own EXCEPT !.ports = [send |-> Lit("'0'")]]],
        !.system = [pio |-> loops], !.pins = Pins(rules, nets)]
Element(name, e) == Leg("name", <<name, e>>, "", FALSE)
SigLegs == {NoLeg, Wire("uart_tx"), Wire("uart_rx"), Element("po", "0"), Wire("nope"), Leg("pin", NoRef, "", FALSE)}
OutLegs == {NoLeg, Wire("fan_speed"), Leg("name", Whole("fan_speed"), "", TRUE), Leg("const", 1, "", FALSE), Leg("const", 2, "", FALSE)}
OnePad(target, sig, in, to, en, buff) ==
    PinBoard(target, <<[Rule({"pa"}, "sig", sig) EXCEPT !.in = in, !.out = to, !.en = en, !.buff = buff]>>,
             <<PadNet("pa")>>, sig = Wire("uart_rx") /\ to.k # "const", in # NoLeg /\ to.k # "const", <<Loop(0, 1, 1)>>)
LegCombinations ==
    {OnePad(target, sig, in, to, en, buff) : target \in {"spartan6", "ecp5"}, sig \in SigLegs,
        in \in {NoLeg, Wire("fan_sense")}, to \in OutLegs, en \in {NoLeg, Wire("timer_tick")}, buff \in {"", "no"}}
Indexed(net, i) == [net |-> net \o i, index |-> i]
Diff(sig, sign) == Leg("name", Whole(sig), sign, FALSE)
TwoPads(target, one, two, rx) ==
    PinBoard(target, <<Rule({"pa"}, "sig", one), Rule({"pb"}, "sig", two)>>, <<PadNet("pa"), PadNet("pb")>>, rx, FALSE, <<Loop(0, 0, 1), Loop(1, 1, None)>>)
Leds(name) == Leg("template", [n \in {"led0", "led1"} |-> IF n = "led0" THEN <<name, "0">> ELSE <<name, "1">>], "", FALSE)
PadGroups ==
    {TwoPads(target, Diff(sig, s1), Diff(sig, s2), sig = "uart_rx") : target \in {"spartan6", "ice40"},
        sig \in {"uart_tx", "uart_rx"}, s1, s2 \in {"pos", "neg"}}
    \union {TwoPads("spartan6", Element(sig, e1), Element(sig, e2), FALSE) : sig \in {"po", "pi"}, e1, e2 \in {"0", "1"}}
    \union {PinBoard(target, <<Rule({"led0", "led1"}, field, Leds(sig)), Rule({"led0"}, "buff", buff)>>,
                <<Indexed("led", "0"), Indexed("led", "1")>>, FALSE, FALSE, loops) :
            target \in {"spartan6", "ecp5"}, field \in {"sig", "out"}, sig \in {"po", "pi"}, buff \in {"", "no"},
            loops \in {<<>>, <<Loop(0, 1, None)>>}}
    \union {PinBoard("spartan6", <<[Rule({"dq0", "dq1", "dq"}, "sig", Wire("phy_dq")) EXCEPT !.pad = "yes"],
                                   Rule({"got"}, "sig", Wire(sig))>>, nets \o <<PadNet("got")>>, sig = "uart_rx", FALSE, <<Loop(0, 1, 1)>>) :
            nets \in {<<PadNet("dq")>>, <<Indexed("dq", "0"), Indexed("dq", "1")>>}, sig \in {"got", "uart_rx"}}
    \union {PinBoard("spartan6", <<Rule({"pa"}, "in", Leg("name", Whole("fan_sense"), "", TRUE))>>, <<PadNet("pa")>>, FALSE, TRUE, <<>>)}
-------------------------------------------------------------------------------
(* Signals: one or two cpus, with a dma engine or not, buses that are left out,     *)
(* signals that cross from file to file in each direction, merged or tied to zero. *)
Tops(cpus, dma, event) ==
    (IF cpus = 2 THEN [cpus |-> Own]
     ELSE [cpu |-> [Own EXCEPT !.ports = [event |-> Sig(event), dbg |-> Sig("debug")]]])
    @@ (IF dma THEN [dma |-> Own] ELSE <<>>)
BusBoard(cpus, dma, buses, devices, merge) ==
    [Plain0 EXCEPT !.tops = Tops(cpus, dma, "event"), !.buses = buses, !.devices = devices, !.merge = merge]
Override == {<<>>} \union UNION {[b -> BOOLEAN] : b \in {{"cpu0"}, {"cpu1"}, {"dmac"}, {"cpu1", "dmac"}}}
Masters ==
    {BusBoard(cpus, dma, buses, devices, <<>>) : cpus \in {1, 2}, dma \in BOOLEAN, buses \in Override,
        devices \in {<<Uart(FALSE)>>, <<Uart(FALSE), WithRx(Dev("uart", 672))>>, <<Fan(FALSE)>>}}
(* What the timer, the fan and the cpu give each other and the pads. *)
Net(port, name) == [x \in {port} |-> Sig(name)]
Crossing(tick, sense, event, dbg, pads, merge, zeros) ==
    [Plain0 EXCEPT !.devices = <<Uart(FALSE), [Dev("timer", None) EXCEPT !.ports = Net("tick", tick)],
                                 [Dev("fan", None) EXCEPT !.ports = Net("sense", sense)]>>,
        !.tops = [cpu |-> [Own EXCEPT !.ports = Net("event", event) @@ Net("dbg", dbg)]],
        !.pins = Pins(<<Rule({"pa"}, "sig", Wire("x")), Rule({"pb"}, "sig", Wire("y"))>>, pads),
        !.merge = merge, !.zeros = zeros]
Crossings ==
    {Crossing(tick, sense, event, dbg, pads, merge, zeros) :
        tick \in {"x", "y"}, sense, event \in {"x", "y", "z"}, dbg \in {"y", "z"},
        pads \in {<<>>, <<PadNet("pa")>>, <<PadNet("pa"), PadNet("pb")>>}, merge \in {<<>>, [x |-> {"z"}]}, zeros \in {<<>>, <<"z">>}}

-------------------------------------------------------------------------------
(* Designs with something wrong, one each. *)
WithClass(class) == [Plain0 EXCEPT !.classes = [MCClasses EXCEPT !.uart = class]]
WithDevice(dev) == [Plain0 EXCEPT !.devices = <<Uart(FALSE), dev>>]
Wrong ==
    {WithClass(class) : class \in {
        [Class("uart", 0, OneWord) EXCEPT !.config = "no"], [Class("uart", 0, OneWord) EXCEPT !.arch = "no"], Class("no", 0, OneWord),
        [Class("pio", 0, OneWord) EXCEPT !.arch = "sim", !.config = "pio_fpga"], [Class("pio", 0, OneWord) EXCEPT !.config = "pio_fpga"],
        Class("pio", 0, OneWord), Class("uart", 2, <<Reg(0, 8), Reg(4, 4)>>), Class("uart", 1, <<Reg(0, 4), Reg(12, 4)>>),
        Class("uart", 0, <<Reg(0, 1)>>), Class("uart", 1, <<Reg(0, 1)>>)}}
    \union {WithDevice(dev) : dev \in {Dev("no", 656), [WithRx(Dev("uart", 656)) EXCEPT !.name = "uart0"],
        [WithRx(Dev("UART", 656)) EXCEPT !.name = "second"], [WithRx(Dev("uart", 656)) EXCEPT !.generics = [no |-> 1]],
        [WithRx(Dev("uart", 656)) EXCEPT !.ports = [no |-> Lit("'1'"), rx |-> Map("data-bus")]],
        [Dev("uart", 656) EXCEPT !.ports = [rx |-> Sig("cfg_mode")]],
        [WithRx(Dev("uart", 656)) EXCEPT !.ports = [rx |-> Map("open"), int |-> Map("irq?")]], WithRx(Dev("uart", None))}}
    \union {[Plain0 EXCEPT !.devices = <<[Uart(FALSE) EXCEPT !.name = "a"], [WithRx(Dev("uart", 656)) EXCEPT !.name = "a"]>>],
            [Plain0 EXCEPT !.devices = <<[WithRx(Dev("Uart", 656)) EXCEPT !.class = "UART"]>>],
            [Plain0 EXCEPT !.classes = MCClasses @@ [odd |-> Class("odd", 0, <<>>)], !.devices = <<Dev("odd", 656)>>],
            [Plain0 EXCEPT !.plugins = <<"board.h", "board.h">>], [Plain0 EXCEPT !.plugins = <<"no">>],
            [Plain0 EXCEPT !.busWord = <<"uart">>], [Plain0 EXCEPT !.tops = Cpu @@ [no |-> Own]],
            [Plain0 EXCEPT !.tops = Cpu @@ [t |-> [Inst("pio") EXCEPT !.config = "pio_fpga", !.generics = [n |-> 1]]]],
            [Plain0 EXCEPT !.tops = Cpu @@ [t |-> [Inst("pio") EXCEPT !.config = "no", !.ports = [no |-> Lit("'1'")]]]]}
MCBoards ==
    Documents \union BadDocuments \union {Split(Plain0)}
    \union {OneFile(x) : x \in Windows \union Interrupts \union LegCombinations \union PadGroups \union Masters \union Crossings \union Wrong}
=============================================================================

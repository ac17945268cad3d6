----------------------------- MODULE SocgenDevices -----------------------------
(* The first passes of socgen's elaboration: a design's devices are bound to      *)
(* entities and architectures of the library, get their names and their register *)
(* windows, and the windows are checked against each other.                      *)
(*                                                                                *)
(* A design is a record: its `devices` in order ([class, name, base, generics,    *)
(* ports, irq, cpu]), the device `classes` by name ([entity, arch, config, left,  *)
(* regs, generics, ports]) and the sections the later passes read. The library is *)
(* that of SocgenLibrary. "" and None stand for what is not written.              *)
(* Errors are pairs <<kind, subject>>; a pass goes on after an error.             *)
EXTENDS SocgenLibrary

CONSTANTS Units,      \* the design units of the VHDL files of the board
          AddrBits,   \* width of an address (32)
          WordBits,   \* width of Go's uint64, in which addresses are kept
          MaxLeftBit, \* maxLeftAddrBit
          Reserved    \* reservedRegions: a set of [name, lo, hi]
ASSUME AddressAssumption == /\ WordBits \in Nat /\ AddrBits \in 5..WordBits /\ MaxLeftBit \in 0..WordBits - 2
                            /\ \A r \in Reserved : r.lo \in Nat /\ r.hi \in Nat /\ r.lo <= r.hi

None == -1
(* 1 << n *)
Pow2[n \in Nat] == IF n = 0 THEN 1 ELSE 2 * Pow2[n - 1]
(* The library of the board, as board.Load extracts it. *)
Lib == Extract(Units)

(* chooseArch: what an entity with an optional architecture and configuration is  *)
(* bound to; a hard error leaves the registers of the class unread.                *)
Bound(entity, arch, config, err, hard) ==
    [entity |-> entity, arch |-> arch, config |-> config, err |-> err, hard |-> hard]
ChooseArch(entityName, archName, configName) ==
    LET e == Lc(entityName)
        a == Lc(archName)
        c == Lc(configName)
        archs == Get(Lib.archs, e, <<>>)
        cfg == Lib.configs[c]
    IN  IF e \notin DOMAIN Lib.entities THEN Bound("", "", "", "entity not found", TRUE)
        ELSE IF c # "" /\ c \notin DOMAIN Lib.configs THEN Bound(e, "", "", "configuration not found", TRUE)
        ELSE IF a # "" /\ ~Contains(archs, a) THEN Bound(e, "", "", "architecture not found", TRUE)
        ELSE CASE a # "" /\ c # "" /\ a # cfg.arch -> Bound(e, "", "", "arch/config mismatch", TRUE)
               [] c # "" /\ a \in {"", cfg.arch} -> Bound(e, cfg.arch, c, "", FALSE)
               [] c = "" /\ a # "" -> Bound(e, a, "", "", FALSE)
               [] c = "" /\ a = "" -> IF Len(archs) = 1 THEN Bound(e, archs[1], "", "", FALSE)
                                     ELSE Bound(e, "", "", IF archs = <<>> THEN "no architecture"
                                                           ELSE "ambiguous architecture", FALSE)

(* resolveRegs: the byte ranges of the registers, and the number of the highest    *)
(* address bit inside the device's window (0 when the class has no registers).     *)
CeilLog2(n) == CHOOSE k \in 0..n : Pow2[k] >= n /\ (k = 0 \/ Pow2[k - 1] < n)
RegWidth(r) == IF r.width = None THEN 4 ELSE r.width
RegAddr(r, next) == IF r.addr = None THEN next ELSE r.addr
AfterRegs(regs) == LET next[k \in 0..Len(regs)] == IF k = 0 THEN 0 ELSE RegAddr(regs[k], next[k - 1]) + RegWidth(regs[k])
                   IN  next
PlacedRegs(regs) ==
    [k \in DOMAIN regs |-> [name |-> Lc(regs[k].name), addr |-> RegAddr(regs[k], AfterRegs(regs)[k - 1]),
                            width |-> RegWidth(regs[k])]]
RegsClash(r, s) == r.addr < s.addr + s.width /\ s.addr < r.addr + r.width

RequiredBits(regs) ==
    CeilLog2(Max({1} \union {regs[i].addr + regs[i].width : i \in DOMAIN regs})) - 1
LeftBitOf(regs, left) ==
    IF regs = <<>> THEN 0 ELSE IF left > 0 /\ left > RequiredBits(regs) THEN left ELSE RequiredBits(regs)
RegErrors(name, regs, left) ==
    {<<"register overlap", name>> : p \in {p \in (DOMAIN regs) \X (DOMAIN regs) :
                                            p[1] < p[2] /\ RegsClash(regs[p[1]], regs[p[2]])}}
    \union {<<"left-addr-bit too small", name>> : n \in {left} \cap
                (IF regs = <<>> THEN {} ELSE 1..RequiredBits(regs) - 1)}

(* resolveClass *)
ResolvedClass(c, name, bound) ==
    LET regs == IF bound.hard THEN <<>> ELSE PlacedRegs(c.regs)
    IN  [entity |-> bound.entity, arch |-> bound.arch, config |-> bound.config, regs |-> regs,
         left |-> LeftBitOf(regs, c.left), generics |-> c.generics,
         errs |-> {<<bound.err, name>> : x \in {bound.err} \ {""}} \union RegErrors(name, regs, c.left)]
ClassOf(d, name) ==
    LET c == d.classes[name]
    IN  ResolvedClass(c, name, ChooseArch(c.entity, c.arch, c.config))

(* Devices: a class is looked up as it is written and then without regard to case, *)
(* in the order of a Go map: any of the names that fit may be the one.             *)
ClassKeys(d) == {Lc(d.devices[i].class) : i \in DOMAIN d.devices}
FirstUse(d, key) == d.devices[SelectInSeq(d.devices, LAMBDA x : Lc(x.class) = key)].class
ClassNames(d, key) ==
    LET written == FirstUse(d, key)
    IN  IF written \in DOMAIN d.classes THEN {written}
        ELSE {n \in DOMAIN d.classes : Lc(n) = key}
ClassChoices(d) ==
    LET names == [key \in {key \in ClassKeys(d) : ClassNames(d, key) # {}} |-> ClassNames(d, key)]
    IN  {pick \in [DOMAIN names -> UNION Range(names)] : \A key \in DOMAIN names : pick[key] \in names[key]}
Classes(d, pick) == [key \in DOMAIN pick |-> ClassOf(d, pick[key])]

(* resolveDevices: a device without a name takes its class's, if no other device   *)
(* has the class or the name, and else the first free numbered one.                *)
Given(d) == {d.devices[i].name : i \in DOMAIN d.devices} \ {""}
NumberedName(class, used) ==
    LET n == CHOOSE n \in 0..Cardinality(used) :
                /\ class \o ToString(n) \notin used
                /\ \A m \in 0..n - 1 : class \o ToString(m) \in used
    IN  class \o ToString(n)
NameFor(d, dev, used) ==
    LET sharing == {i \in DOMAIN d.devices : Lc(d.devices[i].class) = Lc(dev.class)}
    IN  IF dev.name # "" THEN dev.name
        ELSE IF Cardinality(sharing) = 1 /\ dev.class \notin used THEN dev.class
        ELSE NumberedName(dev.class, used)
DeviceNames(d) ==
    FoldLeft(LAMBDA names, dev : Append(names, NameFor(d, dev, Given(d) \union ToSet(names))),
             <<>>, d.devices)

EntityOf(classes, dev) == LET key == Lc(dev.class)
                          IN  IF key \in DOMAIN classes THEN classes[key].entity ELSE ""
GenericsOf(classes, dev) == LET key == Lc(dev.class)
                            IN  IF key \in DOMAIN classes THEN dev.generics @@ classes[key].generics
                                ELSE dev.generics
Devices(d, classes) ==
    LET names == DeviceNames(d)
    IN  [i \in DOMAIN d.devices |->
        LET dev == d.devices[i]
        IN  [name |-> names[i], class |-> dev.class, base |-> dev.base,
             entity |-> EntityOf(classes, dev), generics |-> GenericsOf(classes, dev),
             ports |-> <<>>, dataBus |-> FALSE]]
DeviceErrors(d, classes, devices) ==
    {<<"unknown class", key>> : key \in ClassKeys(d) \ DOMAIN classes}
    \union UNION {classes[key].errs : key \in DOMAIN classes}
    \union {<<"duplicate name", n>> : n \in {n \in Given(d) :
                Cardinality({i \in DOMAIN d.devices : d.devices[i].name = n}) > 1}}
    \union UNION {{<<"unknown generic", g>> : g \in {g \in DOMAIN devices[i].generics :
                        devices[i].entity # "" /\ Lc(g) \notin DOMAIN Lib.entities[devices[i].entity].generics}} :
                    i \in DOMAIN devices}

-------------------------------------------------------------------------------
(* Validate, when the board is loaded: the names that a device or an entity uses.  *)
(* An entity that is not named, and so its own, is not looked at.                  *)
NamedEntity(x) == IF x.config = "" THEN Lc(x.entity)
                  ELSE IF Lc(x.config) \in DOMAIN Lib.configs THEN Lib.configs[Lc(x.config)].entity ELSE ""
BindingErrors(x, name) ==
    {<<"no configuration", name>> : c \in {Lc(x.config)} \ ({""} \union DOMAIN Lib.configs)}
    \union {<<"no architecture", name>> : c \in {c \in {Lc(x.config)} \cap DOMAIN Lib.configs :
                LET archs == Get(Lib.archs, Lib.configs[c].entity, <<>>)
                IN  archs # <<>> /\ ~Contains(archs, Lib.configs[c].arch)}}
    \union {<<"no entity", name>> : e \in {NamedEntity(x)} \ ({""} \union DOMAIN Lib.entities)}
InterfaceErrors(entity, generics, ports) ==
    IF entity \notin DOMAIN Lib.entities THEN {}
    ELSE {<<"no generic", g>> : g \in {g \in DOMAIN generics : Lc(g) \notin DOMAIN Lib.entities[entity].generics}}
         \union {<<"no port", p>> : p \in {p \in DOMAIN ports :
                    \A q \in Range(Lib.entities[entity].ports) : Lc(p) # Lc(q.name)}}
EntityUseErrors(x, name) == BindingErrors(x, name) \union InterfaceErrors(NamedEntity(x), x.generics, x.ports)
DeviceUseErrors(d, dev) ==
    IF dev.class \notin DOMAIN d.classes THEN {<<"unknown class", dev.class>>}
    ELSE BindingErrors(d.classes[dev.class], dev.class)
         \union InterfaceErrors(NamedEntity(d.classes[dev.class]), dev.generics, dev.ports)
ValidateErrors(d) ==
    UNION {DeviceUseErrors(d, dev) : dev \in Range(d.devices)}
    \union UNION {EntityUseErrors(d.tops[n], n) : n \in DOMAIN d.tops}
    \union UNION {EntityUseErrors(d.pads[n], n) : n \in DOMAIN d.pads}

-------------------------------------------------------------------------------
(* validateAddresses and checkAddrOverlap *)
Window(left) == Pow2[left + 1]
LeftFits(left) == left \in 0..MaxLeftBit
Mapped(res) == {i \in DOMAIN res.devices : res.devices[i].base # None
                                           /\ Lc(res.devices[i].class) \in DOMAIN res.classes}
LeftOf(res, i) == res.classes[Lc(res.devices[i].class)].left

Region(base) == (base \div Pow2[AddrBits - 4]) % 16
(* deviceSpan: the last address saturates where 64 bits would wrap. *)
Span(res, i) ==
    LET base == res.devices[i].base
    IN  [name |-> res.devices[i].name, lo |-> base,
         hi |-> Min({base + Window(LeftOf(res, i)) - 1, Pow2[WordBits] - 1})]
Overlap(r, s) == r.lo <= s.hi /\ s.lo <= r.hi

OverlapErrors(res) ==
    LET placed == {i \in Mapped(res) : LeftFits(LeftOf(res, i))}
    IN  {<<"overlap", res.devices[i].name>> : i \in {i \in placed :
            \/ \E j \in placed \ {i} : Overlap(Span(res, i), Span(res, j))
            \/ \E r \in Reserved : Overlap(Span(res, i), r)}}

AddressErrors(res) ==
    {<<"bad region", res.devices[i].name>> : i \in {i \in Mapped(res) : Region(res.devices[i].base) # 10}}
    \union {<<"left-addr-bit", res.devices[i].name>> : i \in {i \in Mapped(res) : ~LeftFits(LeftOf(res, i))}}
    \union {<<"over-specified", res.devices[i].name>> : i \in {i \in Mapped(res) :
                LeftFits(LeftOf(res, i)) /\ res.devices[i].base % Window(LeftOf(res, i)) # 0}}
    \union OverlapErrors(res)
=============================================================================

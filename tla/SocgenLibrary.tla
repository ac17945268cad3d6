----------------------------- MODULE SocgenLibrary -----------------------------
(* The library of a board: what socgen takes from the VHDL files that are not      *)
(* generated. A unit is an entity [name, generics, ports, groups, attrs], an        *)
(* architecture [name, entity], a configuration [name, entity, arch] or a package   *)
(* [name, symbols], told apart by its kind `k`; the symbols are the constants,       *)
(* types, subtypes and components in order, each [name, kind]. Names compare        *)
(* without regard to case; "" stands for what is not written.                       *)
EXTENDS Integers, Sequences, FiniteSets, TLC, SequencesExt, FiniteSetsExt, Functions

CONSTANT Lower \* the lower case of the names that have capitals

Lc(s) == IF s \in DOMAIN Lower THEN Lower[s] ELSE s
Listed(set) == FoldSet(LAMBDA x, seq : Append(seq, x), <<>>, set)
Get(f, key, default) == IF key \in DOMAIN f THEN f[key] ELSE default
Has(names, s) == \E n \in Range(names) : Lc(n) = Lc(s)
OfKind(units, kind) == SelectSeq(units, LAMBDA u : u.k = kind)
(* Of two units of a kind with one name the later one is the library's. *)
Newest(units, name) == units[Max({i \in DOMAIN units : Lc(units[i].name) = name})]
NamesOf(units) == {Lc(units[i].name) : i \in DOMAIN units}

(* applySocPortNames: a port may be listed in a group, which names its signal after *)
(* it, and have an attribute, which names the signal or says it is an interrupt.     *)
InGroup(entity, template, port) ==
    \E g \in Range(entity.groups) : Lc(g.template) = template /\ Has(g.members, port)
About(entity, attr, port) ==
    {i \in DOMAIN entity.attrs : /\ entity.attrs[i].class = "signal" /\ Lc(entity.attrs[i].attr) = attr
                                 /\ Has(entity.attrs[i].of, port)}
PortName(entity, group, attr, port) ==
    IF About(entity, attr, port) # {} THEN Lc(entity.attrs[Max(About(entity, attr, port))].value)
    ELSE IF InGroup(entity, group, port) THEN Lc(port) ELSE ""
(* toPorts: a declaration of several names is as many ports. *)
ToPorts(entity) ==
    FoldLeft(LAMBDA ports, decl : ports \o
        [i \in DOMAIN decl.names |->
            [name |-> decl.names[i], dir |-> decl.dir, type |-> decl.type,
             global |-> PortName(entity, "global_ports", "soc_port_global_name", decl.names[i]),
             local |-> PortName(entity, "local_ports", "soc_port_local_name", decl.names[i]),
             irq |-> \E a \in About(entity, "soc_port_irq", decl.names[i]) : Lc(entity.attrs[a].value) = "true"]],
        <<>>, entity.ports)
(* toPeripheralBuses *)
Buses(entity) == {g.name : g \in {g \in Range(entity.groups) : Lc(g.template) = "peripheral_bus"}}

(* addSymbol: of the symbols of one name the last one of the last package counts.   *)
Index(packages) ==
    FoldLeft(LAMBDA index, p :
                FoldLeft(LAMBDA f, sym : (Lc(sym.name) :> sym.kind) @@ f, index, p.symbols),
             <<>>, packages)

(* Extract: a name that is declared twice is no error. What Extract notes of it,     *)
(* board.Library drops: a board of many files is expected to repeat names.           *)
Extract(units) ==
    LET entities == OfKind(units, "entity")
        archs == OfKind(units, "architecture")
        configs == OfKind(units, "configuration")
        packages == OfKind(units, "package")
        index == Index(packages)
    IN  [entities |-> [n \in NamesOf(entities) |->
                        LET e == Newest(entities, n)
                        IN  [generics |-> [g \in {Lc(x) : x \in DOMAIN e.generics} |->
                                            e.generics[CHOOSE x \in DOMAIN e.generics : Lc(x) = g]],
                             ports |-> ToPorts(e), buses |-> Buses(e)]],
         archs |-> [n \in {Lc(a.entity) : a \in Range(archs)} |->
                        LET of == SelectSeq(archs, LAMBDA a : Lc(a.entity) = n)
                        IN  [i \in DOMAIN of |-> Lc(of[i].name)]],
         configs |-> [n \in NamesOf(configs) |->
                        LET c == Newest(configs, n) IN [entity |-> Lc(c.entity), arch |-> Lc(c.arch)]],
         constants |-> {n \in DOMAIN index : index[n] = "constant"}]
=============================================================================

--------------------------------- MODULE Socgen --------------------------------
(* One run of socgen: the board's design is loaded, elaborated pass by pass, and   *)
(* the VHDL files are generated from what the passes left. A pass that finds an    *)
(* error notes it and goes on, as the program does; only a design that cannot be   *)
(* loaded and a plugin that does not exist end the run.                            *)
EXTENDS SocgenUnits, SocgenTree

CONSTANTS Boards,         \* the files a run may be given
          BoardFile,      \* the path of the board's design
          ReadTree(_, _)  \* the tree that is read from files (LoadTree of SocgenInclude)

VARIABLES files, pc, d, res, errs, out
vars == <<files, pc, d, res, errs, out>>

Unset == [none |-> TRUE]
Step(from, to) == pc = from /\ pc' = to
Note(found) == errs' = errs \union found

(* The sections of a design. The entries of one are given as they are decoded. *)
Section(root, name) == root.pairs[IndexOf(root.pairs, name)][2]
HasSection(root, name) == IndexOf(root.pairs, name) # 0
Entries(node) == FoldLeft(LAMBDA f, p : f @@ (p[1] :> p[2].v), <<>>, node.pairs)
Items(node) == FoldLeft(LAMBDA items, n : Append(items, n.v), <<>>, node.items)
MapSection(root, name) == IF HasSection(root, name) THEN Entries(Section(root, name)) ELSE <<>>
ListSection(root, name) == IF HasSection(root, name) THEN Items(Section(root, name)) ELSE <<>>
TextSection(root, name, missing) == IF HasSection(root, name) THEN Section(root, name).v ELSE missing
WellTyped(root) ==
    /\ root.k = "map"
    /\ \A i \in DOMAIN root.pairs :
        LET p == root.pairs[i] IN
        /\ \A j \in DOMAIN Children(p[2]) : Children(p[2])[j].k = "scalar"
        /\ p[2].k = CASE p[1] \in {"devices", "zero-signals", "plugins", "bus-word"} -> "seq"
                      [] p[1] \in {"target", "pins"} -> "scalar"
                      [] OTHER -> "map"
NoPins == [rules |-> <<>>, pins |-> <<>>]
Decode(root) ==
    LET system == MapSection(root, "system")
    IN  [target |-> TextSection(root, "target", ""), classes |-> MapSection(root, "device-classes"),
         devices |-> ListSection(root, "devices"), tops |-> MapSection(root, "top-entities"),
         pads |-> MapSection(root, "padring-entities"), zeros |-> ListSection(root, "zero-signals"),
         merge |-> MapSection(root, "merge-signals"), buses |-> MapSection(root, "peripheral-buses"),
         decode |-> Get(system, "data-bus-decode", ""), pio |-> Get(system, "pio", <<>>),
         pins |-> TextSection(root, "pins", NoPins), busWord |-> ListSection(root, "bus-word"),
         plugins |-> ListSection(root, "plugins")]

(* What the fields of a design are read into: an address is a number (uint64) or is *)
(* not given, the numbers of a class and of its registers are integers.              *)
DesignTyped(design) ==
    /\ \A i \in DOMAIN design.devices : design.devices[i].base \in Nat \union {None}
    /\ \A n \in DOMAIN design.classes : /\ design.classes[n].left \in Int
                                       /\ design.classes[n].regs \in Seq([name : STRING, addr : Int, width : Int])
ASSUME BoardsAssumption ==
    \A read \in Boards : LET root == ReadTree(read, BoardFile)
                         IN  WellTyped(root) => DesignTyped(Decode(root))

Unresolved == [classes |-> <<>>, devices |-> <<>>, tops |-> <<>>, pads |-> <<>>, refs |-> <<>>,
               bus |-> NoBus, pins |-> <<>>, bound |-> {}, loc |-> Unset, pio |-> <<>>, irq |-> NoIrq]

Init == /\ files \in Boards
        /\ pc = "load" /\ d = Unset /\ res = Unresolved /\ errs = {} /\ out = Unset

(* board.Load: read, splice, decode and check the names. *)
Load == /\ pc = "load"
        /\ LET root == ReadTree(files, BoardFile)
           IN  IF WellTyped(root)
               THEN /\ pc' = "bind" /\ d' = Decode(root)
                    /\ Note(ValidateErrors(Decode(root)))
               ELSE pc' = "aborted" /\ Note({<<"load", "board">>}) /\ UNCHANGED d
        /\ UNCHANGED <<files, res, out>>

(* elaborate.Devices *)
BindDevices ==
    /\ Step("bind", "connect")
    /\ \E pick \in ClassChoices(d) :
        LET classes == Classes(d, pick)
            devices == Devices(d, classes)
        IN  /\ res' = [res EXCEPT !.classes = classes, !.devices = devices]
            /\ Note(DeviceErrors(d, classes, devices))
    /\ UNCHANGED <<files, d, out>>

(* elaborate.Elaborate, one action for each of its passes. *)
Connect == /\ Step("connect", "entities")
           /\ res' = [res EXCEPT !.devices = ConnectDevices(d, @)]
           /\ Note(BusPortErrors(res'.devices))
           /\ UNCHANGED <<files, d, out>>

BindEntities ==
    /\ Step("entities", "gather")
    /\ res' = [res EXCEPT !.tops = ResolveEntities(d, d.tops), !.pads = ResolveEntities(d, d.pads)]
    /\ Note(EntityErrors(res'.tops) \union EntityErrors(res'.pads))
    /\ UNCHANGED <<files, d, out>>

Gather == /\ Step("gather", "pins")
          /\ res' = [res EXCEPT !.refs = GatherSignals(res), !.bus = FindBuses(d, res)]
          /\ UNCHANGED <<files, d, errs, out>>

PlacePins ==
    /\ Step("pins", "zeros")
    /\ LET placed == ResolvePins(d, res.refs)
       IN  res' = [res EXCEPT !.pins = placed.pins, !.refs = placed.refs, !.bound = placed.bound]
    /\ Note(PinErrors(d))
    /\ UNCHANGED <<files, d, out>>

CheckSignals ==
    /\ Step("zeros", "inject")
    /\ res' = [res EXCEPT !.refs = TieZeros(@, d.zeros)]
    /\ Note(SignalErrors(res'.refs))
    /\ UNCHANGED <<files, d, out>>

InjectBuses == /\ Step("inject", "prune")
               /\ res' = [res EXCEPT !.refs = Inject(res)]
               /\ UNCHANGED <<files, d, errs, out>>

RemoveWriteOnly == /\ Step("prune", "categorize")
                   /\ res' = Prune(d, res)
                   /\ UNCHANGED <<files, d, errs, out>>

PlaceSignals == /\ Step("categorize", "addresses")
                /\ res' = [res EXCEPT !.loc = Categorize(res.refs)]
                /\ Note(SourceErrors(res.refs))
                /\ UNCHANGED <<files, d, out>>

CheckAddresses == /\ Step("addresses", "irqs")
                  /\ Note(AddressErrors(res))
                  /\ res' = [res EXCEPT !.pio = ResolvePio(d.pio)]
                  /\ UNCHANGED <<files, d, out>>

WireIrqs == /\ Step("irqs", "build")
            /\ res' = [res EXCEPT !.irq = BuildIrq(d, res.devices)]
            /\ Note(IrqErrors(d, res.devices))
            /\ UNCHANGED <<files, d, out>>

(* generate.Build and Write *)
Generate ==
    /\ pc = "build"
    /\ IF PluginErrors(d) # {} THEN pc' = "aborted" /\ Note(PluginErrors(d)) /\ UNCHANGED out
       ELSE IF res.bus.on /\ ~Sliceable(res) THEN pc' = "panicked" /\ UNCHANGED <<errs, out>>
       ELSE /\ pc' = "done" /\ out' = Build(d, res)
            /\ Note(UnboundErrors(res) \union PadErrors(d, res.pins))
    /\ UNCHANGED <<files, d, res>>

Next == \/ Load \/ BindDevices \/ Connect \/ BindEntities \/ Gather \/ PlacePins \/ CheckSignals
        \/ InjectBuses \/ RemoveWriteOnly \/ PlaceSignals \/ CheckAddresses \/ WireIrqs \/ Generate
Spec == Init /\ [][Next]_vars

-------------------------------------------------------------------------------
Done == pc = "done"
(* The signals are checked before the generated logic of the devices file, which    *)
(* drives the masters' buses, pi and the controllers' vectors, is added to them: a   *)
(* note that one of those is not driven says nothing.                               *)
Controllers == {AicOf(d, c) : c \in AicCpus(d)}
DrivenLater ==
    (IF res.bus.on THEN (IF res.pio = <<>> THEN {} ELSE {"pi"}) \union {b \o "_periph_dbus_i" : b \in GatheredBuses(res)} ELSE {})
    \union UNION {{p.sig : p \in {p \in Range(res.devices[i].ports) : <<i, p.name>> \in DOMAIN res.irq.overrides}} :
                    i \in Controllers}
Accepted == Done /\ errs \subseteq {<<"undriven", s>> : s \in DrivenLater}

(* The part of the address that a device answers to. *)
Owner(addr) == {i \in BusDevices(res) : Span(res, i).lo <= addr /\ addr <= Span(res, i).hi}
InRegion == {a \in 0..Pow2[AddrBits] - 1 : Region(a) = 10}
(* Every address of the devices' region reaches the one device whose window it is in; *)
(* the exact decoder gives no device an address outside its window (databus.go of  *)
(* emit, addr_validate.go). An address above 32 bits is cut, and is not covered.   *)
DecodesToOwner ==
    (Accepted /\ res.bus.on /\ \A i \in BusDevices(res) : res.devices[i].base < Pow2[AddrBits]) =>
        LET code == DecodeFunction(res)
        IN  \A a \in InRegion :
                LET dev == Decoded(code, a)
                IN  IF Owner(a) # {} THEN Owner(a) = {dev}
                    ELSE res.bus.mode = "simple" \/ dev = NoDevice
=============================================================================

------------------------------ MODULE SocgenProofs -----------------------------
(* What the passes of socgen decide, for every design: where a signal is declared  *)
(* and which way its ports point, that the legs of a pad fit its direction, which   *)
(* masters the chain of multiplexers joins, that windows taken without a note are   *)
(* disjoint, that a bit of an interrupt vector has one driver, and that the decoder  *)
(* finds the device of every address and of every register.                          *)
EXTENDS Socgen, FiniteSetTheorems, SequenceTheorems, WellFoundedInduction, TLAPS

(* The kinds of places a reference of the net-list is in. *)
Contexts == {"device", "top", "padring", "pin", "zero"}
(* The signal has a driver in a place of one of the kinds. *)
DrivenIn(refs, s, kinds) == \E i \in RefsOf(refs, s) : refs[i].dir = "out" /\ refs[i].ctx \in kinds

-------------------------------------------------------------------------------
(* A set with one element. *)
LEMMA Single ==
  ASSUME NEW S, IsFiniteSet(S)
  PROVE  Cardinality(S) = 1 <=> \E x : S = {x}
<1>1. ASSUME Cardinality(S) = 1 PROVE \E x : S = {x}
  <2>1. S # {} BY <1>1, FS_EmptySet
  <2>2. PICK x \in S : TRUE BY <2>1
  <2>3. IsFiniteSet(S \ {x}) /\ Cardinality(S \ {x}) = 0 BY <1>1, FS_RemoveElement, SMT
  <2>4. S \ {x} = {} BY <2>3, FS_EmptySet
  <2> QED BY <2>2, <2>4
<1>2. ASSUME NEW x, S = {x} PROVE Cardinality(S) = 1 BY <1>2, FS_Singleton
<1> QED BY <1>1, <1>2

(* The kinds of places that drive a signal are finitely many. *)
LEMMA SourcesFinite ==
  ASSUME NEW refs, \A i \in DOMAIN refs : refs[i].ctx \in Contexts, NEW s
  PROVE  /\ SourceKinds(refs, s) \subseteq Contexts \ {"pin"}
         /\ IsFiniteSet(SourceKinds(refs, s))
<1>1. SourceKinds(refs, s) \subseteq Contexts \ {"pin"} BY DEF SourceKinds, RefsOf, Contexts
<1>2. IsFiniteSet({"device", "top", "padring", "zero"})
  <2>1. IsFiniteSet({}) BY FS_EmptySet
  <2>2. IsFiniteSet({} \cup {"device"}) BY <2>1, FS_AddElement
  <2>3. IsFiniteSet(({} \cup {"device"}) \cup {"top"}) BY <2>2, FS_AddElement
  <2>4. IsFiniteSet((({} \cup {"device"}) \cup {"top"}) \cup {"padring"}) BY <2>3, FS_AddElement
  <2>5. IsFiniteSet(((({} \cup {"device"}) \cup {"top"}) \cup {"padring"}) \cup {"zero"}) BY <2>4, FS_AddElement
  <2>6. ((({} \cup {"device"}) \cup {"top"}) \cup {"padring"}) \cup {"zero"} = {"device", "top", "padring", "zero"}
    OBVIOUS
  <2> QED BY <2>5, <2>6
<1>3. Contexts \ {"pin"} = {"device", "top", "padring", "zero"} BY DEF Contexts
<1> QED BY <1>1, <1>2, <1>3, FS_Subset

(* A signal that crosses a border and has no note has one kind of place that drives it. *)
LEMMA OneSource ==
  ASSUME NEW refs, \A i \in DOMAIN refs : refs[i].ctx \in Contexts, SourceErrors(refs) = {},
         NEW s \in PadringTop(refs) \union TopDevices(refs)
  PROVE  /\ Cardinality(SourceKinds(refs, s)) = 1
         /\ \E k \in Contexts \ {"pin"} : SourceKinds(refs, s) = {k}
<1>1. Cardinality(SourceKinds(refs, s)) = 1 BY DEF SourceErrors
<1>2. PICK k : SourceKinds(refs, s) = {k} BY <1>1, Single, SourcesFinite
<1> QED BY <1>1, <1>2, SourcesFinite

(* Each file that a signal is used in declares it once, as a port or as a signal,   *)
(* and a port of an inner file is declared in the file around it (categorize of     *)
(* categorize.go: the combinations of kinds of its seven lists).                    *)
THEOREM DeclaredWhereUsed ==
  ASSUME NEW refs, \A i \in DOMAIN refs : refs[i].ctx \in Contexts, SourceErrors(refs) = {},
         NEW s \in Signals(refs), "zero" \notin Kinds(refs, s)
  PROVE  LET loc == Categorize(refs)
         IN  /\ "device" \in Kinds(refs, s) <=> s \in DOMAIN loc.devices \union loc.local
             /\ s \notin DOMAIN loc.devices \/ s \notin loc.local
             /\ "top" \in Kinds(refs, s) => s \in DOMAIN loc.soc \union loc.top
             /\ s \notin DOMAIN loc.soc \/ s \notin loc.top
             /\ Kinds(refs, s) \cap Outside # {} <=> s \in loc.padring
             /\ s \in DOMAIN loc.devices => s \in DOMAIN loc.soc \union loc.top
             /\ s \in DOMAIN loc.soc => s \in loc.padring
<1> DEFINE k == Kinds(refs, s)
           loc == Categorize(refs)
<1>1. k # {} /\ k \subseteq {"device", "top", "padring", "pin"}
  BY DEF Kinds, RefsOf, Signals, Contexts
<1>2. DOMAIN loc.devices = TopDevices(refs) /\ DOMAIN loc.soc = PadringTop(refs)
  BY OneSource DEF Categorize, PortDirs
<1>3. loc.local = DevicesOnly(refs) /\ loc.top = TopOnly(refs) /\ loc.padring = PadringOnly(refs)
  BY DEF Categorize
<1>4. /\ s \in TopDevices(refs) <=> "device" \in k /\ k # {"device"}
      /\ s \in PadringTop(refs) <=> k \cap Outside # {} /\ k \cap {"top", "device"} # {}
      /\ s \in DevicesOnly(refs) <=> k = {"device"}
      /\ s \in TopOnly(refs) <=> "top" \in k /\ k \subseteq {"top", "device"}
      /\ s \in PadringOnly(refs) <=> k \cap Outside # {}
  BY <1>1 DEF TopDevices, PadringTop, DevicesOnly, TopOnly, PadringOnly, Where, Outside
<1> HIDE DEF k, loc
<1>5. k \cap Outside # {} <=> "pin" \in k \/ "padring" \in k BY DEF Outside
<1>6. k \cap {"top", "device"} # {} <=> "top" \in k \/ "device" \in k OBVIOUS
<1>7. k # {"device"} /\ "device" \in k => "top" \in k \/ "pin" \in k \/ "padring" \in k BY <1>1
<1>8. k \subseteq {"top", "device"} <=> "pin" \notin k /\ "padring" \notin k BY <1>1
<1>9. /\ "device" \in k <=> s \in DOMAIN loc.devices \union loc.local
      /\ s \notin DOMAIN loc.devices \/ s \notin loc.local
      /\ "top" \in k => s \in DOMAIN loc.soc \union loc.top
      /\ s \notin DOMAIN loc.soc \/ s \notin loc.top
      /\ k \cap Outside # {} <=> s \in loc.padring
      /\ s \in DOMAIN loc.devices => s \in DOMAIN loc.soc \union loc.top
      /\ s \in DOMAIN loc.soc => s \in loc.padring
  BY <1>2, <1>3, <1>4, <1>5, <1>6, <1>7, <1>8
<1> QED BY <1>9 DEF k, loc

(* The kind of place that drives a signal says where its drivers are. *)
LEMMA WhereDriven ==
  ASSUME NEW refs, \A i \in DOMAIN refs : refs[i].ctx \in Contexts, NEW s,
         NEW k \in Contexts \ {"pin"}, SourceKinds(refs, s) = {k}
  PROVE  /\ k \in {"device", "top", "zero"} =>
                \A kinds : DrivenIn(refs, s, kinds) <=> k \in kinds
         /\ k = "padring" =>
                /\ DrivenIn(refs, s, Outside)
                /\ \A kinds : kinds \cap Outside = {} => ~DrivenIn(refs, s, kinds)
<1>1. \A i \in RefsOf(refs, s) : refs[i].dir = "out" =>
        k = IF refs[i].ctx = "pin" THEN "padring" ELSE refs[i].ctx
  BY DEF SourceKinds
<1>2. PICK i \in RefsOf(refs, s) : /\ refs[i].dir = "out"
                                   /\ k = IF refs[i].ctx = "pin" THEN "padring" ELSE refs[i].ctx
  BY DEF SourceKinds
<1>3. ASSUME k \in {"device", "top", "zero"} PROVE \A kinds : DrivenIn(refs, s, kinds) <=> k \in kinds
  <2>1. \A j \in RefsOf(refs, s) : refs[j].dir = "out" => refs[j].ctx = k BY <1>1, <1>3
  <2> QED BY <2>1, <1>2, <1>3 DEF DrivenIn
<1>4. ASSUME k = "padring"
      PROVE  /\ DrivenIn(refs, s, Outside)
             /\ \A kinds : kinds \cap Outside = {} => ~DrivenIn(refs, s, kinds)
  <2>1. \A j \in RefsOf(refs, s) : refs[j].dir = "out" => refs[j].ctx \in Outside BY <1>1, <1>4 DEF Outside
  <2> QED BY <2>1, <1>2 DEF DrivenIn
<1> QED BY <1>3, <1>4

(* Each border that a signal crosses has its driver on one side only, and the port  *)
(* there points away from it (srcContext, padringTopDir and topDevicesDir of        *)
(* categorize.go): the modes of one signal's ports in the two files agree.          *)
THEOREM PortsFollowDriver ==
  ASSUME NEW refs, \A i \in DOMAIN refs : refs[i].ctx \in Contexts, SourceErrors(refs) = {},
         NEW s \in Signals(refs)
  PROVE  LET loc == Categorize(refs)
         IN  /\ s \in DOMAIN loc.devices =>
                  /\ loc.devices[s] = IF DrivenIn(refs, s, {"device"}) THEN "out" ELSE "in"
                  /\ DrivenIn(refs, s, {"device"}) <=> ~DrivenIn(refs, s, Outside \union {"top"})
             /\ s \in DOMAIN loc.soc =>
                  /\ loc.soc[s] = IF DrivenIn(refs, s, {"device", "top"}) THEN "out" ELSE "in"
                  /\ DrivenIn(refs, s, {"device", "top"}) <=> ~DrivenIn(refs, s, Outside)
<1> DEFINE loc == Categorize(refs)
<1>1. DOMAIN loc.devices = TopDevices(refs) /\ DOMAIN loc.soc = PadringTop(refs)
  BY OneSource DEF Categorize, PortDirs
<1>2. s \in TopDevices(refs) => loc.devices[s] = IF SourceKinds(refs, s) \subseteq {"device"} THEN "out" ELSE "in"
  BY OneSource DEF Categorize, PortDirs
<1>3. s \in PadringTop(refs) =>
        loc.soc[s] = IF SourceKinds(refs, s) \subseteq {"device", "top"} THEN "out" ELSE "in"
  BY OneSource DEF Categorize, PortDirs
<1>4. ASSUME s \in TopDevices(refs) \union PadringTop(refs)
      PROVE  \E k \in {"device", "top", "padring"} : SourceKinds(refs, s) = {k}
  <2>1. PICK k \in Contexts \ {"pin"} : SourceKinds(refs, s) = {k} BY <1>4, OneSource
  <2>2. k # "zero"
    <3>1. SUFFICES ASSUME k = "zero" PROVE FALSE OBVIOUS
    <3>2. "zero" \in Kinds(refs, s) BY <2>1, <3>1 DEF SourceKinds, Kinds
    <3> QED BY <1>4, <3>2 DEF TopDevices, PadringTop, Where, Outside
  <2> QED BY <2>1, <2>2 DEF Contexts
<1> HIDE DEF loc
<1>5. ASSUME s \in DOMAIN loc.devices
      PROVE  /\ loc.devices[s] = IF DrivenIn(refs, s, {"device"}) THEN "out" ELSE "in"
             /\ DrivenIn(refs, s, {"device"}) <=> ~DrivenIn(refs, s, Outside \union {"top"})
  <2>1. PICK k \in {"device", "top", "padring"} : SourceKinds(refs, s) = {k} BY <1>1, <1>4, <1>5
  <2>2. CASE k = "padring"
    <3>1. DrivenIn(refs, s, Outside) /\ ~DrivenIn(refs, s, {"device"})
      BY <2>1, <2>2, WhereDriven DEF Contexts, Outside
    <3>2. DrivenIn(refs, s, Outside \union {"top"}) BY <3>1 DEF DrivenIn
    <3> QED BY <1>1, <1>2, <1>5, <2>1, <2>2, <3>1, <3>2
  <2>3. CASE k \in {"device", "top"}
    <3>1. /\ DrivenIn(refs, s, {"device"}) <=> k = "device"
          /\ DrivenIn(refs, s, Outside \union {"top"}) <=> k = "top"
      BY <2>1, <2>3, WhereDriven DEF Contexts, Outside
    <3> QED BY <1>1, <1>2, <1>5, <2>1, <2>3, <3>1
  <2> QED BY <2>2, <2>3
<1>6. ASSUME s \in DOMAIN loc.soc
      PROVE  /\ loc.soc[s] = IF DrivenIn(refs, s, {"device", "top"}) THEN "out" ELSE "in"
             /\ DrivenIn(refs, s, {"device", "top"}) <=> ~DrivenIn(refs, s, Outside)
  <2>1. PICK k \in {"device", "top", "padring"} : SourceKinds(refs, s) = {k} BY <1>1, <1>4, <1>6
  <2>2. /\ DrivenIn(refs, s, {"device", "top"}) <=> k # "padring"
        /\ DrivenIn(refs, s, Outside) <=> k = "padring"
    <3>1. CASE k = "padring" BY <2>1, <3>1, WhereDriven DEF Contexts, Outside
    <3>2. CASE k \in {"device", "top"} BY <2>1, <3>2, WhereDriven DEF Contexts, Outside
    <3> QED BY <3>1, <3>2
  <2> QED BY <1>1, <1>3, <1>6, <2>1, <2>2
<1> QED BY <1>5, <1>6 DEF loc

-------------------------------------------------------------------------------
(* What is inside the window of a device that has an address and a class. *)
InWindow(found, i, addr) == Span(found, i).lo <= addr /\ addr <= Span(found, i).hi

(* Where the addresses are taken without a note, an address is in the window of one *)
(* device at most and in no reserved range (deviceSpan and the overlap check of     *)
(* addr_validate.go): no decoder could be asked to choose.                          *)
THEOREM WindowsDisjoint ==
  ASSUME NEW found, AddressErrors(found) = {}, NEW addr \in Int,
         \A i \in Mapped(found) : Span(found, i).lo \in Int /\ Span(found, i).hi \in Int,
         \A r \in Reserved : r.lo \in Int /\ r.hi \in Int,
         NEW i \in Mapped(found), InWindow(found, i, addr)
  PROVE  /\ \A j \in Mapped(found) : InWindow(found, j, addr) => j = i
         /\ \A r \in Reserved : ~(r.lo <= addr /\ addr <= r.hi)
<1>1. \A j \in Mapped(found) : LeftFits(LeftOf(found, j)) BY DEF AddressErrors
<1>2. OverlapErrors(found) = {} BY DEF AddressErrors
<1>3. /\ \A j \in Mapped(found) \ {i} : ~Overlap(Span(found, i), Span(found, j))
      /\ \A r \in Reserved : ~Overlap(Span(found, i), r)
  BY <1>1, <1>2 DEF OverlapErrors
<1>4. ASSUME NEW j \in Mapped(found), InWindow(found, j, addr) PROVE j = i
  BY <1>3, <1>4 DEF InWindow, Overlap
<1>5. ASSUME NEW r \in Reserved PROVE ~(r.lo <= addr /\ addr <= r.hi)
  BY <1>3, <1>5 DEF InWindow, Overlap
<1> QED BY <1>4, <1>5

-------------------------------------------------------------------------------
(* The buses that a chain of multiplexers takes from its masters, as ChainOfOthers  *)
(* reads it: what goes in and does not come out of an earlier stage.                *)
Joined(bus) == ({bus.master} \union UNION {{st.in1, st.in2} : st \in Range(bus.stages)})
               \ {st.out : st \in Range(bus.stages)}
(* What the design says of a bus, or else that it is there. *)
SwitchedOn(gathered, override, b) == IF b \in DOMAIN override THEN override[b] ELSE b \in gathered

(* What sequences of at most one stage make together. *)
LEMMA ShortConcat ==
  ASSUME NEW x
  PROVE  /\ <<>> \o <<>> = <<>> /\ <<x>> \o <<>> = <<x>> /\ <<>> \o <<x>> = <<x>>
         /\ \A y : LET s == <<x>> \o <<y>> IN s # <<>> /\ s[Len(s)] = y /\ Range(s) = {x, y}
<1>1. <<>> \o <<>> = <<>> OBVIOUS
<1>2. <<x>> \o <<>> = <<x>> OBVIOUS
<1>3. <<>> \o <<x>> = <<x>> OBVIOUS
<1>4. ASSUME NEW y PROVE LET s == <<x>> \o <<y>> IN s # <<>> /\ s[Len(s)] = y /\ Range(s) = {x, y}
  <2>1. <<x>> \in Seq({x, y}) /\ <<y>> \in Seq({x, y}) OBVIOUS
  <2>2. Range(<<x>>) = {x} /\ Range(<<y>>) = {y} BY DEF Range
  <2>3. Range(<<x>> \o <<y>>) = {x, y} 
    <3>1. Range(<<x>> \o <<y>>) = Range(<<x>>) \union Range(<<y>>) BY ONLY <2>1, RangeConcatenation, Zenon
    <3> QED BY <2>2, <3>1
  <2>4. Len(<<x>>) = 1 /\ Len(<<y>>) = 1 /\ <<y>>[1] = y OBVIOUS
  <2>5. Len(<<x>> \o <<y>>) = 2 /\ (<<x>> \o <<y>>)[2] = y
    BY <2>1, <2>4, ConcatProperties
  <2>6. <<x>> \o <<y>> # <<>> BY <2>5
  <2> QED BY <2>3, <2>5, <2>6
<1> QED BY <1>1, <1>2, <1>3, <1>4

(* The chain joins exactly the connected buses if cpu0 is connected and the design   *)
(* switches no bus on that no unit has, and only then (resolvePeripheralBuses of     *)
(* databus.go: cpu0 is taken for granted, and an override of a bus that was not      *)
(* gathered still makes a stage).                                                    *)
THEOREM ChainJoinsConnected ==
  ASSUME NEW gathered \in SUBSET {"cpu0", "cpu1", "dmac"}, NEW override, NEW mode,
         \A b \in DOMAIN override : override[b] \in BOOLEAN
  PROVE  LET bus == BusModel(gathered, override, mode)
         IN  Joined(bus) = bus.connected <=>
                /\ "cpu0" \in bus.connected
                /\ \A b \in {"cpu0", "cpu1", "dmac"} : SwitchedOn(gathered, override, b) => b \in gathered
<1> DEFINE on(b) == SwitchedOn(gathered, override, b)
           two == Stage("cpus_mux", "multi_master_bus_mux", "cpu0", "cpu1", "cpu01")
           dma(in) == Stage("dmac_mux", "multi_master_bus_muxff", in, "dmac", "cpudm")
           bus == BusModel(gathered, override, mode)
           fits == /\ "cpu0" \in bus.connected
                   /\ \A b \in {"cpu0", "cpu1", "dmac"} : on(b) => b \in gathered
<1>1. bus.connected = {b \in gathered : on(b)} BY DEF BusModel, SwitchedOn
<1>2. /\ ~(on("cpu0") /\ on("cpu1")) /\ ~on("dmac") => bus.stages = <<>> \o <<>>
      /\ ~(on("cpu0") /\ on("cpu1")) /\ on("dmac") => bus.stages = <<>> \o <<dma(ChainEnd(<<>>))>>
      /\ on("cpu0") /\ on("cpu1") /\ ~on("dmac") => bus.stages = <<two>> \o <<>>
      /\ on("cpu0") /\ on("cpu1") /\ on("dmac") => bus.stages = <<two>> \o <<dma(ChainEnd(<<two>>))>>
  BY ZenonT(30) DEF BusModel, SwitchedOn
<1>3. ChainEnd(<<>>) = "cpu0" /\ ChainEnd(<<two>>) = "cpu01" BY DEF ChainEnd, Stage
<1>4. bus.master = ChainEnd(bus.stages) BY DEF BusModel
<1> HIDE DEF bus
<1>5. ASSUME ~(on("cpu0") /\ on("cpu1")), ~on("dmac") PROVE Joined(bus) = {"cpu0"}
  <2>1. bus.stages = <<>> BY <1>2, <1>5, ShortConcat
  <2>2. Range(bus.stages) = {} /\ bus.master = "cpu0" BY <1>3, <1>4, <2>1 DEF Range
  <2> QED BY <2>2 DEF Joined
<1>6. ASSUME ~(on("cpu0") /\ on("cpu1")), on("dmac") PROVE Joined(bus) = {"cpu0", "dmac"}
  <2>1. bus.stages = <<dma("cpu0")>>
    <3> HIDE DEF dma
    <3> QED BY <1>2, <1>3, <1>6, ShortConcat
  <2>2. Range(bus.stages) = {dma("cpu0")} BY <2>1 DEF Range
  <2>3. bus.master = "cpudm" BY <1>4, <2>1 DEF ChainEnd, Stage
  <2> QED BY <2>2, <2>3 DEF Joined, Stage
<1>7. ASSUME on("cpu0"), on("cpu1"), ~on("dmac") PROVE Joined(bus) = {"cpu0", "cpu1"}
  <2>1. bus.stages = <<two>>
    <3> HIDE DEF two
    <3> QED BY <1>2, <1>7, ShortConcat
  <2>2. Range(bus.stages) = {two} BY <2>1 DEF Range
  <2>3. bus.master = "cpu01" BY <1>3, <1>4, <2>1
  <2> QED BY <2>2, <2>3 DEF Joined, Stage
<1>8. ASSUME on("cpu0"), on("cpu1"), on("dmac") PROVE Joined(bus) = {"cpu0", "cpu1", "dmac"}
  <2>1. /\ bus.stages # <<>> /\ bus.stages[Len(bus.stages)] = dma("cpu01")
        /\ Range(bus.stages) = {two, dma("cpu01")}
    <3>1. bus.stages = <<two>> \o <<dma("cpu01")>>
      <4> HIDE DEF two, dma
      <4> QED BY <1>2, <1>3, <1>8
    <3> HIDE DEF two, dma
    <3> QED BY <3>1, ShortConcat
  <2>2. bus.master = "cpudm" BY <1>4, <2>1 DEF ChainEnd, Stage
  <2> QED BY <2>1, <2>2 DEF Joined, Stage
<1>9. Joined(bus) = bus.connected <=> fits
  <2> HIDE DEF on
  <2>1. CASE on("cpu0") /\ on("cpu1") BY <1>1, <1>7, <1>8, <2>1
  <2>2. CASE ~(on("cpu0") /\ on("cpu1")) BY <1>1, <1>5, <1>6, <2>2
  <2> QED BY <2>1, <2>2
<1> QED BY <1>9 DEF bus

-------------------------------------------------------------------------------
(* The legs of pads do not change what a bare signal's direction is found from: it is *)
(* the same for every pad, in whatever order the pads are placed (bareSignalDir).     *)
LEMMA LegsDoNotTurn ==
  ASSUME NEW R, NEW refs \in Seq(R), NEW legs \in Seq(R), \A k \in 1..Len(legs) : legs[k].ctx = "pin", NEW base
  PROVE  BareDir(refs \o legs, base) = BareDir(refs, base)
<1> DEFINE drives(r) == r.sig = base /\ r.ctx # "pin" /\ r.dir \in {"out", "inout", "buffer"}
           all == refs \o legs
<1>1. /\ Len(all) = Len(refs) + Len(legs) /\ DOMAIN all = 1..Len(all)
      /\ \A i \in 1..Len(all) : all[i] = IF i <= Len(refs) THEN refs[i] ELSE legs[i - Len(refs)]
  <2>1. all \in Seq(R) BY ConcatProperties
  <2> QED BY <2>1, ConcatProperties, LenProperties
<1>2. Len(refs) \in Nat /\ Len(legs) \in Nat /\ DOMAIN refs = 1..Len(refs) OBVIOUS
<1> HIDE DEF all
<1>3. (\E i \in DOMAIN all : drives(all[i])) <=> \E i \in DOMAIN refs : drives(refs[i])
  <2>1. ASSUME NEW i \in DOMAIN all, drives(all[i]) PROVE \E j \in DOMAIN refs : drives(refs[j])
    <3>1. i <= Len(refs)
      <4>1. SUFFICES ASSUME ~(i <= Len(refs)) PROVE FALSE OBVIOUS
      <4>2. i - Len(refs) \in 1..Len(legs) /\ all[i] = legs[i - Len(refs)] BY <1>1, <1>2, <4>1
      <4> QED BY <2>1, <4>2
    <3>2. i \in DOMAIN refs /\ all[i] = refs[i] BY <1>1, <1>2, <3>1
    <3> QED BY <2>1, <3>2
  <2>2. ASSUME NEW i \in DOMAIN refs, drives(refs[i]) PROVE \E j \in DOMAIN all : drives(all[j])
    <3>1. i \in DOMAIN all /\ all[i] = refs[i] BY <1>1, <1>2
    <3> QED BY <2>2, <3>1
  <2> QED BY <2>1, <2>2
<1>4. \A rs : BareDir(rs, base) = IF \E i \in DOMAIN rs : drives(rs[i]) THEN "in" ELSE "out"
  BY DEF BareDir, RefsOf
<1> QED BY <1>3, <1>4 DEF all

(* What the pad gives the net-list: its legs, each with its direction. *)
LEMMA LegsOfPad ==
  ASSUME NEW refs, NEW pin, NEW r \in Range(PinRefs(refs, pin))
  PROVE  \/ pin.sig # NoRef /\ ~OfEntity(pin) /\ r.dir = BareDir(refs, pin.sig[1])
         \/ pin.in # NoRef /\ r.dir = "out"
         \/ pin.out # NoRef /\ r.dir = "in"
         \/ pin.en # NoRef /\ r.dir = "in"
<1> DEFINE s1 == LegRef(refs, pin, "signal", pin.sig, BareDir(refs, pin.sig[1]), pin.diff)
           s2 == LegRef(refs, pin, "in", pin.in, "out", "")
           s3 == LegRef(refs, pin, "out", pin.out, "in", "")
           s4 == LegRef(refs, pin, "out-en", pin.en, "in", "")
           one(ref, leg, dir, diff) == Ref(ref[1], "pin", pin.net, leg, dir, TypeOf(refs, ref[1]), ref[2], diff)
           r1 == one(pin.sig, "signal", BareDir(refs, pin.sig[1]), pin.diff)
           r2 == one(pin.in, "in", "out", "")
           r3 == one(pin.out, "out", "in", "")
           r4 == one(pin.en, "out-en", "in", "")
           R == {r1, r2, r3, r4}
<1>1. /\ s1 = IF pin.sig = NoRef THEN <<>> ELSE <<r1>>
      /\ s2 = IF pin.in = NoRef THEN <<>> ELSE <<r2>>
      /\ s3 = IF pin.out = NoRef THEN <<>> ELSE <<r3>>
      /\ s4 = IF pin.en = NoRef THEN <<>> ELSE <<r4>>
  BY DEF LegRef
<1>2. r1.dir = BareDir(refs, pin.sig[1]) /\ r2.dir = "out" /\ r3.dir = "in" /\ r4.dir = "in" BY DEF Ref
<1>3. ~OfEntity(pin) /\ PinRefs(refs, pin) = s1 \o s2 \o s3 \o s4
  <2>1. PinRefs(refs, pin) = IF OfEntity(pin) THEN <<>> ELSE s1 \o s2 \o s3 \o s4 BY DEF PinRefs
  <2>2. Range(<<>>) = {} BY DEF Range
  <2> QED BY <2>1, <2>2
<1> HIDE DEF r1, r2, r3, r4, s1, s2, s3, s4
<1>4. s1 \in Seq(R) /\ s2 \in Seq(R) /\ s3 \in Seq(R) /\ s4 \in Seq(R) BY <1>1
<1> HIDE DEF R
<1>5. r \in Range(s1) \/ r \in Range(s2) \/ r \in Range(s3) \/ r \in Range(s4)
  <2>1. s1 \o s2 \in Seq(R) /\ (s1 \o s2) \o s3 \in Seq(R) BY <1>4, ConcatProperties
  <2>2. Range(s1 \o s2) = Range(s1) \union Range(s2) BY ONLY <1>4, RangeConcatenation, Zenon
  <2>3. Range((s1 \o s2) \o s3) = Range(s1 \o s2) \union Range(s3) BY ONLY <1>4, <2>1, RangeConcatenation, Zenon
  <2>4. Range(((s1 \o s2) \o s3) \o s4) = Range((s1 \o s2) \o s3) \union Range(s4)
    BY ONLY <1>4, <2>1, RangeConcatenation, Zenon
  <2> QED BY <1>3, <2>2, <2>3, <2>4
<1>6. Range(<<>>) = {} /\ \A x : Range(<<x>>) = {x} BY DEF Range
<1>7. CASE r \in Range(s1) BY <1>1, <1>2, <1>3, <1>6, <1>7
<1>8. CASE r \in Range(s2) BY <1>1, <1>2, <1>6, <1>8
<1>9. CASE r \in Range(s3) BY <1>1, <1>2, <1>6, <1>9
<1>10. CASE r \in Range(s4) BY <1>1, <1>2, <1>6, <1>10
<1> QED BY <1>5, <1>7, <1>8, <1>9, <1>10

(* A pad that is only an input drives what its legs name and reads none of it, and a *)
(* pad that is only an output drives none of it, if its legs have a buffer, whatever *)
(* pads were placed before it (bufferKind, padDir and addPinPort of pins.go, which   *)
(* look at the legs one after the other, each in its own way).                       *)
THEOREM LegsFitPad ==
  ASSUME NEW R, NEW refs \in Seq(R), NEW legs \in Seq(R), \A k \in 1..Len(legs) : legs[k].ctx = "pin",
         NEW f, NEW q
  PROVE  LET bare == IF f.sig = NoRef THEN "" ELSE BareDir(refs, f.sig[1])
             kind == BufferKind(f, bare)
             pin == Pin(q, f, kind, PadDir(kind, bare))
         IN  ~OddLegs(pin) =>
                \A r \in Range(PinRefs(refs \o legs, pin)) :
                    /\ pin.dir = "in" => r.dir = "out"
                    /\ pin.dir = "out" => r.dir = "in"
<1> DEFINE bare == IF f.sig = NoRef THEN "" ELSE BareDir(refs, f.sig[1])
           kind == BufferKind(f, bare)
           pin == Pin(q, f, kind, PadDir(kind, bare))
           has(leg) == pin[leg] # NoRef
           kinds == {{}, {"sig"}, {"in"}, {"out"}, {"out", "en"}, {"in", "out", "en"}}
           L == {leg \in {"sig", "in", "out", "en"} : has(leg)}
<1>1. SUFFICES ASSUME ~OddLegs(pin), NEW r \in Range(PinRefs(refs \o legs, pin))
               PROVE  (pin.dir = "in" => r.dir = "out") /\ (pin.dir = "out" => r.dir = "in")
  BY Zenon
<1>2. /\ pin.sig = f.sig /\ pin.in = f.in /\ pin.out = f.out /\ pin.en = f.en
      /\ pin.kind = kind /\ pin.dir = PadDir(kind, bare)
  BY DEF Pin
<1>3. bare \in {"", "in", "out"} /\ (f.sig # NoRef => bare = BareDir(refs \o legs, f.sig[1]))
  <2>1. BareDir(refs \o legs, f.sig[1]) = BareDir(refs, f.sig[1]) BY LegsDoNotTurn
  <2> QED BY <2>1 DEF BareDir
<1>4. \/ f.sig # NoRef /\ r.dir = bare
      \/ f.in # NoRef /\ r.dir = "out"
      \/ f.out # NoRef /\ r.dir = "in"
      \/ f.en # NoRef /\ r.dir = "in"
  BY <1>1, <1>2, <1>3, LegsOfPad
<1>5. L \in kinds /\ (kind = "direct" => f.in = NoRef /\ f.en = NoRef)
  BY <1>1, <1>2 DEF OddLegs
<1>6. /\ "sig" \in L <=> f.sig # NoRef
      /\ "in" \in L <=> f.in # NoRef
      /\ "out" \in L <=> f.out # NoRef
      /\ "en" \in L <=> f.en # NoRef
  BY <1>2
<1> HIDE DEF L, pin, bare
<1>7. \/ f.sig # NoRef /\ f.in = NoRef /\ f.out = NoRef /\ f.en = NoRef
      \/ f.sig = NoRef /\ f.in # NoRef /\ f.out = NoRef /\ f.en = NoRef
      \/ f.sig = NoRef /\ f.in = NoRef /\ f.out # NoRef
      \/ f.sig = NoRef /\ f.in # NoRef /\ f.out # NoRef /\ f.en # NoRef
  BY <1>4, <1>5, <1>6
<1>8. CASE f.sig # NoRef /\ f.in = NoRef /\ f.out = NoRef /\ f.en = NoRef
  <2>1. r.dir = bare /\ bare \in {"in", "out"} BY <1>3, <1>4, <1>8 DEF bare, BareDir
  <2>2. /\ bare = "out" => kind \in {"entity", "direct", "ibuf", "ibufds"}
        /\ bare = "in" => kind \in {"entity", "direct", "obuf", "obufds"}
    BY <1>8 DEF BufferKind
  <2> QED BY <1>2, <2>1, <2>2 DEF PadDir
<1>9. CASE f.sig = NoRef /\ f.in # NoRef /\ f.out = NoRef /\ f.en = NoRef
  <2>1. kind \in {"entity", "ibuf"} BY <1>5, <1>9 DEF BufferKind
  <2> QED BY <1>2, <1>4, <1>9, <2>1 DEF PadDir
<1>10. CASE f.sig = NoRef /\ f.in = NoRef /\ f.out # NoRef
  <2>1. kind \in {"entity", "direct", "obuf", "obuft"} BY <1>10 DEF BufferKind
  <2>2. bare = "" BY <1>10 DEF bare
  <2> QED BY <1>2, <1>4, <1>10, <2>1, <2>2 DEF PadDir
<1>11. CASE f.sig = NoRef /\ f.in # NoRef /\ f.out # NoRef /\ f.en # NoRef
  <2>1. kind \in {"entity", "iobuf"} BY <1>5, <1>11 DEF BufferKind
  <2> QED BY <1>2, <2>1 DEF PadDir
<1> QED BY <1>7, <1>8, <1>9, <1>10, <1>11

-------------------------------------------------------------------------------
(* The bit of a vector that is meant for an interrupt path of a cpu. *)
BitOf(t) == <<Irqs(t.cpu), ToString(t.path)>>

(* A group of a set of irqs that is not shared has its one irq alone. *)
LEMMA AloneInGroup ==
  ASSUME NEW tuples, IsFiniteSet(tuples), NEW t \in tuples, ~IsShared(tuples, t)
  PROVE  \A u \in tuples : u.cpu = t.cpu /\ u.path = t.path => u = t
<1> DEFINE G == Group(tuples, <<t.cpu, t.path>>)
<1>1. IsFiniteSet(G) /\ t \in G BY FS_Subset DEF Group
<1>2. Cardinality(G) \in Nat /\ ~(Cardinality(G) > 1) BY <1>1, FS_CardinalityType DEF IsShared
<1>3. Cardinality(G) # 0 BY <1>1, FS_EmptySet
<1>4. PICK x : G = {x} BY <1>1, <1>2, <1>3, Single
<1>5. ASSUME NEW u \in tuples, u.cpu = t.cpu, u.path = t.path PROVE u = t
  <2>1. u \in G BY <1>5 DEF Group
  <2> QED BY <1>1, <1>4, <2>1
<1> QED BY <1>5

(* A bit of a controller's vector has one driver, if different cpus have vectors of   *)
(* different names and different paths different bits: an irq that is alone on its    *)
(* path is on its bit alone, and never beside an or (setOverride and buildIRQ of      *)
(* irq.go, which decide by the size of the group for each irq anew).                  *)
THEOREM BitsHaveOneDriver ==
  ASSUME NEW design, NEW tuples, IsFiniteSet(tuples),
         \A t, u \in tuples : BitOf(t) = BitOf(u) => t.cpu = u.cpu /\ t.path = u.path,
         NEW t \in tuples, NEW u \in tuples, t.cpu \in AicCpus(design), u.cpu \in AicCpus(design), t # u,
         ~IsShared(tuples, t)
  PROVE  /\ Actual(design, tuples, t) = BitOf(t)
         /\ ~IsShared(tuples, u) => Actual(design, tuples, t) # Actual(design, tuples, u)
         /\ IsShared(tuples, u) => Actual(design, tuples, t) # BitOf(u)
<1>1. Actual(design, tuples, t) = BitOf(t) /\ (~IsShared(tuples, u) => Actual(design, tuples, u) = BitOf(u))
  BY DEF Actual, BitOf
<1>2. BitOf(t) # BitOf(u) BY AloneInGroup
<1> QED BY <1>1, <1>2

-------------------------------------------------------------------------------
(* Least and largest numbers, and powers of two. An induction is over the set of the *)
(* numbers that have what is shown: a number that has it not would have a least.     *)

(* The order of the natural numbers. *)
Less == {p \in Nat \X Nat : p[1] < p[2]}
(* A set of natural numbers has a least one. *)
LEMMA LeastNumber ==
  ASSUME NEW T \in SUBSET Nat, T # {}
  PROVE  \E x \in T : \A y \in T : x <= y
<1>1. IsWellFoundedOn(Less, Nat) BY NatLessThanWellFounded DEF OpToRel, Less
<1>2. PICK x \in T : \A y \in T : ~ (<<y, x>> \in Less) BY <1>1, WFMin
<1>3. \A y \in T : ~ (y < x) BY <1>2 DEF Less
<1> QED BY <1>2, <1>3

(* Induction, for a set in the place of a formula. *)
LEMMA AllNumbers ==
  ASSUME NEW T \in SUBSET Nat, 0 \in T, \A n \in T : n + 1 \in T
  PROVE  T = Nat
<1>1. SUFFICES ASSUME Nat \ T # {} PROVE FALSE OBVIOUS
<1>2. PICK x \in Nat \ T : \A y \in Nat \ T : x <= y BY <1>1, LeastNumber
<1>3. x # 0 /\ x - 1 \in Nat BY <1>2
<1>4. x - 1 \in T BY <1>2, <1>3
<1> QED BY <1>2, <1>4

(* And a largest one, if there is a bound. *)
LEMMA LargestNumber ==
  ASSUME NEW n \in Nat, NEW T \in SUBSET (0..n), T # {}
  PROVE  \E x \in T : \A y \in T : y <= x
<1> DEFINE U == {u \in Nat : n - u \in T}
<1>1. U \in SUBSET Nat /\ U # {}
  <2>1. PICK x \in T : TRUE OBVIOUS
  <2>2. n - x \in Nat /\ n - (n - x) = x OBVIOUS
  <2> QED BY <2>1, <2>2
<1>2. PICK u \in U : \A y \in U : u <= y BY <1>1, LeastNumber
<1>3. ASSUME NEW y \in T PROVE y <= n - u
  <2>1. n - y \in Nat /\ n - (n - y) = y OBVIOUS
  <2>2. u <= n - y BY <1>2, <2>1
  <2> QED BY <1>2, <2>2
<1> QED BY <1>2, <1>3

(* The values that the recursion of Pow2 has up to n. *)
Doubling(n, g) == g \in [0..n -> Nat] /\ g[0] = 1 /\ \A k \in 1..n : g[k] = 2 * g[k - 1]

(* There are such values up to every n, and only one for each number: Pow2 has them. *)
LEMMA DoublingExists == \A n \in Nat : \E g : Doubling(n, g)
<1> DEFINE T == {n \in Nat : \E g : Doubling(n, g)}
<1>1. 0 \in T
  <2>1. Doubling(0, [k \in 0..0 |-> 1]) BY DEF Doubling
  <2> QED BY <2>1
<1>2. ASSUME NEW n \in T PROVE n + 1 \in T
  <2>1. PICK g : Doubling(n, g) OBVIOUS
  <2> DEFINE h == [k \in 0..n + 1 |-> IF k = n + 1 THEN 2 * g[n] ELSE g[k]]
  <2>2. Doubling(n + 1, h)
    <3>1. g \in [0..n -> Nat] /\ g[0] = 1 /\ \A k \in 1..n : g[k] = 2 * g[k - 1] BY <2>1 DEF Doubling
    <3>2. h \in [0..n + 1 -> Nat] BY <3>1
    <3>3. h[0] = 1 BY <3>1
    <3>4. ASSUME NEW k \in 1..n + 1 PROVE h[k] = 2 * h[k - 1]
      <4>1. CASE k = n + 1 BY <4>1, <3>1
      <4>2. CASE k # n + 1
        <5>1. k \in 1..n /\ k - 1 \in 0..n /\ k \in 0..n + 1 /\ k - 1 \in 0..n + 1 BY <4>2
        <5>2. h[k] = g[k] /\ h[k - 1] = g[k - 1] BY <5>1, <4>2
        <5> QED BY <5>1, <5>2, <3>1
      <4> QED BY <4>1, <4>2
    <3> HIDE DEF h
    <3> QED BY <3>2, <3>3, <3>4 DEF Doubling
  <2> HIDE DEF h
  <2> QED BY <2>2
<1> HIDE DEF T
<1>3. T = Nat 
  <2>1. T \in SUBSET Nat BY DEF T
  <2> QED BY <1>1, <1>2, <2>1, AllNumbers
<1> QED BY <1>3 DEF T

(* Two such lists of values agree as far as both go. *)
LEMMA DoublingUnique ==
  ASSUME NEW m \in Nat, NEW n \in Nat, NEW g, NEW h, Doubling(m, g), Doubling(n, h)
  PROVE  \A k \in 0..m : k <= n => g[k] = h[k]
<1> DEFINE T == {k \in Nat : k <= m /\ k <= n => g[k] = h[k]}
<1>1. 0 \in T BY DEF Doubling
<1>2. ASSUME NEW k \in T PROVE k + 1 \in T
  <2>1. ASSUME k + 1 <= m, k + 1 <= n PROVE g[k + 1] = h[k + 1]
    <3>1. g[k] = h[k] BY <2>1
    <3>2. k + 1 \in 1..m /\ k + 1 \in 1..n /\ (k + 1) - 1 = k BY <2>1
    <3> QED BY <3>1, <3>2 DEF Doubling
  <2> QED BY <2>1
<1> HIDE DEF T
<1>3. T = Nat
  <2>1. T \in SUBSET Nat BY DEF T
  <2> QED BY <1>1, <1>2, <2>1, AllNumbers
<1> QED BY <1>3 DEF T

(* What Pow2 computes. *)
LEMMA Pow2Def == Pow2 = [n \in Nat |-> IF n = 0 THEN 1 ELSE 2 * Pow2[n - 1]]
<1> DEFINE g(n) == CHOOSE g : Doubling(n, g)
           f == [n \in Nat |-> g(n)[n]]
<1>1. \A n \in Nat : Doubling(n, g(n)) BY DoublingExists
<1> HIDE DEF g
<1>2. ASSUME NEW n \in Nat PROVE f[n] = IF n = 0 THEN 1 ELSE 2 * f[n - 1]
  <2>1. CASE n = 0
    <3>1. Doubling(0, g(0)) BY <1>1
    <3> QED BY <2>1, <3>1 DEF Doubling
  <2>2. CASE n # 0
    <3>1. n - 1 \in Nat /\ n \in 1..n /\ n - 1 \in 0..n - 1 /\ n - 1 <= n BY <2>2
    <3>2. Doubling(n, g(n)) /\ Doubling(n - 1, g(n - 1)) BY <1>1, <3>1
    <3>3. g(n)[n] = 2 * g(n)[n - 1] BY <3>1, <3>2 DEF Doubling
    <3>4. g(n)[n - 1] = g(n - 1)[n - 1]
      <4>1. \A k \in 0..n - 1 : k <= n => g(n - 1)[k] = g(n)[k] BY <3>1, <3>2, DoublingUnique
      <4> QED BY <4>1, <3>1
    <3> QED BY <3>1, <3>3, <3>4, <2>2
  <2> QED BY <2>1, <2>2
<1>3. f = [n \in Nat |-> IF n = 0 THEN 1 ELSE 2 * f[n - 1]]
  <2> HIDE DEF f
  <2>1. f = [n \in Nat |-> f[n]] BY DEF f
  <2> QED BY <2>1, <1>2
<1> HIDE DEF f
<1>4. \E h : h = [n \in Nat |-> IF n = 0 THEN 1 ELSE 2 * h[n - 1]] BY <1>3
<1> QED BY <1>4 DEF Pow2

(* Pow2 starts with 1 and doubles. *)
LEMMA Pow2Facts ==
  /\ Pow2[0] = 1
  /\ \A n \in Nat : Pow2[n] \in Nat \ {0} /\ Pow2[n + 1] = 2 * Pow2[n]
<1>1. Pow2[0] = 1 BY Pow2Def
<1>2. ASSUME NEW n \in Nat PROVE Pow2[n + 1] = 2 * Pow2[n]
  <2>1. n + 1 \in Nat /\ n + 1 # 0 /\ (n + 1) - 1 = n OBVIOUS
  <2> QED BY <2>1, Pow2Def
<1> DEFINE T == {n \in Nat : Pow2[n] \in Nat \ {0}}
<1>3. T = Nat
  <2>1. 0 \in T BY <1>1
  <2>2. \A n \in T : n + 1 \in T BY <1>2
  <2>3. T \in SUBSET Nat OBVIOUS
  <2> HIDE DEF T
  <2> QED BY <2>1, <2>2, <2>3, AllNumbers
<1> QED BY <1>1, <1>2, <1>3

(* Powers of two that go into each other. *)
LEMMA Pow2Grows ==
  ASSUME NEW m \in Nat, NEW n \in Nat, m <= n
  PROVE  Pow2[m] <= Pow2[n]
<1> DEFINE T == {k \in Nat : Pow2[m] <= Pow2[m + k]}
<1>1. T = Nat
  <2>1. 0 \in T BY Pow2Facts
  <2>2. ASSUME NEW k \in T PROVE k + 1 \in T
    <3>1. m + k \in Nat /\ m + (k + 1) = (m + k) + 1 OBVIOUS
    <3>2. Pow2[m + (k + 1)] = 2 * Pow2[m + k] /\ Pow2[m + k] \in Nat BY <3>1, Pow2Facts
    <3>3. Pow2[m] <= Pow2[m + k] /\ Pow2[m] \in Nat BY Pow2Facts
    <3>4. Pow2[m] <= Pow2[m + (k + 1)] BY <3>2, <3>3
    <3> QED BY <3>4
  <2>3. T \in SUBSET Nat OBVIOUS
  <2> HIDE DEF T
  <2> QED BY <2>1, <2>2, <2>3, AllNumbers
<1>2. n - m \in Nat /\ m + (n - m) = n OBVIOUS
<1>3. n - m \in T BY <1>1, <1>2
<1> QED BY <1>2, <1>3

(* A number above bit i is its bit i and the number above that. *)
LEMMA NextBit ==
  ASSUME NEW a \in Nat, NEW i \in Nat
  PROVE  /\ Bit(a, i) \in {0, 1}
         /\ a \div Pow2[i] \in Nat
         /\ a \div Pow2[i] = 2 * (a \div Pow2[i + 1]) + Bit(a, i)
<1> DEFINE m == Pow2[i]
<1>1. m \in Nat \ {0} /\ Pow2[i + 1] = 2 * m BY Pow2Facts
<1> HIDE DEF m
<1>2. a \div m \in Nat BY <1>1
<1>3. (a \div m) \div 2 = a \div (2 * m) BY <1>1
<1>4. (a \div m) % 2 \in {0, 1} /\ a \div m = 2 * ((a \div m) \div 2) + ((a \div m) % 2)
  <2>1. \A x \in Nat : x % 2 \in {0, 1} /\ x = 2 * (x \div 2) + (x % 2) OBVIOUS
  <2> QED BY <1>2, <2>1
<1>5. Bit(a, i) = (a \div m) % 2 BY DEF Bit, m
<1> QED BY <1>1, <1>2, <1>3, <1>4, <1>5 DEF m

(* The numbers above bit w are equal if the bits from w on are. *)
LEMMA SameBits ==
  ASSUME NEW n \in Nat, NEW w \in 0..n,
         NEW a \in 0..Pow2[n] - 1, NEW b \in 0..Pow2[n] - 1
  PROVE  a \div Pow2[w] = b \div Pow2[w] <=> \A i \in w..n - 1 : Bit(a, i) = Bit(b, i)
<1>0. a \in Nat /\ b \in Nat /\ Pow2[n] \in Nat \ {0} /\ w \in Nat BY Pow2Facts
<1>1. ASSUME a \div Pow2[w] = b \div Pow2[w], NEW i \in w..n - 1 PROVE Bit(a, i) = Bit(b, i)
  <2> DEFINE T == {k \in Nat : a \div Pow2[w + k] = b \div Pow2[w + k]}
  <2>1. T = Nat
    <3>1. 0 \in T BY <1>1
    <3>2. ASSUME NEW k \in T PROVE k + 1 \in T
      <4>1. w + k \in Nat /\ w + (k + 1) = (w + k) + 1 OBVIOUS
      <4>2. a \div Pow2[w + k] = 2 * (a \div Pow2[w + (k + 1)]) + Bit(a, w + k) BY <1>0, <4>1, NextBit
      <4>3. b \div Pow2[w + k] = 2 * (b \div Pow2[w + (k + 1)]) + Bit(b, w + k) BY <1>0, <4>1, NextBit
      <4>4. Bit(a, w + k) \in {0, 1} /\ Bit(b, w + k) \in {0, 1} BY <1>0, <4>1, NextBit
      <4>5. a \div Pow2[w + (k + 1)] \in Nat /\ b \div Pow2[w + (k + 1)] \in Nat BY <1>0, <4>1, NextBit
      <4>6. a \div Pow2[w + k] = b \div Pow2[w + k] OBVIOUS
      <4>7. a \div Pow2[w + (k + 1)] = b \div Pow2[w + (k + 1)] BY <4>2, <4>3, <4>4, <4>5, <4>6
      <4> QED BY <4>7
    <3>3. T \in SUBSET Nat OBVIOUS
    <3> HIDE DEF T
    <3> QED BY <3>1, <3>2, <3>3, AllNumbers
  <2>2. i - w \in Nat /\ w + (i - w) = i BY <1>0
  <2>3. i - w \in T BY <2>1, <2>2
  <2>4. a \div Pow2[i] = b \div Pow2[i] BY <2>2, <2>3
  <2> QED BY <2>4 DEF Bit
<1>2. ASSUME \A i \in w..n - 1 : Bit(a, i) = Bit(b, i) PROVE a \div Pow2[w] = b \div Pow2[w]
  <2> DEFINE T == {k \in Nat : k <= n - w => a \div Pow2[n - k] = b \div Pow2[n - k]}
  <2>1. T = Nat
    <3>1. 0 \in T
      <4>1. a \div Pow2[n] = 0 /\ b \div Pow2[n] = 0
        <5> DEFINE m == Pow2[n]
        <5>1. m \in Nat \ {0} /\ a \in 0..m - 1 /\ b \in 0..m - 1 BY <1>0
        <5> HIDE DEF m
        <5>2. a \div m = 0 /\ b \div m = 0 BY <5>1
        <5> QED BY <5>2 DEF m
      <4>2. n - 0 = n OBVIOUS
      <4> QED BY <4>1, <4>2
    <3>2. ASSUME NEW k \in T, k + 1 <= n - w PROVE a \div Pow2[n - (k + 1)] = b \div Pow2[n - (k + 1)]
      <4> DEFINE i == n - (k + 1)
      <4>1. i \in w..n - 1 /\ i \in Nat /\ n - k = i + 1 /\ k <= n - w BY <3>2
      <4> HIDE DEF i
      <4>2. a \div Pow2[i + 1] = b \div Pow2[i + 1] BY <4>1
      <4>3. a \div Pow2[i] = 2 * (a \div Pow2[i + 1]) + Bit(a, i) BY <1>0, <4>1, NextBit
      <4>4. b \div Pow2[i] = 2 * (b \div Pow2[i + 1]) + Bit(b, i) BY <1>0, <4>1, NextBit
      <4>5. a \div Pow2[i] = b \div Pow2[i] BY <1>2, <4>1, <4>2, <4>3, <4>4
      <4> QED BY <4>5 DEF i
    <3>3. T \in SUBSET Nat /\ \A k \in T : k + 1 \in T BY <3>2
    <3> HIDE DEF T
    <3> QED BY <3>1, <3>3, AllNumbers
  <2>2. n - w \in Nat /\ n - (n - w) = w BY <1>0
  <2>3. n - w \in T BY <2>1, <2>2
  <2> QED BY <2>2, <2>3
<1> QED BY <1>1, <1>2

-------------------------------------------------------------------------------
(* Strings of bits, and the string of an address. *)

(* Strings of bits, the highest first. *)
Strings == Seq({0, 1})

(* A prefix is shorter and has the same bits. *)
LEMMA PrefixBits ==
  ASSUME NEW s \in Strings, NEW t \in Strings
  PROVE  /\ IsPrefix(s, t) <=> Len(s) <= Len(t) /\ \A j \in 1..Len(s) : s[j] = t[j]
         /\ IsStrictPrefix(s, t) <=> Len(s) < Len(t) /\ \A j \in 1..Len(s) : s[j] = t[j]
<1>1. Len(s) \in Nat /\ Len(t) \in Nat BY DEF Strings
<1>2. ASSUME Len(s) <= Len(t)
      PROVE  SubSeq(s, 1, Len(s)) = SubSeq(t, 1, Len(s)) <=> \A j \in 1..Len(s) : s[j] = t[j]
  <2>1. SubSeq(s, 1, Len(s)) = [j \in 1..Len(s) |-> s[j]] BY <1>1, <1>2, SubSeqProperties DEF Strings
  <2>2. SubSeq(t, 1, Len(s)) = [j \in 1..Len(s) |-> t[j]] BY <1>1, <1>2, SubSeqProperties DEF Strings
  <2> QED BY <2>1, <2>2
<1>3. IsPrefix(s, t) <=> Len(s) <= Len(t) /\ \A j \in 1..Len(s) : s[j] = t[j] BY <1>2 DEF IsPrefix
<1>4. ASSUME Len(s) = Len(t), \A j \in 1..Len(s) : s[j] = t[j] PROVE s = t
  BY <1>4, SeqEqual DEF Strings
<1> QED BY <1>1, <1>3, <1>4 DEF IsStrictPrefix

(* The first n bits of a string. *)
LEMMA FirstBits ==
  ASSUME NEW s \in Strings, NEW n \in 0..Len(s)
  PROVE  /\ SubSeq(s, 1, n) \in Strings
         /\ Len(SubSeq(s, 1, n)) = n
         /\ \A j \in 1..n : SubSeq(s, 1, n)[j] = s[j]
<1>1. Len(s) \in Nat BY DEF Strings
<1>2. SubSeq(s, 1, n) = [j \in 1..n |-> s[j]] BY <1>1 DEF Strings
<1>3. \A j \in 1..n : s[j] \in {0, 1} BY <1>1 DEF Strings
<1>4. [j \in 1..n |-> s[j]] \in Seq({0, 1}) BY <1>1, <1>3
<1>5. Len([j \in 1..n |-> s[j]]) = n BY <1>1
<1> QED BY <1>2, <1>4, <1>5 DEF Strings

(* The bits of an address. *)
LEMMA AddressBits ==
  ASSUME NEW a \in Nat
  PROVE  /\ Bits(a) \in Strings
         /\ Len(Bits(a)) = AddrBits
         /\ \A j \in 1..AddrBits : Bits(a)[j] = Bit(a, AddrBits - j)
<1>1. AddrBits \in Nat BY AddressAssumption
<1>2. \A j \in 1..AddrBits : Bit(a, AddrBits - j) \in {0, 1} BY <1>1, NextBit
<1> QED BY <1>1, <1>2 DEF Bits, Strings

(* What two addresses have in common from bit w on. *)
LEMMA SameFirstBits ==
  ASSUME NEW w \in 0..AddrBits, NEW a \in 0..Pow2[AddrBits] - 1, NEW b \in 0..Pow2[AddrBits] - 1
  PROVE  a \div Pow2[w] = b \div Pow2[w] <=> \A j \in 1..AddrBits - w : Bits(a)[j] = Bits(b)[j]
<1>1. AddrBits \in Nat /\ Pow2[AddrBits] \in Nat /\ a \in Nat /\ b \in Nat BY AddressAssumption, Pow2Facts
<1>2. \A i \in w..AddrBits - 1 : AddrBits - i \in 1..AddrBits - w /\ AddrBits - (AddrBits - i) = i BY <1>1
<1>3. \A j \in 1..AddrBits - w : AddrBits - j \in w..AddrBits - 1 /\ j \in 1..AddrBits BY <1>1
<1>4. (\A i \in w..AddrBits - 1 : Bit(a, i) = Bit(b, i))
      <=> \A j \in 1..AddrBits - w : Bit(a, AddrBits - j) = Bit(b, AddrBits - j)
  BY <1>2, <1>3
<1>5. \A j \in 1..AddrBits - w : Bits(a)[j] = Bit(a, AddrBits - j) /\ Bits(b)[j] = Bit(b, AddrBits - j)
  BY <1>1, <1>3, AddressBits
<1> QED BY <1>1, <1>4, <1>5, SameBits

(* An aligned window holds the addresses that begin with its device's prefix. *)
LEMMA WindowIsPrefix ==
  ASSUME NEW left \in Nat, left + 1 <= AddrBits, NEW base \in 0..Pow2[AddrBits] - 1,
         base % Window(left) = 0, NEW a \in 0..Pow2[AddrBits] - 1
  PROVE  base <= a /\ a <= base + Window(left) - 1
         <=> IsPrefix(SubSeq(Bits(base), 1, AddrBits - left - 1), Bits(a))
<1> DEFINE m == Pow2[left + 1]
           n == AddrBits - left - 1
           s == SubSeq(Bits(base), 1, n)
<1>1. AddrBits \in Nat /\ Pow2[AddrBits] \in Nat /\ a \in Nat /\ base \in Nat /\ m \in Nat \ {0}
      /\ n \in 0..AddrBits /\ left + 1 \in 0..AddrBits /\ n = AddrBits - (left + 1)
  BY AddressAssumption, Pow2Facts
<1>2. base <= a /\ a <= base + m - 1 <=> a \div m = base \div m
  <2>1. base % m = 0 BY DEF Window
  <2> HIDE DEF m
  <2>2. base = m * (base \div m) BY <1>1, <2>1
  <2>3. base \div m \in Nat /\ a \div m \in Nat BY <1>1
  <2>4. m * (a \div m) <= a /\ a < m * (a \div m) + m BY <1>1
  <2> DEFINE p == base \div m
             q == a \div m
  <2>5. p \in Nat /\ q \in Nat /\ base = m * p /\ m * q <= a /\ a < m * q + m BY <2>2, <2>3, <2>4
  <2> HIDE DEF p, q
  <2>6. CASE q = p BY <1>1, <2>5, <2>6 DEF p, q
  <2>7. CASE q < p
    <3>1. q + 1 <= p BY <2>5, <2>7
    <3>2. m * (q + 1) <= m * p BY <1>1, <2>5, <3>1
    <3>3. m * (q + 1) = m * q + m BY <1>1, <2>5
    <3> QED BY <1>1, <2>5, <2>7, <3>2, <3>3 DEF p, q
  <2>8. CASE p < q
    <3>1. p + 1 <= q BY <2>5, <2>8
    <3>2. m * (p + 1) <= m * q BY <1>1, <2>5, <3>1
    <3>3. m * (p + 1) = m * p + m BY <1>1, <2>5
    <3> QED BY <1>1, <2>5, <2>8, <3>2, <3>3 DEF p, q
  <2> QED BY <2>5, <2>6, <2>7, <2>8
<1> HIDE DEF n
<1>3. s \in Strings /\ Len(s) = n /\ \A j \in 1..n : s[j] = Bits(base)[j]
  <2>1. Bits(base) \in Strings /\ Len(Bits(base)) = AddrBits BY <1>1, AddressBits
  <2> QED BY <1>1, <2>1, FirstBits
<1>4. IsPrefix(s, Bits(a)) <=> \A j \in 1..n : Bits(base)[j] = Bits(a)[j]
  <2>1. Bits(a) \in Strings /\ Len(Bits(a)) = AddrBits BY <1>1, AddressBits
  <2> HIDE DEF s
  <2> QED BY <1>1, <1>3, <2>1, PrefixBits
<1>5. a \div m = base \div m <=> \A j \in 1..n : Bits(base)[j] = Bits(a)[j]
  <2>1. base \div Pow2[left + 1] = a \div Pow2[left + 1] <=> \A j \in 1..AddrBits - (left + 1) : Bits(base)[j] = Bits(a)[j]
    BY <1>1, SameFirstBits
  <2> QED BY <1>1, <2>1
<1>6. Window(left) = m BY DEF Window
<1> HIDE DEF m, s
<1> QED BY <1>2, <1>4, <1>5, <1>6 DEF n, s

(* Prefixes none of which goes on as another one. *)
Apart(prefixes) ==
    /\ \A i \in DOMAIN prefixes : prefixes[i] \in Strings
    /\ \A i, k \in DOMAIN prefixes : IsPrefix(prefixes[i], prefixes[k]) => i = k

(* Prefixes of a string are its first bits, and go on to each other. *)
LEMMA PrefixOrder ==
  ASSUME NEW s \in Strings, NEW t \in Strings, IsPrefix(s, t)
  PROVE  /\ Len(s) \in 0..Len(t) /\ Len(t) \in Nat
         /\ s = SubSeq(t, 1, Len(s))
         /\ \A j \in 1..Len(s) : s[j] = t[j]
<1>1. Len(s) \in Nat /\ Len(t) \in Nat BY DEF Strings
<1>2. Len(s) <= Len(t) /\ \A j \in 1..Len(s) : s[j] = t[j] BY PrefixBits
<1>3. SubSeq(t, 1, Len(s)) \in Strings /\ Len(SubSeq(t, 1, Len(s))) = Len(s)
      /\ \A j \in 1..Len(s) : SubSeq(t, 1, Len(s))[j] = t[j]
  BY <1>1, <1>2, FirstBits
<1>4. s = SubSeq(t, 1, Len(s)) BY <1>2, <1>3, SeqEqual DEF Strings
<1> QED BY <1>1, <1>2, <1>4

(* The first bits of a string that is a prefix of it. *)
LEMMA FirstBitsArePrefix ==
  ASSUME NEW s \in Strings, NEW n \in 0..Len(s)
  PROVE  /\ SubSeq(s, 1, n) \in Strings /\ Len(SubSeq(s, 1, n)) = n
         /\ IsPrefix(SubSeq(s, 1, n), s)
         /\ n < Len(s) => IsStrictPrefix(SubSeq(s, 1, n), s)
<1>1. Len(s) \in Nat BY DEF Strings
<1> DEFINE u == SubSeq(s, 1, n)
<1>2. u \in Strings /\ Len(u) = n /\ \A j \in 1..n : u[j] = s[j] BY FirstBits
<1> HIDE DEF u
<1>3. IsPrefix(u, s) /\ (n < Len(s) => IsStrictPrefix(u, s)) BY <1>1, <1>2, PrefixBits
<1> QED BY <1>2, <1>3 DEF u

(* A prefix of a prefix. *)
LEMMA PrefixTransitive ==
  ASSUME NEW s \in Strings, NEW t \in Strings, NEW u \in Strings, IsPrefix(s, t), IsPrefix(t, u)
  PROVE  IsPrefix(s, u)
<1>1. Len(s) \in 0..Len(t) /\ Len(t) \in 0..Len(u) /\ Len(u) \in Nat BY PrefixOrder
<1>2. \A j \in 1..Len(s) : s[j] = t[j] /\ j \in 1..Len(t) BY <1>1, PrefixOrder
<1>3. \A j \in 1..Len(t) : t[j] = u[j] BY PrefixOrder
<1> QED BY <1>1, <1>2, <1>3, PrefixBits

(* Two strings neither of which goes on as the other part at a bit. *)
LEMMA FirstDifference ==
  ASSUME NEW s \in Strings, NEW t \in Strings, ~IsPrefix(s, t), ~IsPrefix(t, s)
  PROVE  \E m \in Nat : /\ m < Len(s) /\ m < Len(t)
                        /\ \A j \in 1..m : s[j] = t[j]
                        /\ s[m + 1] # t[m + 1]
<1>1. Len(s) \in Nat /\ Len(t) \in Nat BY DEF Strings
<1> DEFINE D == {j \in Nat : j \in 1..Len(s) /\ j \in 1..Len(t) /\ s[j] # t[j]}
<1>2. D # {} BY <1>1, PrefixBits
<1>3. PICK x \in D : \A y \in D : x <= y
  <2>1. D \in SUBSET Nat OBVIOUS
  <2> HIDE DEF D
  <2> QED BY <1>2, <2>1, LeastNumber
<1>4. x \in 1..Len(s) /\ x \in 1..Len(t) /\ s[x] # t[x] OBVIOUS
<1>5. x - 1 \in Nat /\ x - 1 < Len(s) /\ x - 1 < Len(t) /\ (x - 1) + 1 = x BY <1>1, <1>4
<1>6. ASSUME NEW j \in 1..x - 1 PROVE s[j] = t[j]
  <2>1. j \in Nat /\ j \in 1..Len(s) /\ j \in 1..Len(t) /\ ~(x <= j) BY <1>1, <1>4
  <2>2. j \notin D BY <1>3, <2>1
  <2> QED BY <2>1, <2>2
<1> QED BY <1>4, <1>5, <1>6

(* A string with one bit more. *)
LEMMA OneBitMore ==
  ASSUME NEW p \in Strings, NEW k \in {0, 1}
  PROVE  /\ Append(p, k) \in Strings /\ Len(Append(p, k)) = Len(p) + 1
         /\ Len(p) \in Nat
         /\ Append(p, k)[Len(p) + 1] = k
         /\ \A j \in 1..Len(p) : Append(p, k)[j] = p[j]
BY AppendProperties DEF Strings

(* A string goes on from p with the bit k if it is longer and has that bit next. *)
LEMMA KidBits ==
  ASSUME NEW p \in Strings, NEW k \in {0, 1}, NEW t \in Strings
  PROVE  IsPrefix(Append(p, k), t) <=> Len(p) < Len(t) /\ IsPrefix(p, t) /\ t[Len(p) + 1] = k
<1> DEFINE u == Append(p, k)
<1>1. u \in Strings /\ Len(u) = Len(p) + 1 /\ Len(p) \in Nat /\ u[Len(p) + 1] = k
      /\ \A j \in 1..Len(p) : u[j] = p[j]
  BY OneBitMore
<1>2. Len(t) \in Nat BY DEF Strings
<1> HIDE DEF u
<1>3. IsPrefix(u, t) <=> Len(u) <= Len(t) /\ \A j \in 1..Len(u) : u[j] = t[j] BY <1>1, PrefixBits
<1>4. IsPrefix(p, t) <=> Len(p) <= Len(t) /\ \A j \in 1..Len(p) : p[j] = t[j] BY PrefixBits
<1>5. (\A j \in 1..Len(u) : u[j] = t[j]) <=> (\A j \in 1..Len(p) : p[j] = t[j]) /\ t[Len(p) + 1] = k
  <2>1. \A j \in 1..Len(u) : j \in 1..Len(p) \/ j = Len(p) + 1 BY <1>1
  <2>2. Len(p) + 1 \in 1..Len(u) /\ \A j \in 1..Len(p) : j \in 1..Len(u) BY <1>1
  <2> QED BY <1>1, <2>1, <2>2
<1>6. IsPrefix(u, t) <=> Len(p) < Len(t) /\ IsPrefix(p, t) /\ t[Len(p) + 1] = k
  BY <1>1, <1>2, <1>3, <1>4, <1>5
<1> QED BY <1>6 DEF u

(* Where two of the strings part, the trie forks. *)
LEMMA PartsAtFork ==
  ASSUME NEW P, \A i \in DOMAIN P : P[i] \in Strings, NEW i \in DOMAIN P, NEW k \in DOMAIN P,
         NEW m \in Nat, m < Len(P[i]), m < Len(P[k]), \A j \in 1..m : P[i][j] = P[k][j],
         P[i][m + 1] # P[k][m + 1]
  PROVE  Forks(P, SubSeq(P[i], 1, m))
<1> DEFINE p == SubSeq(P[i], 1, m)
<1>1. Len(P[i]) \in Nat /\ Len(P[k]) \in Nat BY DEF Strings
<1>2. p \in Strings /\ Len(p) = m /\ \A j \in 1..m : p[j] = P[i][j] BY <1>1, FirstBits
<1> HIDE DEF p
<1>3. IsPrefix(p, P[i]) /\ IsPrefix(p, P[k]) BY <1>1, <1>2, PrefixBits
<1>4. P[i][m + 1] \in {0, 1} /\ P[k][m + 1] \in {0, 1}
  <2>1. m + 1 \in 1..Len(P[i]) /\ m + 1 \in 1..Len(P[k]) BY <1>1
  <2> QED BY <2>1 DEF Strings
<1>5. HasKid(P, p, P[i][m + 1]) /\ HasKid(P, p, P[k][m + 1])
  <2>1. IsPrefix(Append(p, P[i][m + 1]), P[i]) BY <1>2, <1>3, <1>4, KidBits
  <2>2. IsPrefix(Append(p, P[k][m + 1]), P[k]) BY <1>2, <1>3, <1>4, KidBits
  <2> QED BY <2>1, <2>2 DEF HasKid
<1>6. Forks(P, p) BY <1>4, <1>5 DEF Forks
<1> QED BY <1>6 DEF p

(* extractPrefix: the strings below p have the string where it stops in common. *)
LEMMA Extracted ==
  ASSUME NEW P, \A i \in DOMAIN P : P[i] \in Strings, NEW p \in Strings,
         \E i \in DOMAIN P : IsPrefix(p, P[i])
  PROVE  LET t == ExtractPrefix(P, p)
         IN  /\ t \in Strings /\ IsPrefix(p, t) /\ Stops(P, t)
             /\ \A i \in DOMAIN P : IsPrefix(p, P[i]) => IsPrefix(t, P[i])
<1> DEFINE c == CHOOSE i \in DOMAIN P : IsPrefix(p, P[i])
           q == P[c]
           N == {n \in Len(p)..Len(q) : Stops(P, SubSeq(q, 1, n))}
           n == Min(N)
           t == SubSeq(q, 1, n)
<1>1. c \in DOMAIN P /\ IsPrefix(p, P[c]) OBVIOUS
<1> HIDE DEF c
<1>2. q \in Strings /\ Len(p) \in 0..Len(q) /\ Len(q) \in Nat /\ Len(p) \in Nat BY <1>1, PrefixOrder DEF Strings
<1>3. Len(q) \in N
  <2>1. SubSeq(q, 1, Len(q)) = q BY <1>2 DEF Strings
  <2>2. Stops(P, q) BY <1>1 DEF Stops, IsLeaf
  <2>3. Stops(P, SubSeq(q, 1, Len(q))) BY <2>1, <2>2
  <2>4. Len(q) \in Len(p)..Len(q) BY <1>2
  <2> HIDE DEF q
  <2> QED BY <2>3, <2>4
<1>4. n \in N /\ \A y \in N : n <= y
  <2>1. N \in SUBSET Nat BY <1>2
  <2>2. PICK x \in N : \A y \in N : x <= y
    <3> HIDE DEF N
    <3> QED BY <1>3, <2>1, LeastNumber
  <2> HIDE DEF N
  <2> QED BY <2>2 DEF Min
<1>5. n \in Len(p)..Len(q) /\ n \in Nat /\ Stops(P, t) BY <1>2, <1>4
<1>6. \A m \in Len(p)..Len(q) : Stops(P, SubSeq(q, 1, m)) => n <= m BY <1>4
<1> HIDE DEF N, n
<1>7. t \in Strings /\ Len(t) = n /\ \A j \in 1..n : t[j] = q[j] BY <1>2, <1>5, FirstBits
<1>8. \A j \in 1..Len(p) : p[j] = q[j] BY <1>1, <1>2, PrefixOrder
<1>9. IsPrefix(p, t)
  <2>1. \A j \in 1..Len(p) : p[j] = t[j] /\ Len(p) <= Len(t) BY <1>2, <1>5, <1>7, <1>8
  <2>2. Len(p) <= Len(t) BY <1>2, <1>5, <1>7
  <2> HIDE DEF t
  <2> QED BY <1>7, <2>1, <2>2, PrefixBits
<1>10. ASSUME NEW i \in DOMAIN P, IsPrefix(p, P[i]), ~IsPrefix(t, P[i]) PROVE FALSE
  <2>1. P[i] \in Strings /\ Len(P[i]) \in Nat /\ Len(p) <= Len(P[i]) /\ \A j \in 1..Len(p) : p[j] = P[i][j]
    BY <1>10, PrefixOrder
  <2>2. CASE IsPrefix(P[i], t)
    <3>1. Len(P[i]) \in 0..Len(t) /\ \A j \in 1..Len(P[i]) : P[i][j] = t[j]
      <4> HIDE DEF t
      <4> QED BY <1>7, <2>1, <2>2, PrefixOrder
    <3>2. IsPrefix(P[i], q)
      <4>1. \A j \in 1..Len(P[i]) : P[i][j] = q[j] BY <1>5, <1>7, <2>1, <3>1
      <4>2. Len(P[i]) <= Len(q) BY <1>2, <1>5, <1>7, <3>1
      <4> QED BY <1>2, <2>1, <4>1, <4>2, PrefixBits
    <3>3. P[i] = SubSeq(q, 1, Len(P[i])) BY <1>2, <2>1, <3>2, PrefixOrder
    <3>4. Stops(P, SubSeq(q, 1, Len(P[i]))) BY <3>3 DEF Stops, IsLeaf
    <3>5. n <= Len(P[i]) BY <1>2, <1>5, <1>6, <1>7, <2>1, <3>1, <3>4
    <3>6. Len(P[i]) = Len(t) BY <1>5, <1>7, <3>1, <3>5
    <3>7. IsPrefix(t, P[i])
      <4> HIDE DEF t
      <4> QED BY <1>7, <2>1, <3>1, <3>6, PrefixBits
    <3> QED BY <1>10, <3>7
  <2>3. CASE ~IsPrefix(P[i], t)
    <3>1. PICK m \in Nat : /\ m < Len(t) /\ m < Len(P[i]) /\ \A j \in 1..m : t[j] = P[i][j]
                           /\ t[m + 1] # P[i][m + 1]
      <4> HIDE DEF t
      <4> QED BY <1>7, <1>10, <2>1, <2>3, FirstDifference
    <3>2. Len(p) <= m
      <4>1. SUFFICES ASSUME m + 1 \in 1..Len(p) PROVE FALSE BY <1>2
      <4>2. t[m + 1] = q[m + 1] BY <1>2, <1>5, <1>7, <3>1
      <4> QED BY <1>8, <2>1, <3>1, <4>1, <4>2
    <3>3. m < Len(q) /\ m < n /\ m + 1 \in 1..n BY <1>5, <1>7, <3>1
    <3>4. \A j \in 1..m : q[j] = P[i][j]
      <4>1. \A j \in 1..m : j \in 1..n BY <1>5, <3>3
      <4> HIDE DEF t
      <4> QED BY <1>7, <3>1, <4>1
    <3>5. q[m + 1] # P[i][m + 1] BY <1>7, <3>1, <3>3
    <3>6. Forks(P, SubSeq(q, 1, m)) BY <1>1, <3>1, <3>3, <3>4, <3>5, PartsAtFork
    <3>7. Stops(P, SubSeq(q, 1, m)) BY <3>6 DEF Stops
    <3> QED BY <1>2, <1>5, <1>6, <3>2, <3>3, <3>7
  <2> QED BY <2>2, <2>3
<1>11. t = ExtractPrefix(P, p) BY DEF ExtractPrefix, n, N, c
<1> HIDE DEF t
<1> QED BY <1>5, <1>7, <1>9, <1>10, <1>11

-------------------------------------------------------------------------------
(* The statements of the generated function. *)

(* Where extractPrefix stops there is a statement: the strings below it are not      *)
(* below the end of another one.                                                      *)
LEMMA StopHasStatement ==
  ASSUME NEW P, Apart(P), NEW p \in Strings, NEW i \in DOMAIN P, IsPrefix(p, P[i]), Stops(P, p)
  PROVE  p \in Statements(P)
<1>1. P[i] \in Strings BY DEF Apart
<1>2. p = SubSeq(P[i], 1, Len(p)) /\ Len(p) \in 0..Len(P[i]) BY <1>1, PrefixOrder
<1>3. ASSUME NEW k \in DOMAIN P, IsStrictPrefix(P[k], p) PROVE FALSE
  <2>1. P[k] \in Strings BY DEF Apart
  <2>2. IsPrefix(P[k], p) /\ Len(P[k]) < Len(p) BY <1>3, <2>1, PrefixBits DEF IsStrictPrefix
  <2>3. k = i BY <1>1, <2>1, <2>2, PrefixTransitive DEF Apart
  <2> QED BY <1>2, <2>2, <2>3
<1>4. p \in {SubSeq(P[i], 1, n) : n \in 0..Len(P[i])} BY <1>2
<1> QED BY <1>3, <1>4 DEF Statements, Beyond

(* A statement is at the first bits of one of the prefixes. *)
LEMMA StatementIsString ==
  ASSUME NEW P, Apart(P), NEW p \in Statements(P)
  PROVE  /\ p \in Strings /\ Stops(P, p)
         /\ \A k \in DOMAIN P : ~IsStrictPrefix(P[k], p)
<1>1. PICK i \in DOMAIN P : \E n \in 0..Len(P[i]) : p = SubSeq(P[i], 1, n) BY DEF Statements
<1>2. P[i] \in Strings BY DEF Apart
<1>3. p \in Strings BY <1>1, <1>2, FirstBits
<1> QED BY <1>3 DEF Statements, Beyond

(* The end of a prefix is the return of its device, and there are no other returns. *)
LEMMA Returns ==
  ASSUME NEW P, Apart(P)
  PROVE  /\ \A i \in DOMAIN P : P[i] \in Statements(P) /\ BuildIfs(P)[P[i]] = Return(i)
         /\ \A p \in Statements(P) : BuildIfs(P)[p].k = "return" => \E i \in DOMAIN P : p = P[i]
<1>1. ASSUME NEW i \in DOMAIN P PROVE P[i] \in Statements(P) /\ BuildIfs(P)[P[i]] = Return(i)
  <2>1. P[i] \in Strings /\ IsPrefix(P[i], P[i])
    <3>1. P[i] \in Strings BY DEF Apart
    <3> QED BY <3>1, PrefixBits DEF Strings
  <2>2. IsLeaf(P, P[i]) /\ Stops(P, P[i]) BY DEF IsLeaf, Stops
  <2>3. P[i] \in Statements(P) BY <2>1, <2>2, StopHasStatement
  <2>4. \A k \in DOMAIN P : P[k] = P[i] => k = i BY <2>1 DEF Apart
  <2>5. LeafOf(P, P[i]) = i BY <2>4 DEF LeafOf
  <2> QED BY <2>2, <2>3, <2>5 DEF BuildIfs
<1>2. ASSUME NEW p \in Statements(P), BuildIfs(P)[p].k = "return" PROVE \E i \in DOMAIN P : p = P[i]
  <2>1. SUFFICES ASSUME ~IsLeaf(P, p) PROVE FALSE BY DEF IsLeaf
  <2>2. BuildIfs(P)[p].k = "if" BY <2>1 DEF BuildIfs, Branches
  <2> QED BY <1>2, <2>2
<1> QED BY <1>1, <1>2

(* A test holds for the addresses that have the bits of the string from m on. *)
LEMMA TestHolds ==
  ASSUME NEW t \in Strings, Len(t) <= AddrBits, NEW m \in 0..Len(t), NEW a \in Nat, NEW then
  PROVE  Holds(Test(AddrBits - 1 - m, SubSeq(t, m + 1, Len(t)), then), a)
         <=> \A j \in m + 1..Len(t) : Bits(a)[j] = t[j]
<1> DEFINE e == SubSeq(t, m + 1, Len(t))
           test == Test(AddrBits - 1 - m, e, then)
<1>1. Len(t) \in Nat /\ AddrBits \in Nat /\ m \in Nat BY AddressAssumption DEF Strings
<1>2. DOMAIN e = 1..Len(t) - m /\ \A j \in 1..Len(t) - m : e[j] = t[m + j]
  BY <1>1 DEF Strings
<1> HIDE DEF e
<1>3. test.index = AddrBits - 1 - m /\ test.expect = e BY DEF Test
<1>4. Holds(test, a) <=> \A j \in 1..Len(t) - m : Bit(a, (AddrBits - 1 - m) - j + 1) = t[m + j]
  BY <1>2, <1>3 DEF Holds
<1>5. ASSUME NEW j \in 1..Len(t) - m PROVE Bit(a, (AddrBits - 1 - m) - j + 1) = Bits(a)[m + j]
  <2>1. (AddrBits - 1 - m) - j + 1 = AddrBits - (m + j) /\ m + j \in 1..AddrBits BY <1>1
  <2>2. Bits(a)[m + j] = Bit(a, AddrBits - (m + j)) BY <2>1, AddressBits
  <2> QED BY <2>1, <2>2
<1>6. (\A j \in 1..Len(t) - m : Bits(a)[m + j] = t[m + j]) <=> \A j \in m + 1..Len(t) : Bits(a)[j] = t[j]
  <2>1. \A j \in 1..Len(t) - m : m + j \in m + 1..Len(t) BY <1>1
  <2>2. \A j \in m + 1..Len(t) : j - m \in 1..Len(t) - m /\ m + (j - m) = j BY <1>1
  <2> QED BY <2>1, <2>2
<1> QED BY <1>4, <1>5, <1>6 DEF e

(* The if on the way to a prefix, and its branch towards it. *)
LEMMA BranchTowards ==
  ASSUME NEW P, Apart(P), NEW q \in Statements(P), NEW i \in DOMAIN P, IsStrictPrefix(q, P[i])
  PROVE  LET t(k) == ExtractPrefix(P, Append(q, k))
             b == P[i][Len(q) + 1]
         IN  /\ BuildIfs(P)[q] = Branches(<<TestBelow(P, q, 0), TestBelow(P, q, 1)>>,
                        TestBelow(P, q, 0).expect = <<0>> /\ TestBelow(P, q, 1).expect = <<1>>)
             /\ b \in {0, 1} /\ IsPrefix(t(b), P[i])
             /\ \A k \in {0, 1} : /\ t(k) \in Strings /\ t(k) \in Statements(P)
                                  /\ IsPrefix(Append(q, k), t(k))
                                  /\ \E n \in DOMAIN P : IsPrefix(t(k), P[n])
<1> DEFINE t(k) == ExtractPrefix(P, Append(q, k))
           b == P[i][Len(q) + 1]
<1>1. q \in Strings /\ Stops(P, q) /\ P[i] \in Strings /\ \A k \in DOMAIN P : P[k] \in Strings
  BY StatementIsString DEF Apart
<1>2. Len(q) < Len(P[i]) /\ IsPrefix(q, P[i]) /\ Len(q) \in Nat /\ Len(P[i]) \in Nat
  BY <1>1, PrefixBits DEF IsStrictPrefix, Strings
<1>3. ~IsLeaf(P, q)
  <2>1. SUFFICES ASSUME NEW k \in DOMAIN P, P[k] = q PROVE FALSE BY DEF IsLeaf
  <2>2. k = i BY <1>2, <2>1 DEF Apart
  <2> QED BY <1>2, <2>1, <2>2
<1>4. BuildIfs(P)[q] = Branches(<<TestBelow(P, q, 0), TestBelow(P, q, 1)>>,
                        TestBelow(P, q, 0).expect = <<0>> /\ TestBelow(P, q, 1).expect = <<1>>)
  BY <1>3 DEF BuildIfs
<1>5. \A k \in {0, 1} : HasKid(P, q, k) BY <1>1, <1>3 DEF Stops, Forks
<1>6. ASSUME NEW k \in {0, 1}
      PROVE  /\ t(k) \in Strings /\ t(k) \in Statements(P) /\ IsPrefix(Append(q, k), t(k))
             /\ \A n \in DOMAIN P : IsPrefix(Append(q, k), P[n]) => IsPrefix(t(k), P[n])
             /\ \E n \in DOMAIN P : IsPrefix(t(k), P[n])
  <2>1. PICK n \in DOMAIN P : IsPrefix(Append(q, k), P[n]) BY <1>5 DEF HasKid
  <2>2. Append(q, k) \in Strings BY <1>1, OneBitMore
  <2>3. /\ t(k) \in Strings /\ IsPrefix(Append(q, k), t(k)) /\ Stops(P, t(k))
        /\ \A m \in DOMAIN P : IsPrefix(Append(q, k), P[m]) => IsPrefix(t(k), P[m])
    BY <1>1, <2>1, <2>2, Extracted
  <2> HIDE DEF t
  <2>4. t(k) \in Statements(P) BY <2>1, <2>3, StopHasStatement
  <2> QED BY <2>1, <2>3, <2>4
<1>7. b \in {0, 1}
  <2>1. Len(q) + 1 \in 1..Len(P[i]) BY <1>2
  <2> QED BY <1>1, <2>1 DEF Strings
<1> HIDE DEF t
<1>8. IsPrefix(t(b), P[i])
  <2>1. IsPrefix(Append(q, b), P[i]) BY <1>1, <1>2, <1>7, KidBits
  <2> QED BY <1>6, <1>7, <2>1
<1> QED BY <1>4, <1>6, <1>7, <1>8 DEF t

(* What the two tests at a statement say of an address. *)
LEMMA TestsBelow ==
  ASSUME NEW P, Apart(P), \A i \in DOMAIN P : Len(P[i]) <= AddrBits, NEW a \in Nat,
         NEW q \in Statements(P), NEW i \in DOMAIN P, IsStrictPrefix(q, P[i]), NEW k \in {0, 1}
  PROVE  LET t == ExtractPrefix(P, Append(q, k))
         IN  /\ TestBelow(P, q, k).then = t
             /\ Holds(TestBelow(P, q, k), a) <=> \A j \in Len(q) + 1..Len(t) : Bits(a)[j] = t[j]
             /\ TestBelow(P, q, k).expect = <<k>> => Len(t) = Len(q) + 1
             /\ Len(q) < Len(t) /\ t[Len(q) + 1] = k /\ Len(q) \in Nat /\ Len(t) \in Nat
<1> DEFINE t == ExtractPrefix(P, Append(q, k))
<1>1. t \in Strings /\ IsPrefix(Append(q, k), t) /\ q \in Strings
  BY BranchTowards, StatementIsString
<1>2. PICK n \in DOMAIN P : IsPrefix(t, P[n]) BY BranchTowards
<1>3. TestBelow(P, q, k) = Test(AddrBits - 1 - Len(q), SubSeq(t, Len(q) + 1, Len(t)), t) BY DEF TestBelow
<1> HIDE DEF t
<1>4. Len(q) < Len(t) /\ t[Len(q) + 1] = k BY <1>1, KidBits
<1>5. Len(q) \in Nat /\ Len(t) \in Nat BY <1>1 DEF Strings
<1>6. Len(t) <= AddrBits
  <2>1. P[n] \in Strings BY DEF Apart
  <2>2. Len(t) \in 0..Len(P[n]) /\ Len(P[n]) \in Nat BY <1>1, <1>2, <2>1, PrefixOrder
  <2>3. Len(P[n]) <= AddrBits /\ AddrBits \in Nat BY AddressAssumption
  <2> QED BY <2>2, <2>3
<1>7. Holds(TestBelow(P, q, k), a) <=> \A j \in Len(q) + 1..Len(t) : Bits(a)[j] = t[j]
  <2>1. Len(q) \in 0..Len(t) BY <1>4, <1>5
  <2> QED BY <1>1, <1>3, <1>6, <2>1, TestHolds
<1>8. TestBelow(P, q, k).expect = <<k>> => Len(t) = Len(q) + 1
  <2>1. Len(SubSeq(t, Len(q) + 1, Len(t))) = Len(t) - Len(q) BY <1>1, <1>4, <1>5 DEF Strings
  <2>2. TestBelow(P, q, k).expect = SubSeq(t, Len(q) + 1, Len(t)) BY <1>3 DEF Test
  <2>3. Len(<<k>>) = 1 OBVIOUS
  <2> DEFINE e == SubSeq(t, Len(q) + 1, Len(t))
  <2>4. Len(e) = Len(t) - Len(q) BY <2>1
  <2>5. TestBelow(P, q, k).expect = e BY <2>2
  <2> HIDE DEF e
  <2>6. ASSUME TestBelow(P, q, k).expect = <<k>> PROVE Len(e) = 1
    <3>1. e = <<k>> BY <2>5, <2>6
    <3> QED BY <2>3, <3>1
  <2>7. Len(t) - Len(q) = 1 => Len(t) = Len(q) + 1 BY <1>5
  <2> QED BY <2>4, <2>6, <2>7
<1>9. TestBelow(P, q, k).then = t BY <1>3 DEF Test
<1> QED BY <1>4, <1>5, <1>7, <1>8, <1>9 DEF t

(* An address that begins with a prefix gets to the return at its end. *)
LEMMA OwnAddressEnters ==
  ASSUME NEW P, Apart(P), \A i \in DOMAIN P : Len(P[i]) <= AddrBits, NEW a \in Nat,
         NEW i \in DOMAIN P, IsPrefix(P[i], Bits(a))
  PROVE  Entered(BuildIfs(P), a, P[i])
<1>1. SUFFICES ASSUME NEW q \in Statements(P), IsStrictPrefix(q, P[i])
               PROVE  \E k \in Branch(BuildIfs(P)[q], a) : IsPrefix(BuildIfs(P)[q].tests[k].then, P[i])
  BY DEF Entered, BuildIfs
<1> DEFINE t(k) == ExtractPrefix(P, Append(q, k))
           b == P[i][Len(q) + 1]
<1>2. P[i] \in Strings /\ Bits(a) \in Strings BY AddressBits DEF Apart
<1>3. /\ b \in {0, 1} /\ IsPrefix(t(b), P[i])
      /\ \A k \in {0, 1} : t(k) \in Strings
  BY <1>1, BranchTowards
<1>4. BuildIfs(P)[q] = Branches(<<TestBelow(P, q, 0), TestBelow(P, q, 1)>>,
                        TestBelow(P, q, 0).expect = <<0>> /\ TestBelow(P, q, 1).expect = <<1>>)
  BY <1>1, BranchTowards
<1>5. \A k \in {0, 1} :
        /\ TestBelow(P, q, k).then = t(k)
        /\ Holds(TestBelow(P, q, k), a) <=> \A j \in Len(q) + 1..Len(t(k)) : Bits(a)[j] = t(k)[j]
        /\ Len(q) < Len(t(k)) /\ t(k)[Len(q) + 1] = k /\ Len(q) \in Nat /\ Len(t(k)) \in Nat
  BY <1>1, TestsBelow
<1> HIDE DEF t
<1>6. Holds(TestBelow(P, q, b), a)
  <2>1. \A j \in 1..Len(t(b)) : t(b)[j] = Bits(a)[j]
    <3>1. IsPrefix(t(b), Bits(a)) BY <1>2, <1>3, PrefixTransitive
    <3> QED BY <1>2, <1>3, <3>1, PrefixOrder
  <2>2. \A j \in Len(q) + 1..Len(t(b)) : j \in 1..Len(t(b)) BY <1>3, <1>5
  <2> QED BY <1>3, <1>5, <2>1, <2>2
<1>7. ASSUME NEW k \in {0, 1}, Holds(TestBelow(P, q, k), a) PROVE k = b
  <2>1. Bits(a)[Len(q) + 1] = k
    <3>1. Len(q) + 1 \in Len(q) + 1..Len(t(k)) BY <1>5
    <3> QED BY <1>5, <1>7, <3>1
  <2>2. Bits(a)[Len(q) + 1] = b
    <3>1. Len(q) + 1 \in Len(q) + 1..Len(t(b)) BY <1>3, <1>5
    <3>2. t(b)[Len(q) + 1] = b BY <1>3, <1>5
    <3> QED BY <1>3, <1>5, <1>6, <3>1, <3>2
  <2> QED BY <2>1, <2>2
<1>8. Branch(BuildIfs(P)[q], a) = {b + 1}
  <2> DEFINE stmt == BuildIfs(P)[q]
  <2>1. stmt.tests[1] = TestBelow(P, q, 0) /\ stmt.tests[2] = TestBelow(P, q, 1) BY <1>4 DEF Branches
  <2>2. CASE b = 0 BY <1>6, <2>1, <2>2 DEF Branch
  <2>3. CASE b = 1
    <3>1. ~Holds(TestBelow(P, q, 0), a) BY <1>7, <2>3
    <3>2. Holds(TestBelow(P, q, 1), a) BY <1>6, <2>3
    <3> QED BY <2>1, <2>3, <3>1, <3>2 DEF Branch
  <2> QED BY <1>3, <2>2, <2>3
<1>9. BuildIfs(P)[q].tests[b + 1].then = t(b)
  <2>1. BuildIfs(P)[q].tests[1] = TestBelow(P, q, 0) /\ BuildIfs(P)[q].tests[2] = TestBelow(P, q, 1)
    BY <1>4 DEF Branches
  <2>2. b = 0 \/ b = 1 BY <1>3
  <2> QED BY <1>5, <2>1, <2>2
<1> QED BY <1>3, <1>8, <1>9

(* An address that gets to the return of a prefix has its bits from where the tests  *)
(* begin: every bit is in one of the tests on the way.                               *)
LEMMA EnteredHasBits ==
  ASSUME NEW P, Apart(P), \A i \in DOMAIN P : Len(P[i]) <= AddrBits, NEW a \in Nat,
         NEW i \in DOMAIN P
  PROVE  Entered(BuildIfs(P), a, P[i]) =>
            \A j \in Len(ExtractPrefix(P, <<>>)) + 1..Len(P[i]) : Bits(a)[j] = P[i][j]
<1> DEFINE t(q, k) == ExtractPrefix(P, Append(q, k))
<1>0. ASSUME NEW q \in Statements(P), IsStrictPrefix(q, P[i])
      PROVE  \A k \in {0, 1} :
        /\ TestBelow(P, q, k).then = t(q, k)
        /\ Holds(TestBelow(P, q, k), a) <=> \A j \in Len(q) + 1..Len(t(q, k)) : Bits(a)[j] = t(q, k)[j]
        /\ TestBelow(P, q, k).expect = <<k>> => Len(t(q, k)) = Len(q) + 1
        /\ Len(q) < Len(t(q, k)) /\ t(q, k)[Len(q) + 1] = k /\ Len(q) \in Nat /\ Len(t(q, k)) \in Nat
  BY <1>0, TestsBelow
<1> SUFFICES ASSUME Entered(BuildIfs(P), a, P[i]),
                    NEW j \in Len(ExtractPrefix(P, <<>>)) + 1..Len(P[i])
             PROVE  Bits(a)[j] = P[i][j]
  OBVIOUS
<1> DEFINE whole == ExtractPrefix(P, <<>>)
           S == {n \in 0..Len(P[i]) : n < j /\ SubSeq(P[i], 1, n) \in Statements(P)}
<1>1. P[i] \in Strings /\ Bits(a) \in Strings /\ Len(P[i]) \in Nat BY AddressBits DEF Apart, Strings
<1>2. whole \in Strings /\ IsPrefix(whole, P[i]) /\ Stops(P, whole)
  <2>1. <<>> \in Strings /\ \A s \in Strings : IsPrefix(<<>>, s)
    <3>1. <<>> \in Strings /\ Len(<<>>) = 0 BY DEF Strings
    <3>2. \A s \in Strings : Len(s) \in Nat BY DEF Strings
    <3> QED BY <3>1, <3>2, PrefixBits
  <2>2. \A k \in DOMAIN P : P[k] \in Strings BY DEF Apart
  <2> QED BY <2>1, <2>2, Extracted
<1> HIDE DEF whole
<1>3. Len(whole) \in S
  <2>1. whole \in Statements(P) BY <1>2, StopHasStatement
  <2>2. whole = SubSeq(P[i], 1, Len(whole)) /\ Len(whole) \in 0..Len(P[i]) BY <1>1, <1>2, PrefixOrder
  <2>3. Len(whole) < j BY <1>1, <2>2 DEF whole
  <2>4. SubSeq(P[i], 1, Len(whole)) \in Statements(P) BY <2>1, <2>2
  <2> QED BY <2>2, <2>3, <2>4
<1>4. PICK n \in S : \A y \in S : y <= n
  <2>1. S \in SUBSET (0..Len(P[i])) OBVIOUS
  <2> HIDE DEF S
  <2> QED BY <1>1, <1>3, <2>1, LargestNumber
<1> DEFINE q == SubSeq(P[i], 1, n)
           stmt == BuildIfs(P)[q]
<1>5. n \in 0..Len(P[i]) /\ n < j /\ q \in Statements(P) BY <1>4
<1>6. j \in Nat /\ j <= Len(P[i]) /\ j \in 1..Len(P[i]) BY <1>1, <1>5
<1>7. \A y \in 0..Len(P[i]) : y < j /\ SubSeq(P[i], 1, y) \in Statements(P) => y <= n BY <1>4
<1> HIDE DEF S
<1>8. q \in Strings /\ Len(q) = n /\ IsStrictPrefix(q, P[i]) BY <1>1, <1>5, <1>6, FirstBitsArePrefix
<1> HIDE DEF q
<1>9. PICK c \in Branch(stmt, a) : IsPrefix(stmt.tests[c].then, P[i])
  BY <1>5, <1>8 DEF Entered, BuildIfs
<1>10. /\ stmt = Branches(<<TestBelow(P, q, 0), TestBelow(P, q, 1)>>,
                        TestBelow(P, q, 0).expect = <<0>> /\ TestBelow(P, q, 1).expect = <<1>>)
       /\ \A b \in {0, 1} : t(q, b) \in Strings /\ t(q, b) \in Statements(P)
  BY <1>5, <1>8, BranchTowards
<1>11. \A b \in {0, 1} :
        /\ TestBelow(P, q, b).then = t(q, b)
        /\ Holds(TestBelow(P, q, b), a) <=> \A m \in n + 1..Len(t(q, b)) : Bits(a)[m] = t(q, b)[m]
        /\ TestBelow(P, q, b).expect = <<b>> => Len(t(q, b)) = n + 1
        /\ n < Len(t(q, b)) /\ t(q, b)[n + 1] = b /\ Len(t(q, b)) \in Nat
  <2>1. \A b \in {0, 1} :
          /\ TestBelow(P, q, b).then = t(q, b)
          /\ Holds(TestBelow(P, q, b), a) <=> \A m \in Len(q) + 1..Len(t(q, b)) : Bits(a)[m] = t(q, b)[m]
          /\ TestBelow(P, q, b).expect = <<b>> => Len(t(q, b)) = Len(q) + 1
          /\ Len(q) < Len(t(q, b)) /\ t(q, b)[Len(q) + 1] = b /\ Len(t(q, b)) \in Nat
    BY <1>0, <1>5, <1>8
  <2>2. Len(q) = n BY <1>8
  <2> HIDE DEF t
  <2> QED BY <2>1, <2>2
<1>12. /\ stmt.tests[1] = TestBelow(P, q, 0) /\ stmt.tests[2] = TestBelow(P, q, 1)
       /\ stmt.else <=> TestBelow(P, q, 0).expect = <<0>> /\ TestBelow(P, q, 1).expect = <<1>>
  <2>1. /\ stmt.tests = <<TestBelow(P, q, 0), TestBelow(P, q, 1)>>
        /\ stmt.else = (TestBelow(P, q, 0).expect = <<0>> /\ TestBelow(P, q, 1).expect = <<1>>)
    <3> DEFINE x == TestBelow(P, q, 0)
               y == TestBelow(P, q, 1)
               e == x.expect = <<0>> /\ y.expect = <<1>>
    <3>1. stmt = Branches(<<x, y>>, e) BY <1>10
    <3> HIDE DEF x, y, e, stmt
    <3>2. stmt.tests = <<x, y>> /\ stmt.else = e BY <3>1, Zenon DEF Branches
    <3> QED BY <3>2, Zenon DEF x, y, e
  <2> HIDE DEF stmt
  <2>2. stmt.tests[1] = TestBelow(P, q, 0) /\ stmt.tests[2] = TestBelow(P, q, 1) BY <2>1
  <2>3. stmt.else <=> TestBelow(P, q, 0).expect = <<0>> /\ TestBelow(P, q, 1).expect = <<1>>
    BY <2>1, Zenon
  <2> QED BY <2>2, <2>3, Zenon
<1>13. \/ c = 1 /\ Holds(TestBelow(P, q, 0), a)
       \/ c = 2 /\ Holds(TestBelow(P, q, 1), a)
       \/ c = 2 /\ stmt.else /\ ~Holds(TestBelow(P, q, 0), a)
  BY <1>12 DEF Branch
<1> HIDE DEF t, stmt
<1>14. ASSUME NEW b \in {0, 1}, IsPrefix(t(q, b), P[i])
       PROVE  j <= Len(t(q, b)) /\ t(q, b)[j] = P[i][j] /\ j \in n + 1..Len(t(q, b))
  <2>1. /\ Len(t(q, b)) \in 0..Len(P[i]) /\ t(q, b) = SubSeq(P[i], 1, Len(t(q, b)))
        /\ \A m \in 1..Len(t(q, b)) : t(q, b)[m] = P[i][m]
    BY <1>1, <1>10, <1>14, PrefixOrder
  <2>2. ~(Len(t(q, b)) < j)
    <3>1. SUFFICES ASSUME Len(t(q, b)) < j PROVE FALSE OBVIOUS
    <3>2. SubSeq(P[i], 1, Len(t(q, b))) \in Statements(P) BY <1>10, <2>1
    <3>3. Len(t(q, b)) <= n BY <1>7, <2>1, <3>1, <3>2
    <3> QED BY <1>5, <1>11, <3>3
  <2> QED BY <1>5, <1>6, <1>11, <2>1, <2>2
<1>15. ASSUME NEW b \in {0, 1}, IsPrefix(t(q, b), P[i]), Holds(TestBelow(P, q, b), a) PROVE Bits(a)[j] = P[i][j]
  <2>1. t(q, b)[j] = P[i][j] /\ j \in n + 1..Len(t(q, b)) BY <1>14, <1>15
  <2> QED BY <1>11, <1>15, <2>1
<1>16. CASE c = 1 /\ Holds(TestBelow(P, q, 0), a) BY <1>9, <1>11, <1>12, <1>15, <1>16
<1>17. CASE c = 2 /\ Holds(TestBelow(P, q, 1), a) BY <1>9, <1>11, <1>12, <1>15, <1>17
<1>18. CASE c = 2 /\ stmt.else /\ ~Holds(TestBelow(P, q, 0), a)
  <2>1. Len(t(q, 0)) = n + 1 /\ Len(t(q, 1)) = n + 1 BY <1>11, <1>12, <1>18
  <2>2. IsPrefix(t(q, 1), P[i]) BY <1>9, <1>11, <1>12, <1>18
  <2>3. j <= Len(t(q, 1)) /\ t(q, 1)[j] = P[i][j] BY <1>14, <2>2
  <2>4. j = n + 1 BY <1>5, <1>6, <2>1, <2>3
  <2>5. P[i][j] = 1 BY <1>11, <2>3, <2>4
  <2>6. Bits(a)[j] # 0
    <3>1. SUFFICES ASSUME Bits(a)[j] = 0 PROVE FALSE OBVIOUS
    <3>2. \A m \in n + 1..Len(t(q, 0)) : m = j BY <1>5, <2>1, <2>4
    <3>3. \A m \in n + 1..Len(t(q, 0)) : Bits(a)[m] = t(q, 0)[m] BY <1>11, <2>4, <3>1, <3>2
    <3> QED BY <1>11, <1>18, <3>3
  <2>7. Bits(a)[j] \in {0, 1}
    <3>1. j \in 1..AddrBits BY <1>1, <1>6, AddressAssumption
    <3>2. Len(Bits(a)) = AddrBits BY AddressBits
    <3> QED BY <1>1, <3>1, <3>2 DEF Strings
  <2> QED BY <2>5, <2>6, <2>7
<1> QED BY <1>13, <1>16, <1>17, <1>18

(* Of two prefixes of a string the one that is not longer is a prefix of the other. *)
LEMMA PrefixesOfOne ==
  ASSUME NEW s \in Strings, NEW t \in Strings, NEW u \in Strings, IsPrefix(s, u), IsPrefix(t, u)
  PROVE  Len(s) <= Len(t) => IsPrefix(s, t)
<1>1. /\ \A j \in 1..Len(s) : s[j] = u[j]
      /\ \A j \in 1..Len(t) : t[j] = u[j]
      /\ Len(s) \in Nat /\ Len(t) \in Nat
  BY PrefixOrder DEF Strings
<1>2. ASSUME Len(s) <= Len(t) PROVE \A j \in 1..Len(s) : s[j] = t[j] BY <1>1, <1>2
<1> QED BY <1>2, PrefixBits

(* The decoder of some prefixes, no two of which are prefixes of one another, returns *)
(* for an address the device whose prefix it begins with, and none if there is none:  *)
(* the region's bits apart, which are those of all of them, no bit is left untested.  *)
LEMMA DecodedDevice ==
  ASSUME NEW P, Apart(P), DOMAIN P # {}, \A i \in DOMAIN P : Len(P[i]) <= AddrBits, NEW a \in Nat,
         \A i \in DOMAIN P : \A j \in 1..4 : j <= Len(P[i]) => P[i][j] = Bits(a)[j],
         NEW code, code.stmts = BuildIfs(P),
         LET whole == ExtractPrefix(P, <<>>)
         IN  code.enter = IF Len(whole) <= 4 THEN {}
                          ELSE {Test(AddrBits - 5, SubSeq(whole, 5, Len(whole)), whole)}
  PROVE  /\ \A i \in DOMAIN P : IsPrefix(P[i], Bits(a)) => Decoded(code, a) = i
         /\ (\A i \in DOMAIN P : ~IsPrefix(P[i], Bits(a))) => Decoded(code, a) = NoDevice
<1> DEFINE whole == ExtractPrefix(P, <<>>)
           enters == \A t \in code.enter : Holds(t, a)
           ends == {p \in DOMAIN code.stmts : code.stmts[p].k = "return" /\ Entered(code.stmts, a, p)}
<1>1. /\ Bits(a) \in Strings /\ Len(Bits(a)) = AddrBits /\ AddrBits \in Nat
      /\ \A i \in DOMAIN P : P[i] \in Strings
  BY AddressBits, AddressAssumption DEF Apart
<1>2. whole \in Strings /\ \A i \in DOMAIN P : IsPrefix(whole, P[i])
  <2>1. <<>> \in Strings /\ \A s \in Strings : IsPrefix(<<>>, s)
    <3>1. <<>> \in Strings /\ Len(<<>>) = 0 BY DEF Strings
    <3>2. \A s \in Strings : Len(s) \in Nat BY DEF Strings
    <3> QED BY <3>1, <3>2, PrefixBits
  <2>2. \E i \in DOMAIN P : IsPrefix(<<>>, P[i]) BY <1>1, <2>1
  <2> QED BY <1>1, <2>1, <2>2, Extracted
<1>3. code.enter = IF Len(whole) <= 4 THEN {} ELSE {Test(AddrBits - 5, SubSeq(whole, 5, Len(whole)), whole)}
  OBVIOUS
<1> HIDE DEF whole
<1>4. /\ Len(whole) \in Nat
      /\ \A i \in DOMAIN P : /\ Len(whole) <= Len(P[i]) /\ Len(P[i]) \in Nat
                             /\ \A j \in 1..Len(whole) : whole[j] = P[i][j]
  <2>1. \A i \in DOMAIN P : Len(whole) \in 0..Len(P[i]) /\ Len(P[i]) \in Nat
                            /\ \A j \in 1..Len(whole) : whole[j] = P[i][j]
    BY <1>1, <1>2, PrefixOrder
  <2> QED BY <1>2, <2>1 DEF Strings
<1>5. enters <=> \A j \in 5..Len(whole) : Bits(a)[j] = whole[j]
  <2>1. CASE Len(whole) <= 4
    <3>1. code.enter = {} BY <1>3, <2>1
    <3>2. \A j \in 5..Len(whole) : FALSE BY <1>4, <2>1
    <3> QED BY <3>1, <3>2
  <2>2. CASE ~(Len(whole) <= 4)
    <3> DEFINE test == Test(AddrBits - 5, SubSeq(whole, 5, Len(whole)), whole)
    <3>1. code.enter = {test} BY <1>3, <2>2
    <3>2. Len(whole) <= AddrBits BY <1>1, <1>4
    <3>3. 4 \in 0..Len(whole) BY <1>4, <2>2
    <3>4. Holds(Test(AddrBits - 1 - 4, SubSeq(whole, 4 + 1, Len(whole)), whole), a) <=>
             \A j \in 4 + 1..Len(whole) : Bits(a)[j] = whole[j]
      BY <1>2, <3>2, <3>3, TestHolds
    <3>5. AddrBits - 1 - 4 = AddrBits - 5 /\ 4 + 1 = 5 BY <1>1
    <3>6. Holds(test, a) <=> \A j \in 5..Len(whole) : Bits(a)[j] = whole[j] BY <3>4, <3>5
    <3> HIDE DEF test
    <3> QED BY <3>1, <3>6
  <2> QED BY <2>1, <2>2
<1>6. ASSUME NEW i \in DOMAIN P, IsPrefix(P[i], Bits(a)) PROVE P[i] \in ends /\ enters
  <2>1. P[i] \in ends
    <3>1. Entered(BuildIfs(P), a, P[i]) BY <1>6, OwnAddressEnters
    <3>2. P[i] \in Statements(P) /\ BuildIfs(P)[P[i]] = Return(i) BY Returns
    <3>3. BuildIfs(P)[P[i]].k = "return" BY <3>2 DEF Return
    <3>4. DOMAIN BuildIfs(P) = Statements(P) BY DEF BuildIfs
    <3> QED BY <3>1, <3>2, <3>3, <3>4
  <2>2. \A j \in 1..Len(P[i]) : P[i][j] = Bits(a)[j] BY <1>1, <1>6, PrefixOrder
  <2>3. \A j \in 5..Len(whole) : j \in 1..Len(whole) /\ j \in 1..Len(P[i]) BY <1>4
  <2>4. \A j \in 5..Len(whole) : Bits(a)[j] = whole[j] BY <1>4, <2>2, <2>3
  <2> HIDE DEF ends, enters
  <2> QED BY <1>5, <2>1, <2>4
<1>7. ASSUME NEW p \in ends, enters PROVE \E k \in DOMAIN P : p = P[k] /\ IsPrefix(P[k], Bits(a))
  <2>1. p \in Statements(P) /\ BuildIfs(P)[p].k = "return" /\ Entered(BuildIfs(P), a, p)
    BY DEF BuildIfs
  <2>2. PICK k \in DOMAIN P : p = P[k] BY <2>1, Returns
  <2>3. \A j \in Len(whole) + 1..Len(P[k]) : Bits(a)[j] = P[k][j]
    <3>1. Entered(BuildIfs(P), a, P[k]) BY <2>1, <2>2
    <3> QED BY <3>1, EnteredHasBits DEF whole
  <2>4. ASSUME NEW j \in 1..Len(P[k]) PROVE P[k][j] = Bits(a)[j]
    <3>1. CASE j \in 1..4 BY <1>4, <2>4, <3>1
    <3>2. CASE j \in 5..Len(whole)
      <4>1. Bits(a)[j] = whole[j] BY <1>5, <1>7, <3>2
      <4>2. whole[j] = P[k][j] BY <1>4, <3>2
      <4> QED BY <4>1, <4>2
    <3>3. CASE j \in Len(whole) + 1..Len(P[k]) BY <2>3, <3>3
    <3> QED BY <1>4, <2>4, <3>1, <3>2, <3>3
  <2>5. IsPrefix(P[k], Bits(a)) BY <1>1, <2>4, PrefixBits
  <2> QED BY <2>2, <2>5
<1>8. ASSUME NEW i \in DOMAIN P, NEW k \in DOMAIN P, IsPrefix(P[i], Bits(a)), IsPrefix(P[k], Bits(a))
      PROVE  i = k
  <2>1. Len(P[i]) <= Len(P[k]) \/ Len(P[k]) <= Len(P[i]) BY <1>4
  <2>2. IsPrefix(P[i], P[k]) \/ IsPrefix(P[k], P[i]) BY <1>1, <1>8, <2>1, PrefixesOfOne
  <2> QED BY <2>2 DEF Apart
<1>9. Decoded(code, a) = IF ends # {} /\ enters THEN code.stmts[CHOOSE p \in ends : TRUE].dev ELSE NoDevice
  BY DEF Decoded
<1> HIDE DEF ends, enters
<1>10. ASSUME NEW i \in DOMAIN P, IsPrefix(P[i], Bits(a)) PROVE Decoded(code, a) = i
  <2> DEFINE e == CHOOSE p \in ends : TRUE
  <2>1. enters /\ ends # {} /\ e \in ends BY <1>6, <1>10
  <2>2. PICK k \in DOMAIN P : e = P[k] /\ IsPrefix(P[k], Bits(a)) BY <1>7, <2>1
  <2>3. e = P[i] BY <1>8, <1>10, <2>2
  <2> HIDE DEF e
  <2>4. code.stmts[e].dev = i
    <3>1. BuildIfs(P)[P[i]] = Return(i) BY Returns
    <3>2. BuildIfs(P)[P[i]].dev = i BY <3>1 DEF Return
    <3> QED BY <2>3, <3>2
  <2> QED BY <1>9, <2>1, <2>4 DEF e
<1>11. ASSUME \A i \in DOMAIN P : ~IsPrefix(P[i], Bits(a)) PROVE Decoded(code, a) = NoDevice
  BY <1>7, <1>9, <1>11
<1> QED BY <1>10, <1>11

(* The shortened prefixes of the simple decoder still tell the devices apart: each     *)
(* has the bit at which it parts from any other one.                                    *)
LEMMA TrimmedApart ==
  ASSUME NEW E, Apart(E)
  PROVE  /\ Apart([i \in DOMAIN E |-> TrimSuffix(E, i)])
         /\ \A i \in DOMAIN E : IsPrefix(TrimSuffix(E, i), E[i])
<1> DEFINE F(i) == {n \in 0..Len(E[i]) - 1 : Forks(E, SubSeq(E[i], 1, n))}
           T == [i \in DOMAIN E |-> TrimSuffix(E, i)]
<1>1. \A i \in DOMAIN E : E[i] \in Strings /\ Len(E[i]) \in Nat BY DEF Apart, Strings
<1>2. ASSUME NEW i \in DOMAIN E
      PROVE  TrimSuffix(E, i) = IF F(i) = {} THEN <<>> ELSE SubSeq(E[i], 1, Max(F(i)) + 1)
  <2>1. ~Beyond(E, E[i]) BY DEF Beyond, Apart, IsStrictPrefix
  <2>2. LeafOf(E, E[i]) = i
    <3>1. \A k \in DOMAIN E : E[k] = E[i] => k = i
      <4>1. IsPrefix(E[i], E[i]) BY <1>1, PrefixBits
      <4> QED BY <4>1 DEF Apart
    <3> QED BY <3>1 DEF LeafOf
  <2> HIDE DEF F
  <2> QED BY <2>1, <2>2 DEF TrimSuffix, F
<1>3. ASSUME NEW i \in DOMAIN E, F(i) # {}
      PROVE  Max(F(i)) \in F(i) /\ \A y \in F(i) : y <= Max(F(i))
  <2> DEFINE S == F(i)
  <2>1. S \in SUBSET (0..Len(E[i])) BY <1>1
  <2>2. \A y \in S : y \in Nat BY <1>1
  <2>3. S # {} BY <1>3
  <2> HIDE DEF F, S
  <2>4. \E x \in S : \A y \in S : y <= x BY <1>1, <2>1, <2>3, LargestNumber
  <2>5. \E x \in S : \A y \in S : x >= y BY <2>2, <2>4
  <2>6. Max(S) \in S /\ \A y \in S : Max(S) >= y BY <2>5 DEF Max
  <2>7. \A y \in S : y <= Max(S) BY <2>2, <2>6
  <2> QED BY <2>6, <2>7 DEF S
<1>4. ASSUME NEW i \in DOMAIN E
      PROVE  /\ TrimSuffix(E, i) \in Strings
             /\ IsPrefix(TrimSuffix(E, i), E[i])
             /\ \A m \in F(i) : m + 1 <= Len(TrimSuffix(E, i)) /\ TrimSuffix(E, i)[m + 1] = E[i][m + 1]
  <2>1. CASE F(i) = {}
    <3>1. <<>> \in Strings /\ Len(<<>>) = 0 BY DEF Strings
    <3>2. IsPrefix(<<>>, E[i]) BY <1>1, <3>1, PrefixBits
    <3>3. TrimSuffix(E, i) = <<>> BY <1>2, <2>1
    <3> HIDE DEF F
    <3> QED BY <2>1, <3>1, <3>2, <3>3
  <2>2. CASE F(i) # {}
    <3> DEFINE n == Max(F(i)) + 1
    <3>1. n \in 1..Len(E[i]) BY <1>1, <1>3, <2>2
    <3>2. \A m \in F(i) : m \in Nat /\ m + 1 <= n
      <4>1. \A m \in F(i) : m \in Nat /\ m <= Max(F(i)) BY <1>1, <1>3, <2>2
      <4>2. Max(F(i)) \in Nat BY <1>3, <2>2, <4>1
      <4> HIDE DEF F
      <4> QED BY <4>1, <4>2
    <3>3. TrimSuffix(E, i) = SubSeq(E[i], 1, n) BY <1>2, <2>2
    <3> HIDE DEF n, F
    <3>4. n \in 0..Len(E[i]) BY <1>1, <3>1
    <3>5. /\ SubSeq(E[i], 1, n) \in Strings /\ Len(SubSeq(E[i], 1, n)) = n
          /\ IsPrefix(SubSeq(E[i], 1, n), E[i])
      BY <1>1, <3>4, FirstBitsArePrefix
    <3>6. \A j \in 1..n : SubSeq(E[i], 1, n)[j] = E[i][j] BY <1>1, <3>4, FirstBits
    <3>7. \A m \in F(i) : m + 1 \in 1..n BY <3>1, <3>2
    <3> QED BY <3>2, <3>3, <3>5, <3>6, <3>7
  <2> QED BY <2>1, <2>2
<1>5. ASSUME NEW i \in DOMAIN E, NEW k \in DOMAIN E, i # k
      PROVE  ~IsPrefix(TrimSuffix(E, i), TrimSuffix(E, k))
  <2>1. ~IsPrefix(E[i], E[k]) /\ ~IsPrefix(E[k], E[i]) BY <1>5 DEF Apart
  <2>2. PICK m \in Nat : /\ m < Len(E[i]) /\ m < Len(E[k])
                         /\ \A j \in 1..m : E[i][j] = E[k][j]
                         /\ E[i][m + 1] # E[k][m + 1]
    BY <1>1, <2>1, FirstDifference
  <2>3. Forks(E, SubSeq(E[i], 1, m)) /\ Forks(E, SubSeq(E[k], 1, m))
    <3>1. \A j \in 1..m : E[k][j] = E[i][j] BY <2>2
    <3>2. Forks(E, SubSeq(E[i], 1, m)) BY <1>1, <2>2, PartsAtFork
    <3>3. Forks(E, SubSeq(E[k], 1, m)) BY <1>1, <2>2, <3>1, PartsAtFork
    <3> QED BY <3>2, <3>3
  <2>4. m \in F(i) /\ m \in F(k) BY <1>1, <2>2, <2>3
  <2> DEFINE s == TrimSuffix(E, i)
             t == TrimSuffix(E, k)
  <2>5. /\ s \in Strings /\ t \in Strings
        /\ m + 1 <= Len(s) /\ s[m + 1] = E[i][m + 1]
        /\ m + 1 <= Len(t) /\ t[m + 1] = E[k][m + 1]
    BY <1>4, <2>4
  <2> HIDE DEF s, t
  <2>6. SUFFICES ASSUME IsPrefix(s, t) PROVE FALSE BY DEF s, t
  <2>7. \A j \in 1..Len(s) : s[j] = t[j] BY <2>5, <2>6, PrefixOrder
  <2>8. m + 1 \in 1..Len(s) BY <2>5 DEF Strings
  <2> QED BY <2>2, <2>5, <2>7, <2>8
<1>6. Apart(T) BY <1>4, <1>5, Zenon DEF Apart
<1> QED BY <1>4, <1>6

-------------------------------------------------------------------------------
(* The windows of the devices, and their prefixes. *)

(* What the checks of the addresses find out about a device on the data bus. *)
LEMMA CheckedDevice ==
  ASSUME NEW r, AddressErrors(r) = {}, Sliceable(r), BusDevices(r) \subseteq Mapped(r),
         \A i \in BusDevices(r) : r.devices[i].base \in 0..Pow2[AddrBits] - 1,
         NEW i \in BusDevices(r)
  PROVE  LET base == r.devices[i].base
             left == LeftOf(r, i)
         IN  /\ base \in 0..Pow2[AddrBits] - 1 /\ Region(base) = 10
             /\ left \in Nat /\ left + 1 <= AddrBits /\ WindowBit(r, i) = left
             /\ LeftFits(left) /\ base % Window(left) = 0
             /\ \A k \in BusDevices(r) \ {i} : ~Overlap(Span(r, i), Span(r, k))
<1>1. i \in Mapped(r) OBVIOUS
<1>2. Region(r.devices[i].base) = 10 BY <1>1 DEF AddressErrors
<1>3. LeftFits(LeftOf(r, i))
  <2>1. {<<"left-addr-bit", r.devices[n].name>> : n \in {n \in Mapped(r) : ~LeftFits(LeftOf(r, n))}} = {}
    BY DEF AddressErrors
  <2> QED BY <1>1, <2>1
<1>4. r.devices[i].base % Window(LeftOf(r, i)) = 0
  <2>1. {<<"over-specified", r.devices[n].name>> : n \in {n \in Mapped(r) :
            LeftFits(LeftOf(r, n)) /\ r.devices[n].base % Window(LeftOf(r, n)) # 0}} = {}
    BY DEF AddressErrors
  <2> QED BY <1>1, <1>3, <2>1
<1>5. LeftOf(r, i) \in Nat BY <1>3, AddressAssumption DEF LeftFits
<1>6. WindowBit(r, i) = LeftOf(r, i) BY <1>1 DEF Mapped, WindowBit
<1>7. LeftOf(r, i) + 1 <= AddrBits BY <1>6 DEF Sliceable
<1>8. ASSUME NEW k \in BusDevices(r) \ {i} PROVE ~Overlap(Span(r, i), Span(r, k))
  <2> DEFINE placed == {n \in Mapped(r) : LeftFits(LeftOf(r, n))}
             clash(n) == \/ \E j \in placed \ {n} : Overlap(Span(r, n), Span(r, j))
                         \/ \E x \in Reserved : Overlap(Span(r, n), x)
  <2>1. k \in placed \ {i} /\ i \in placed
    <3>1. {<<"left-addr-bit", r.devices[n].name>> : n \in {n \in Mapped(r) : ~LeftFits(LeftOf(r, n))}} = {}
      BY DEF AddressErrors
    <3>2. k \in Mapped(r) BY <1>8
    <3>3. LeftFits(LeftOf(r, k)) BY <3>1, <3>2
    <3> QED BY <1>1, <1>3, <1>8, <3>2, <3>3
  <2>2. OverlapErrors(r) = {} BY DEF AddressErrors
  <2>3. {<<"overlap", r.devices[n].name>> : n \in {n \in placed : clash(n)}} = {}
    BY <2>2 DEF OverlapErrors
  <2> HIDE DEF placed
  <2>4. ~clash(i) BY <2>1, <2>3
  <2> QED BY <2>1, <2>4
<1> QED BY <1>2, <1>3, <1>4, <1>5, <1>6, <1>7, <1>8

(* The addresses of a region have its four bits. *)
LEMMA RegionBits ==
  ASSUME NEW a \in 0..Pow2[AddrBits] - 1, NEW b \in 0..Pow2[AddrBits] - 1, Region(a) = Region(b)
  PROVE  \A j \in 1..4 : Bits(a)[j] = Bits(b)[j]
<1> DEFINE w == AddrBits - 4
           m == Pow2[w]
<1>1. AddrBits \in Nat /\ AddrBits >= 5 /\ w \in 0..AddrBits /\ w \in Nat
  BY AddressAssumption
<1>2. m \in Nat \ {0} /\ Pow2[AddrBits] = 16 * m
  <2>1. m \in Nat \ {0} /\ Pow2[w + 1] = 2 * m BY <1>1, Pow2Facts
  <2>2. Pow2[w + 1 + 1] = 2 * Pow2[w + 1] BY <1>1, Pow2Facts
  <2>3. Pow2[w + 1 + 1 + 1] = 2 * Pow2[w + 1 + 1] BY <1>1, Pow2Facts
  <2>4. Pow2[w + 1 + 1 + 1 + 1] = 2 * Pow2[w + 1 + 1 + 1] BY <1>1, Pow2Facts
  <2>5. w + 1 + 1 + 1 + 1 = AddrBits BY <1>1
  <2> HIDE DEF w
  <2>6. Pow2[AddrBits] = 2 * (2 * (2 * (2 * m))) BY <2>1, <2>2, <2>3, <2>4, <2>5
  <2> QED BY <2>1, <2>6
<1>3. ASSUME NEW x \in 0..Pow2[AddrBits] - 1 PROVE (x \div m) % 16 = x \div m
  <2> HIDE DEF m
  <2>1. x \in Nat /\ x < 16 * m BY <1>2
  <2>2. x \div m \in Nat /\ x \div m < 16 BY <1>2, <2>1
  <2>3. \A y \in Nat : y < 16 => (y % 16) = y OBVIOUS
  <2> QED BY <2>2, <2>3
<1>4. a \div m = b \div m
  <2>1. (a \div m) % 16 = (b \div m) % 16 BY DEF Region
  <2> HIDE DEF m
  <2> QED BY <1>3, <2>1
<1>5. \A j \in 1..AddrBits - w : Bits(a)[j] = Bits(b)[j] BY <1>1, <1>4, SameFirstBits
<1>6. AddrBits - w = 4 BY <1>1
<1> QED BY <1>5, <1>6

(* An address is in a device's span if it is in the window at its base: where the span *)
(* is cut, at the end of the numbers, there are no addresses.                           *)
LEMMA InSpan ==
  ASSUME NEW r, NEW i, r.devices[i].base \in Nat, LeftOf(r, i) \in Nat, NEW a \in 0..Pow2[AddrBits] - 1
  PROVE  Span(r, i).lo <= a /\ a <= Span(r, i).hi <=>
            r.devices[i].base <= a /\ a <= r.devices[i].base + Window(LeftOf(r, i)) - 1
<1> DEFINE base == r.devices[i].base
           x == base + Window(LeftOf(r, i)) - 1
           y == Pow2[WordBits] - 1
<1>1. Span(r, i).lo = base /\ Span(r, i).hi = Min({x, y}) BY DEF Span
<1>2. x \in Nat /\ y \in Nat /\ a <= y /\ a \in Nat
  <2>1. AddrBits \in Nat /\ WordBits \in Nat /\ AddrBits <= WordBits BY AddressAssumption
  <2>2. Pow2[AddrBits] \in Nat \ {0} /\ Pow2[WordBits] \in Nat \ {0} /\ Pow2[AddrBits] <= Pow2[WordBits]
    BY <2>1, Pow2Facts, Pow2Grows
  <2>3. Window(LeftOf(r, i)) \in Nat \ {0} BY Pow2Facts DEF Window
  <2> QED BY <2>2, <2>3
<1> HIDE DEF x, y, base
<1>3. (Min({x, y}) = x /\ x <= y) \/ (Min({x, y}) = y /\ y <= x)
  <2>1. \E z \in {x, y} : \A u \in {x, y} : z <= u BY <1>2
  <2>2. Min({x, y}) \in {x, y} /\ \A u \in {x, y} : Min({x, y}) <= u BY <2>1 DEF Min
  <2> QED BY <1>2, <2>2
<1>4. a <= Min({x, y}) <=> a <= x BY <1>2, <1>3
<1> QED BY <1>1, <1>4 DEF x, base

(* The exact prefix of a device is that of its window, and the windows are apart. *)
LEMMA WindowPrefixes ==
  ASSUME NEW r, AddressErrors(r) = {}, Sliceable(r), BusDevices(r) \subseteq Mapped(r),
         \A i \in BusDevices(r) : r.devices[i].base \in 0..Pow2[AddrBits] - 1
  PROVE  LET exact == [i \in BusDevices(r) |-> DevicePrefix(r, i)]
         IN  /\ Apart(exact)
             /\ \A i \in BusDevices(r) :
                  /\ Len(exact[i]) <= AddrBits /\ Len(exact[i]) \in Nat
                  /\ \A a \in 0..Pow2[AddrBits] - 1 :
                       /\ IsPrefix(exact[i], Bits(a)) <=> Span(r, i).lo <= a /\ a <= Span(r, i).hi
                       /\ Region(a) = 10 => \A j \in 1..4 : j <= Len(exact[i]) => exact[i][j] = Bits(a)[j]
<1> DEFINE exact == [i \in BusDevices(r) |-> DevicePrefix(r, i)]
           base(i) == r.devices[i].base
           left(i) == LeftOf(r, i)
           n(i) == AddrBits - left(i) - 1
<1>1. ASSUME NEW i \in BusDevices(r)
      PROVE  /\ base(i) \in 0..Pow2[AddrBits] - 1 /\ Region(base(i)) = 10
             /\ left(i) \in Nat /\ left(i) + 1 <= AddrBits /\ WindowBit(r, i) = left(i)
             /\ LeftFits(left(i)) /\ base(i) % Window(left(i)) = 0
             /\ \A k \in BusDevices(r) \ {i} : ~Overlap(Span(r, i), Span(r, k))
  BY CheckedDevice
<1>2. /\ AddrBits \in Nat /\ WordBits \in Nat
      /\ Pow2[AddrBits] \in Nat \ {0} /\ Pow2[WordBits] \in Nat /\ Pow2[AddrBits] <= Pow2[WordBits]
  <2>1. AddrBits \in Nat /\ WordBits \in Nat /\ AddrBits <= WordBits BY AddressAssumption
  <2> QED BY <2>1, Pow2Facts, Pow2Grows
<1>3. ASSUME NEW i \in BusDevices(r), NEW a \in 0..Pow2[AddrBits] - 1
      PROVE  Span(r, i).lo <= a /\ a <= Span(r, i).hi <=> base(i) <= a /\ a <= base(i) + Window(left(i)) - 1
  <2>1. base(i) \in Nat /\ left(i) \in Nat BY <1>1, <1>2
  <2> QED BY <2>1, InSpan
<1>4. ASSUME NEW i \in BusDevices(r)
      PROVE  /\ n(i) \in 0..AddrBits /\ exact[i] = SubSeq(Bits(base(i)), 1, n(i))
             /\ exact[i] \in Strings /\ Len(exact[i]) = n(i) /\ IsPrefix(exact[i], Bits(base(i)))
             /\ \A j \in 1..n(i) : exact[i][j] = Bits(base(i))[j]
  <2>1. n(i) \in 0..AddrBits BY <1>1, <1>2
  <2>2. exact[i] = SubSeq(Bits(base(i)), 1, n(i)) BY <1>1 DEF DevicePrefix
  <2>3. base(i) \in Nat BY <1>1, <1>2
  <2> HIDE DEF n, base, exact
  <2>4. Bits(base(i)) \in Strings /\ Len(Bits(base(i))) = AddrBits BY <2>3, AddressBits
  <2> QED BY <2>1, <2>2, <2>4, FirstBitsArePrefix, FirstBits
<1>5. ASSUME NEW i \in BusDevices(r), NEW a \in 0..Pow2[AddrBits] - 1
      PROVE  IsPrefix(exact[i], Bits(a)) <=> Span(r, i).lo <= a /\ a <= Span(r, i).hi
  <2>1. base(i) <= a /\ a <= base(i) + Window(left(i)) - 1 <=> IsPrefix(SubSeq(Bits(base(i)), 1, n(i)), Bits(a))
    BY <1>1, WindowIsPrefix
  <2>2. exact[i] = SubSeq(Bits(base(i)), 1, n(i)) BY <1>4
  <2> HIDE DEF n, exact, base, left
  <2> QED BY <1>3, <2>1, <2>2
<1>6. ASSUME NEW i \in BusDevices(r), NEW k \in BusDevices(r), IsPrefix(exact[i], exact[k]) PROVE i = k
  <2>1. SUFFICES ASSUME i # k PROVE FALSE OBVIOUS
  <2>2. Bits(base(k)) \in Strings
    <3>1. base(k) \in Nat BY <1>1, <1>2
    <3> QED BY <3>1, AddressBits
  <2>3. IsPrefix(exact[k], Bits(base(k))) /\ IsPrefix(exact[i], Bits(base(k)))
    BY <1>4, <1>6, <2>2, PrefixTransitive
  <2>4. base(k) \in 0..Pow2[AddrBits] - 1 BY <1>1
  <2>5. /\ Span(r, i).lo <= base(k) /\ base(k) <= Span(r, i).hi
        /\ Span(r, k).lo <= base(k) /\ base(k) <= Span(r, k).hi
    BY <1>5, <2>3, <2>4
  <2>6. Span(r, i).lo = base(i) /\ Span(r, k).lo = base(k) BY DEF Span
  <2>7. Overlap(Span(r, i), Span(r, k))
    <3>1. base(i) <= base(k) /\ base(k) <= Span(r, i).hi /\ base(k) <= Span(r, k).hi BY <2>5, <2>6
    <3>2. base(i) \in Nat /\ base(k) \in Nat BY <1>1, <1>2
    <3>3. Span(r, k).hi \in Nat
      <4>1. Window(left(k)) \in Nat \ {0} BY <1>1, Pow2Facts DEF Window
      <4> DEFINE x == base(k) + Window(left(k)) - 1
                 y == Pow2[WordBits] - 1
      <4>2. Pow2[WordBits] \in Nat \ {0} BY <1>2, Pow2Facts
      <4>3. x \in Nat /\ y \in Nat BY <3>2, <4>1, <4>2
      <4>4. Span(r, k).hi = Min({x, y}) BY DEF Span
      <4> HIDE DEF x, y
      <4>5. \E z \in {x, y} : \A u \in {x, y} : z <= u BY <4>3
      <4>6. Min({x, y}) \in {x, y} BY <4>5 DEF Min
      <4> QED BY <4>3, <4>4, <4>6
    <3>4. base(i) <= Span(r, k).hi BY <3>1, <3>2, <3>3
    <3> HIDE DEF base
    <3> QED BY <2>6, <3>1, <3>4 DEF Overlap
  <2> QED BY <1>1, <2>1, <2>7
<1>7. ASSUME NEW i \in BusDevices(r), NEW a \in 0..Pow2[AddrBits] - 1, Region(a) = 10,
             NEW j \in 1..4, j <= Len(exact[i])
      PROVE  exact[i][j] = Bits(a)[j]
  <2>1. Bits(base(i))[j] = Bits(a)[j] BY <1>1, <1>7, RegionBits
  <2>2. j \in 1..n(i) BY <1>4, <1>7
  <2> QED BY <1>4, <2>1, <2>2
<1>8. Apart(exact) BY <1>4, <1>6, Zenon DEF Apart
<1>9. \A i \in BusDevices(r) : Len(exact[i]) <= AddrBits /\ Len(exact[i]) \in Nat BY <1>2, <1>4
<1> QED BY <1>5, <1>7, <1>8, <1>9

(* What decode_address returns for an address of the devices' region, for any devices    *)
(* and windows that pass the checks of addr_validate.go and that devicePrefix can slice:  *)
(* the one device whose window has the address, and for an address of no device none if   *)
(* the decoder is the exact one (decodeFunction, buildIfs and trimSuffix of databus.go).  *)
THEOREM DecoderFindsOwner ==
  ASSUME NEW r, AddressErrors(r) = {}, Sliceable(r), BusDevices(r) \subseteq Mapped(r),
         \A i \in BusDevices(r) : r.devices[i].base \in 0..Pow2[AddrBits] - 1,
         NEW a \in 0..Pow2[AddrBits] - 1, Region(a) = 10
  PROVE  LET owner == {i \in BusDevices(r) : Span(r, i).lo <= a /\ a <= Span(r, i).hi}
             dev == Decoded(DecodeFunction(r), a)
         IN  IF owner # {} THEN owner = {dev} ELSE r.bus.mode = "simple" \/ dev = NoDevice
<1> DEFINE owner == {i \in BusDevices(r) : Span(r, i).lo <= a /\ a <= Span(r, i).hi}
           code == DecodeFunction(r)
           exact == [i \in BusDevices(r) |-> DevicePrefix(r, i)]
           P == DevicePrefixes(r)
<1>1. CASE BusDevices(r) = {}
  <2>1. owner = {} BY <1>1
  <2>2. code = [enter |-> {}, stmts |-> <<>>] BY <1>1 DEF DecodeFunction
  <2>3. DOMAIN code.stmts = {} BY <2>2
  <2> HIDE DEF code
  <2>4. Decoded(code, a) = NoDevice BY <2>3 DEF Decoded
  <2> QED BY <2>1, <2>4 DEF code
<1>2. CASE BusDevices(r) # {}
  <2>1. /\ Apart(exact) /\ DOMAIN exact = BusDevices(r)
        /\ \A i \in BusDevices(r) :
             /\ Len(exact[i]) <= AddrBits /\ Len(exact[i]) \in Nat /\ exact[i] \in Strings
             /\ IsPrefix(exact[i], Bits(a)) <=> i \in owner
             /\ \A j \in 1..4 : j <= Len(exact[i]) => exact[i][j] = Bits(a)[j]
    <3>1. DOMAIN exact = BusDevices(r) OBVIOUS
    <3>2. Apart(exact) /\ \A i \in BusDevices(r) :
             /\ Len(exact[i]) <= AddrBits /\ Len(exact[i]) \in Nat
             /\ IsPrefix(exact[i], Bits(a)) <=> i \in owner
             /\ \A j \in 1..4 : j <= Len(exact[i]) => exact[i][j] = Bits(a)[j]
      BY WindowPrefixes
    <3> HIDE DEF exact, owner
    <3>3. \A i \in BusDevices(r) : exact[i] \in Strings BY <3>1, <3>2 DEF Apart
    <3> QED BY <3>1, <3>2, <3>3
  <2>2. P = IF r.bus.mode # "simple" THEN exact ELSE [i \in DOMAIN exact |-> TrimSuffix(exact, i)]
    BY DEF DevicePrefixes
  <2> HIDE DEF exact, owner
  <2>3. a \in Nat /\ Bits(a) \in Strings
    <3>1. Pow2[AddrBits] \in Nat BY AddressAssumption, Pow2Facts
    <3>2. a \in Nat BY <3>1
    <3> QED BY <3>2, AddressBits
  <2>4. /\ Apart(P) /\ DOMAIN P = BusDevices(r)
        /\ \A i \in BusDevices(r) : IsPrefix(P[i], exact[i])
    <3>1. CASE r.bus.mode # "simple"
      <4>1. P = exact BY <2>2, <3>1
      <4>2. \A i \in BusDevices(r) : IsPrefix(exact[i], exact[i]) BY <2>1, PrefixBits
      <4> HIDE DEF P
      <4> QED BY <2>1, <4>1, <4>2
    <3>2. CASE r.bus.mode = "simple"
      <4>1. P = [i \in DOMAIN exact |-> TrimSuffix(exact, i)] BY <2>2, <3>2
      <4> HIDE DEF P
      <4>2. Apart(P) BY <2>1, <4>1, TrimmedApart
      <4>3. \A i \in DOMAIN exact : IsPrefix(TrimSuffix(exact, i), exact[i]) BY <2>1, TrimmedApart
      <4> QED BY <2>1, <4>1, <4>2, <4>3
    <3> QED BY <3>1, <3>2
  <2>5. \A i \in BusDevices(r) : P[i] \in Strings BY <2>4 DEF Apart
  <2>6. ASSUME NEW i \in BusDevices(r)
        PROVE  /\ Len(P[i]) <= AddrBits
               /\ \A j \in 1..4 : j <= Len(P[i]) => P[i][j] = Bits(a)[j]
               /\ IsPrefix(exact[i], Bits(a)) => IsPrefix(P[i], Bits(a))
    <3> HIDE DEF P
    <3>1. /\ Len(P[i]) \in 0..Len(exact[i]) /\ Len(exact[i]) \in Nat
          /\ \A j \in 1..Len(P[i]) : P[i][j] = exact[i][j]
      BY <2>1, <2>4, <2>5, PrefixOrder
    <3>2. Len(P[i]) <= AddrBits
      <4>1. Len(exact[i]) <= AddrBits /\ AddrBits \in Nat BY <2>1, AddressAssumption
      <4> QED BY <3>1, <4>1
    <3>3. ASSUME NEW j \in 1..4, j <= Len(P[i]) PROVE P[i][j] = Bits(a)[j]
      <4>1. j \in 1..Len(P[i]) /\ j <= Len(exact[i]) BY <3>1, <3>3
      <4> QED BY <2>1, <3>1, <4>1
    <3>4. IsPrefix(exact[i], Bits(a)) => IsPrefix(P[i], Bits(a))
      BY <2>1, <2>3, <2>4, <2>5, PrefixTransitive
    <3> QED BY <3>2, <3>3, <3>4
  <2>7. /\ \A i \in BusDevices(r) : IsPrefix(P[i], Bits(a)) => Decoded(code, a) = i
        /\ (\A i \in BusDevices(r) : ~IsPrefix(P[i], Bits(a))) => Decoded(code, a) = NoDevice
    <3>1. /\ code.stmts = BuildIfs(P)
          /\ LET whole == ExtractPrefix(P, <<>>)
             IN  code.enter = IF Len(whole) <= 4 THEN {}
                              ELSE {Test(AddrBits - 5, SubSeq(whole, 5, Len(whole)), whole)}
      BY <1>2 DEF DecodeFunction
    <3> HIDE DEF P, code
    <3>2. /\ Apart(P) /\ DOMAIN P # {} /\ \A i \in DOMAIN P : Len(P[i]) <= AddrBits
          /\ \A i \in DOMAIN P : \A j \in 1..4 : j <= Len(P[i]) => P[i][j] = Bits(a)[j]
      BY <1>2, <2>4, <2>6
    <3>3. /\ \A i \in DOMAIN P : IsPrefix(P[i], Bits(a)) => Decoded(code, a) = i
          /\ (\A i \in DOMAIN P : ~IsPrefix(P[i], Bits(a))) => Decoded(code, a) = NoDevice
      BY <2>3, <3>1, <3>2, DecodedDevice
    <3> QED BY <2>4, <3>3
  <2> DEFINE dev == Decoded(code, a)
  <2>8. \A i \in owner : i \in BusDevices(r) /\ i = dev
    <3>1. \A i \in owner : i \in BusDevices(r) BY DEF owner
    <3> HIDE DEF P, code
    <3> QED BY <2>1, <2>6, <2>7, <3>1
  <2>9. owner = {} => r.bus.mode = "simple" \/ dev = NoDevice
    <3>1. ASSUME owner = {}, r.bus.mode # "simple" PROVE dev = NoDevice
      <4>1. P = exact BY <2>2, <3>1
      <4> HIDE DEF P, code
      <4>2. \A i \in BusDevices(r) : ~IsPrefix(P[i], Bits(a)) BY <2>1, <3>1, <4>1
      <4> QED BY <2>7, <4>2
    <3> QED BY <3>1
  <2> HIDE DEF P, code, dev
  <2>10. IF owner # {} THEN owner = {dev} ELSE r.bus.mode = "simple" \/ dev = NoDevice BY <2>8, <2>9
  <2> QED BY <2>10 DEF owner, dev, code
<1> QED BY <1>1, <1>2

-------------------------------------------------------------------------------
(* The registers of a class, and the window that is taken for them. *)

(* The number of bits that CeilLog2 gives is enough. *)
LEMMA CeilLog2Covers ==
  ASSUME NEW n \in Nat
  PROVE  CeilLog2(n) \in Nat /\ n <= Pow2[CeilLog2(n)]
<1> DEFINE T == {m \in Nat : m <= Pow2[m]}
           S == {k \in 0..n : n <= Pow2[k]}
<1>1. T = Nat
  <2>1. 0 \in T BY Pow2Facts
  <2>2. ASSUME NEW m \in T PROVE m + 1 \in T
    <3>1. m \in Nat /\ m <= Pow2[m] /\ Pow2[m] \in Nat \ {0} /\ Pow2[m + 1] = 2 * Pow2[m] BY Pow2Facts
    <3> QED BY <3>1
  <2>3. T \in SUBSET Nat OBVIOUS
  <2> HIDE DEF T
  <2> QED BY <2>1, <2>2, <2>3, AllNumbers
<1>2. n \in S BY <1>1
<1>3. S \in SUBSET Nat OBVIOUS
<1> HIDE DEF S
<1>4. PICK k \in S : \A y \in S : k <= y BY <1>2, <1>3, LeastNumber
<1>5. k \in 0..n /\ Pow2[k] >= n /\ (k = 0 \/ Pow2[k - 1] < n)
  <2>1. k \in 0..n /\ n <= Pow2[k] BY <1>4 DEF S
  <2>2. ASSUME k # 0 PROVE Pow2[k - 1] < n
    <3>1. k - 1 \in 0..n /\ k - 1 < k BY <2>1, <2>2
    <3>2. ~(n <= Pow2[k - 1])
      <4>1. k - 1 \notin S BY <1>4, <2>1, <3>1
      <4> QED BY <3>1, <4>1 DEF S
    <3>3. Pow2[k - 1] \in Nat BY <3>1, Pow2Facts
    <3> QED BY <3>2, <3>3
  <2>3. Pow2[k] \in Nat BY <2>1, Pow2Facts
  <2> QED BY <2>1, <2>2, <2>3
<1>6. CeilLog2(n) \in 0..n /\ Pow2[CeilLog2(n)] >= n BY <1>5 DEF CeilLog2
<1>7. CeilLog2(n) \in Nat BY <1>6
<1>8. Pow2[CeilLog2(n)] \in Nat BY <1>7, Pow2Facts
<1> QED BY <1>6, <1>7, <1>8

(* A register as a class lists it. *)
Register == [name : STRING, addr : Int, width : Int]

(* Where the registers are placed: the recursion has a value, and it is a number. *)
LEMMA PlacedNumbers ==
  ASSUME NEW regs \in Seq(Register)
  PROVE  /\ Len(regs) \in Nat /\ DOMAIN PlacedRegs(regs) = 1..Len(regs)
         /\ \A k \in 1..Len(regs) : PlacedRegs(regs)[k].addr \in Int /\ PlacedRegs(regs)[k].width \in Int
<1> DEFINE size(k) == RegWidth(regs[k])
           at(k, next) == RegAddr(regs[k], next)
           Steps(m, g) == /\ g \in [0..m -> Int] /\ g[0] = 0
                          /\ \A k \in 1..m : g[k] = at(k, g[k - 1]) + size(k)
           Values(f) == [k \in 0..Len(regs) |-> IF k = 0 THEN 0 ELSE at(k, f[k - 1]) + size(k)]
<1>1. Len(regs) \in Nat /\ DOMAIN regs = 1..Len(regs) OBVIOUS
<1>2. ASSUME NEW k \in 1..Len(regs), NEW next \in Int PROVE at(k, next) \in Int /\ size(k) \in Int
  <2>1. regs[k] \in Register BY <1>1
  <2> QED BY <2>1 DEF Register, RegAddr, RegWidth
<1>3. \A k \in DOMAIN regs : /\ PlacedRegs(regs)[k].addr = at(k, AfterRegs(regs)[k - 1])
                             /\ PlacedRegs(regs)[k].width = size(k)
  BY DEF PlacedRegs
<1>4. AfterRegs(regs) = CHOOSE f : f = Values(f) BY DEF AfterRegs
<1> HIDE DEF at, size
<1> DEFINE T == {m \in Nat : m <= Len(regs) => \E g : Steps(m, g)}
<1>5. T = Nat
  <2>1. 0 \in T
    <3>1. Steps(0, [k \in 0..0 |-> 0]) OBVIOUS
    <3> QED BY <3>1
  <2>2. ASSUME NEW m \in T PROVE m + 1 \in T
    <3> HIDE DEF Steps
    <3>0. (m + 1 <= Len(regs) => \E g : Steps(m + 1, g)) => m + 1 \in T OBVIOUS
    <3>1. SUFFICES ASSUME m + 1 <= Len(regs) PROVE \E g : Steps(m + 1, g) BY <3>0
    <3> USE DEF Steps
    <3>2. m \in Nat /\ m <= Len(regs) /\ m + 1 \in 1..Len(regs) BY <1>1, <3>1
    <3>3. PICK g : Steps(m, g) BY <3>2
    <3> DEFINE last == at(m + 1, g[m]) + size(m + 1)
               h == [k \in 0..m + 1 |-> IF k = m + 1 THEN last ELSE g[k]]
    <3>4. last \in Int
      <4>1. g[m] \in Int BY <3>2, <3>3
      <4>2. at(m + 1, g[m]) \in Int /\ size(m + 1) \in Int BY <1>2, <3>2, <4>1
      <4> QED BY <4>2
    <3> HIDE DEF last
    <3>5. h \in [0..m + 1 -> Int] /\ h[0] = 0 BY <3>2, <3>3, <3>4
    <3>6. ASSUME NEW k \in 1..m + 1 PROVE h[k] = at(k, h[k - 1]) + size(k)
      <4>1. CASE k = m + 1
        <5>1. k - 1 = m /\ h[m] = g[m] /\ h[k] = last BY <3>2, <4>1
        <5> QED BY <4>1, <5>1 DEF last
      <4>2. CASE k \in 1..m
        <5>1. h[k] = g[k] /\ h[k - 1] = g[k - 1] BY <3>2, <4>2
        <5> QED BY <3>3, <4>2, <5>1
      <4> QED BY <3>2, <4>1, <4>2
    <3> QED BY <3>5, <3>6
  <2>3. T \in SUBSET Nat OBVIOUS
  <2> HIDE DEF T
  <2> QED BY <2>1, <2>2, <2>3, AllNumbers
<1>6. \E f : f = Values(f)
  <2>1. PICK g : Steps(Len(regs), g)
    <3>1. Len(regs) \in T BY <1>1, <1>5
    <3> HIDE DEF Steps
    <3> QED BY <1>1, <3>1
  <2>2. g = Values(g) BY <1>1, <2>1
  <2> QED BY <2>2
<1> DEFINE f == AfterRegs(regs)
<1>7. f = Values(f)
  <2> HIDE DEF Values
  <2> QED BY <1>4, <1>6
<1> HIDE DEF f
<1>8. f[0] = 0 /\ \A k \in 1..Len(regs) : f[k] = at(k, f[k - 1]) + size(k) BY <1>1, <1>7
<1> HIDE DEF Values
<1> DEFINE U == {k \in Nat : k <= Len(regs) => f[k] \in Int}
<1>9. U = Nat
  <2>1. 0 \in U BY <1>8
  <2>2. ASSUME NEW k \in U PROVE k + 1 \in U
    <3>1. SUFFICES ASSUME k + 1 <= Len(regs) PROVE f[k + 1] \in Int OBVIOUS
    <3>2. k \in Nat /\ f[k] \in Int /\ k + 1 \in 1..Len(regs) /\ (k + 1) - 1 = k BY <1>1, <3>1
    <3>3. f[k + 1] = at(k + 1, f[k]) + size(k + 1) BY <1>8, <3>2
    <3>4. at(k + 1, f[k]) \in Int /\ size(k + 1) \in Int BY <1>2, <3>2
    <3> QED BY <3>3, <3>4
  <2>3. U \in SUBSET Nat OBVIOUS
  <2> HIDE DEF U
  <2> QED BY <2>1, <2>2, <2>3, AllNumbers
<1>10. ASSUME NEW k \in 1..Len(regs) PROVE PlacedRegs(regs)[k].addr \in Int /\ PlacedRegs(regs)[k].width \in Int
  <2>1. k - 1 \in Nat /\ k - 1 <= Len(regs) BY <1>1
  <2>2. f[k - 1] \in Int BY <1>9, <2>1
  <2> QED BY <1>1, <1>2, <1>3, <2>2 DEF f
<1>11. DOMAIN PlacedRegs(regs) = 1..Len(regs) BY <1>1 DEF PlacedRegs
<1> QED BY <1>1, <1>10, <1>11

(* The largest of some numbers and of 1. *)
LEMMA LargestOfList ==
  ASSUME NEW n \in Nat, NEW f, \A k \in 1..n : f[k] \in Int
  PROVE  LET S == {1} \union {f[k] : k \in 1..n}
         IN  Max(S) \in Nat /\ \A k \in 1..n : f[k] <= Max(S)
<1> DEFINE S == {1} \union {f[k] : k \in 1..n}
           Bounds(m, x) == x \in S /\ 1 <= x /\ x \in Int /\ \A k \in 1..m : f[k] <= x
           T == {m \in Nat : m <= n => \E x : Bounds(m, x)}
<1>1. T = Nat
  <2>1. 0 \in T
    <3>1. Bounds(0, 1) OBVIOUS
    <3> QED BY <3>1
  <2>2. ASSUME NEW m \in T PROVE m + 1 \in T
    <3> HIDE DEF Bounds
    <3>0. (m + 1 <= n => \E x : Bounds(m + 1, x)) => m + 1 \in T OBVIOUS
    <3>1. SUFFICES ASSUME m + 1 <= n PROVE \E x : Bounds(m + 1, x) BY <3>0
    <3>2. m \in Nat /\ m <= n /\ m + 1 \in 1..n BY <3>1
    <3>3. PICK x : Bounds(m, x) BY <3>2
    <3>4. f[m + 1] \in Int /\ f[m + 1] \in S BY <3>2
    <3>5. x \in S /\ 1 <= x /\ x \in Int /\ \A k \in 1..m : f[k] <= x BY <3>3 DEF Bounds
    <3>6. \A k \in 1..m + 1 : k \in 1..m \/ k = m + 1 BY <3>2
    <3> HIDE DEF S
    <3>7. CASE f[m + 1] <= x
      <4>1. Bounds(m + 1, x) BY <3>5, <3>6, <3>7 DEF Bounds
      <4> QED BY <4>1
    <3>8. CASE ~(f[m + 1] <= x)
      <4>1. \A k \in 1..m : f[k] \in Int BY <3>2
      <4>2. \A k \in 1..m + 1 : f[k] <= f[m + 1] BY <3>4, <3>5, <3>6, <3>8, <4>1
      <4>3. Bounds(m + 1, f[m + 1]) BY <3>4, <3>5, <3>8, <4>2 DEF Bounds
      <4> QED BY <4>3
    <3> QED BY <3>7, <3>8
  <2>3. T \in SUBSET Nat OBVIOUS
  <2> HIDE DEF T
  <2> QED BY <2>1, <2>2, <2>3, AllNumbers
<1>2. PICK x : Bounds(n, x)
  <2>1. n \in T BY <1>1
  <2> HIDE DEF Bounds
  <2> QED BY <2>1
<1>3. x \in S /\ \A y \in S : x >= y BY <1>2
<1>4. \A y \in S : y \in Int OBVIOUS
<1>5. \A k \in 1..n : f[k] \in S OBVIOUS
<1>6. 1 \in S OBVIOUS
<1> HIDE DEF S
<1>7. Max(S) \in S /\ \A y \in S : Max(S) >= y BY <1>3 DEF Max
<1>8. Max(S) \in Int /\ Max(S) >= 1 BY <1>4, <1>6, <1>7
<1>9. \A k \in 1..n : f[k] <= Max(S) BY <1>4, <1>5, <1>7
<1> QED BY <1>8, <1>9 DEF S

(* A class's window, of 2^(left + 1) bytes, has all bytes of its registers in it:      *)
(* resolveRegs takes the bits of the last one, and never less if the class asks for it. *)
LEMMA RegistersFit ==
  ASSUME NEW regs, NEW n \in Nat, DOMAIN regs = 1..n,
         \A k \in 1..n : regs[k].addr \in Int /\ regs[k].width \in Int, NEW left \in Int
  PROVE  /\ LeftBitOf(regs, left) \in Int
         /\ \A k \in 1..n : regs[k].addr + regs[k].width <= Pow2[LeftBitOf(regs, left) + 1]
<1> DEFINE f == [k \in 1..n |-> regs[k].addr + regs[k].width]
           S == {1} \union {f[k] : k \in 1..n}
           bits == CeilLog2(Max(S))
<1>1. \A k \in 1..n : f[k] = regs[k].addr + regs[k].width /\ f[k] \in Int OBVIOUS
<1>2. {1} \union {regs[i].addr + regs[i].width : i \in DOMAIN regs} = S OBVIOUS
<1> HIDE DEF f
<1>3. Max(S) \in Nat /\ \A k \in 1..n : f[k] <= Max(S) BY <1>1, LargestOfList
<1>4. RequiredBits(regs) = bits - 1
  <2> HIDE DEF S
  <2> QED BY <1>2 DEF RequiredBits
<1> HIDE DEF S
<1>5. bits \in Nat /\ Max(S) <= Pow2[bits] BY <1>3, CeilLog2Covers
<1> HIDE DEF bits
<1>6. LeftBitOf(regs, left) \in Int BY <1>4, <1>5 DEF LeftBitOf
<1>7. ASSUME NEW k \in 1..n PROVE regs[k].addr + regs[k].width <= Pow2[LeftBitOf(regs, left) + 1]
  <2>1. regs # <<>>
    <3>1. DOMAIN <<>> = {} /\ k \in DOMAIN regs OBVIOUS
    <3> QED BY <3>1
  <2>2. LeftBitOf(regs, left) \in Int /\ bits - 1 <= LeftBitOf(regs, left)
    BY <1>4, <1>5, <2>1 DEF LeftBitOf
  <2> DEFINE m == LeftBitOf(regs, left) + 1
  <2>3. m \in Nat /\ bits <= m BY <1>5, <2>2
  <2> HIDE DEF m
  <2>4. Pow2[bits] <= Pow2[m] BY <1>5, <2>3, Pow2Grows
  <2>5. Pow2[bits] \in Nat /\ Pow2[m] \in Nat BY <1>5, <2>3, Pow2Facts
  <2>6. f[k] <= Pow2[m]
    <3>1. f[k] \in Int /\ f[k] <= Max(S) BY <1>1, <1>3
    <3> QED BY <1>3, <1>5, <2>4, <2>5, <3>1
  <2> QED BY <1>1, <2>6 DEF m
<1> QED BY <1>6, <1>7

-------------------------------------------------------------------------------
(* The run: what the passes keep of the devices up to the files. *)

(* The checks of the addresses look at the devices and at their classes. *)
LEMMA AddressErrorsOf ==
  ASSUME NEW r, NEW s, r.devices = s.devices, r.classes = s.classes
  PROVE  AddressErrors(r) = AddressErrors(s)
<1>1. Mapped(r) = Mapped(s) BY DEF Mapped
<1>2. \A i : LeftOf(r, i) = LeftOf(s, i) BY DEF LeftOf
<1>3. \A i : Span(r, i) = Span(s, i) BY <1>2 DEF Span
<1>4. OverlapErrors(r) = OverlapErrors(s)
  <2>1. {i \in Mapped(r) : LeftFits(LeftOf(r, i))} = {i \in Mapped(s) : LeftFits(LeftOf(s, i))} BY <1>1, <1>2
  <2> QED BY <1>3, <2>1 DEF OverlapErrors
<1> DEFINE bad(x) == {i \in Mapped(x) : Region(x.devices[i].base) # 10}
           wide(x) == {i \in Mapped(x) : ~LeftFits(LeftOf(x, i))}
           over(x) == {i \in Mapped(x) : LeftFits(LeftOf(x, i)) /\ x.devices[i].base % Window(LeftOf(x, i)) # 0}
<1>5. bad(r) = bad(s) BY <1>1
<1>6. wide(r) = wide(s) BY <1>1, <1>2
<1>7. over(r) = over(s) BY <1>1, <1>2
<1>8. \A x : AddressErrors(x) =
          {<<"bad region", x.devices[i].name>> : i \in bad(x)}
          \union {<<"left-addr-bit", x.devices[i].name>> : i \in wide(x)}
          \union {<<"over-specified", x.devices[i].name>> : i \in over(x)}
          \union OverlapErrors(x)
  BY DEF AddressErrors
<1> HIDE DEF bad, wide, over
<1> QED BY <1>4, <1>5, <1>6, <1>7, <1>8

(* What the passes keep of the devices and of their classes once they are bound: an   *)
(* address as it was read, a class that is known or a note that it is not, registers  *)
(* inside the window; from their check on, the notes about the addresses; and in a    *)
(* run that is done no window that the decoder could not slice.                       *)
AfterBind == {"connect", "entities", "gather", "pins", "zeros", "inject", "prune", "categorize",
          "addresses", "irqs", "build", "done"}
DeviceKept(dev, classes) ==
    /\ {"class", "base", "dataBus", "ports"} \subseteq DOMAIN dev
    /\ dev.base \in Nat \union {None}
    /\ Lc(dev.class) \in DOMAIN classes \/ <<"unknown class", Lc(dev.class)>> \in errs
RegistersKept(classes) ==
    \A key \in DOMAIN classes : \A k \in DOMAIN classes[key].regs :
        LET c == classes[key]
        IN  /\ c.regs[k].addr \in Int /\ c.regs[k].width \in Int
            /\ c.regs[k].addr + c.regs[k].width <= Window(c.left)
DevicesInv ==
    /\ DOMAIN res = DOMAIN Unresolved
    /\ pc = "bind" => DesignTyped(d)
    /\ pc \in AfterBind => RegistersKept(res.classes)
    /\ pc \in AfterBind => \A i \in DOMAIN res.devices : DeviceKept(res.devices[i], res.classes)
    /\ pc \in {"irqs", "build", "done"} => AddressErrors(res) \subseteq errs
    /\ pc = "done" /\ res.bus.on => Sliceable(res)

(* resolveClass: the window of a class has its registers. *)
LEMMA ClassFits ==
  ASSUME NEW design, DesignTyped(design), NEW name \in DOMAIN design.classes,
         NEW k \in DOMAIN ClassOf(design, name).regs
  PROVE  LET c == ClassOf(design, name)
         IN  /\ c.regs[k].addr \in Int /\ c.regs[k].width \in Int
             /\ c.regs[k].addr + c.regs[k].width <= Window(c.left)
<1> DEFINE listed == design.classes[name].regs
           left == design.classes[name].left
           placed == PlacedRegs(listed)
           c == ClassOf(design, name)
<1>1. listed \in Seq(Register) /\ left \in Int BY DEF DesignTyped, Register
<1>2. \/ c.regs = <<>>
      \/ c.regs = placed /\ c.left = LeftBitOf(placed, left)
  BY DEF ClassOf, ResolvedClass
<1> HIDE DEF c, placed, listed, left
<1>3. CASE c.regs = <<>>
  <2>1. DOMAIN c.regs = {} BY <1>3
  <2> QED BY <2>1 DEF c
<1>4. CASE c.regs = placed /\ c.left = LeftBitOf(placed, left)
  <2>1. /\ Len(listed) \in Nat /\ DOMAIN placed = 1..Len(listed)
        /\ \A n \in 1..Len(listed) : placed[n].addr \in Int /\ placed[n].width \in Int
    BY <1>1, PlacedNumbers DEF placed
  <2>2. \A n \in 1..Len(listed) : placed[n].addr + placed[n].width <= Pow2[LeftBitOf(placed, left) + 1]
    BY <1>1, <2>1, RegistersFit
  <2>3. k \in 1..Len(listed) BY <1>4, <2>1 DEF c
  <2> QED BY <1>4, <2>1, <2>2, <2>3 DEF c, Window
<1> QED BY <1>2, <1>3, <1>4

(* Before the devices are bound there is nothing to keep. *)
LEMMA DevicesInvInit == Init => /\ DevicesInv /\ files \in Boards
BY DEF Init, DevicesInv, AfterBind

(* Every pass keeps it: binding makes it, the later passes change other fields. *)
LEMMA DevicesInvNext == DevicesInv /\ files \in Boards /\ [Next]_vars => DevicesInv' /\ files' \in Boards
<1> SUFFICES ASSUME DevicesInv, files \in Boards, [Next]_vars PROVE DevicesInv' /\ files' \in Boards
  OBVIOUS
<1>0. {"classes", "devices", "tops", "pads", "refs", "bus", "pins", "bound", "loc", "pio", "irq"} = DOMAIN Unresolved
  BY DEF Unresolved
<1>k. pc \in AfterBind /\ res'.classes = res.classes => RegistersKept(res.classes)'
  BY DEF DevicesInv, RegistersKept
(* A pass that leaves the devices and their classes alone. *)
<1>1. ASSUME pc \in AfterBind, pc' \in AfterBind, pc \notin {"addresses", "build"}, DOMAIN res' = DOMAIN res,
             res'.devices = res.devices, res'.classes = res.classes, errs \subseteq errs',
             pc' \in {"irqs", "build", "done"} => pc \in {"irqs", "build", "done"}, pc' # "done",
             UNCHANGED files
      PROVE  DevicesInv' /\ files' \in Boards
  <2>1. \A i \in DOMAIN res.devices : DeviceKept(res.devices[i], res.classes)'
    BY <1>1 DEF DevicesInv, DeviceKept
  <2>2. pc' \in {"irqs", "build", "done"} => (AddressErrors(res) \subseteq errs)'
    BY <1>1, AddressErrorsOf DEF DevicesInv
  <2>3. pc' # "bind" BY <1>1 DEF AfterBind
  <2>4. RegistersKept(res.classes)' BY <1>k, <1>1
  <2> QED BY <1>1, <2>1, <2>2, <2>3, <2>4 DEF DevicesInv
<1>2. CASE Load
  <2> DEFINE root == ReadTree(files, BoardFile)
  <2>1. res' = res /\ files' = files /\ pc' \in {"bind", "aborted"} BY <1>2 DEF Load
  <2>2. ASSUME pc' = "bind" PROVE DesignTyped(d)'
    <3>1. WellTyped(root) /\ d' = Decode(root) BY <1>2, <2>2 DEF Load
    <3> HIDE DEF root
    <3>2. DesignTyped(Decode(root)) BY <3>1, BoardsAssumption DEF root
    <3> QED BY <3>1, <3>2 DEF DesignTyped
  <2> QED BY <2>1, <2>2 DEF DevicesInv, AfterBind
<1>3. CASE BindDevices
  <2>1. PICK pick \in ClassChoices(d) :
          LET classes == Classes(d, pick)
              devices == Devices(d, classes)
          IN  /\ res' = [res EXCEPT !.classes = classes, !.devices = devices]
              /\ Note(DeviceErrors(d, classes, devices))
    BY <1>3 DEF BindDevices
  <2> DEFINE classes == Classes(d, pick)
             devices == Devices(d, classes)
  <2>2. res' = [res EXCEPT !.classes = classes, !.devices = devices] /\ errs' = errs \union DeviceErrors(d, classes, devices)
    BY <2>1 DEF Note
  <2> HIDE DEF classes
  <2>3. /\ DOMAIN devices = DOMAIN d.devices
        /\ \A i \in DOMAIN devices :
             /\ {"class", "base", "dataBus", "ports"} \subseteq DOMAIN devices[i]
             /\ devices[i].class = d.devices[i].class /\ devices[i].base = d.devices[i].base
    BY DEF Devices
  <2> HIDE DEF devices
  <2>4. /\ DOMAIN res' = DOMAIN res /\ res'.classes = classes /\ res'.devices = devices
    BY <2>2, <1>0 DEF DevicesInv
  <2>5. pc = "bind" /\ pc' = "connect" /\ files' = files BY <1>3 DEF BindDevices, Step
  <2>6. ASSUME NEW i \in DOMAIN res'.devices PROVE DeviceKept(res.devices[i], res.classes)'
    <3>0. i \in DOMAIN devices /\ res'.devices[i] = devices[i] BY <2>4, <2>6
    <3>1. devices[i].base \in Nat \union {None} BY <2>3, <2>5, <3>0 DEF DevicesInv, DesignTyped
    <3>2. Lc(devices[i].class) \in ClassKeys(d) BY <2>3, <3>0 DEF ClassKeys
    <3>3. {<<"unknown class", key>> : key \in ClassKeys(d) \ DOMAIN classes} \subseteq errs'
      BY <2>2 DEF DeviceErrors
    <3>4. Lc(devices[i].class) \in DOMAIN classes \/ <<"unknown class", Lc(devices[i].class)>> \in errs'
      BY <3>2, <3>3
    <3> QED BY <2>3, <2>4, <3>0, <3>1, <3>4 DEF DeviceKept
  <2>7. RegistersKept(res.classes)'
    <3>1. \A key \in ClassKeys(d) : ClassNames(d, key) \subseteq DOMAIN d.classes
      BY DEF ClassNames
    <3>2. DOMAIN pick \subseteq ClassKeys(d) /\ \A key \in DOMAIN pick : pick[key] \in ClassNames(d, key)
      BY DEF ClassChoices
    <3>3. classes = [key \in DOMAIN pick |-> ClassOf(d, pick[key])] BY DEF classes, Classes
    <3>4. ASSUME NEW key \in DOMAIN classes
          PROVE  \E name \in DOMAIN d.classes : classes[key] = ClassOf(d, name)
      BY <3>1, <3>2, <3>3
    <3>5. DesignTyped(d) BY <2>5 DEF DevicesInv
    <3>6. ASSUME NEW key \in DOMAIN classes, NEW k \in DOMAIN classes[key].regs
          PROVE  LET c == classes[key]
                 IN  /\ c.regs[k].addr \in Int /\ c.regs[k].width \in Int
                     /\ c.regs[k].addr + c.regs[k].width <= Window(c.left)
      BY <3>4, <3>5, <3>6, ClassFits
    <3> QED BY <2>4, <3>6 DEF RegistersKept
  <2> QED BY <2>4, <2>5, <2>6, <2>7 DEF DevicesInv
<1>4. CASE Connect
  <2>1. /\ pc = "connect" /\ pc' = "entities" /\ files' = files
        /\ res' = [res EXCEPT !.devices = ConnectDevices(d, res.devices)] /\ errs \subseteq errs'
    BY <1>4 DEF Connect, Step, Note
  <2>2. DOMAIN res' = DOMAIN res /\ res'.classes = res.classes /\ res'.devices = ConnectDevices(d, res.devices)
    BY <2>1, <1>0 DEF DevicesInv
  <2>3. ASSUME NEW i \in DOMAIN res'.devices PROVE DeviceKept(res.devices[i], res.classes)'
    <3>1. i \in DOMAIN res.devices /\ res'.devices[i] = Classified(res.devices[i], DevicePorts(d, res.devices[i], i))
      BY <2>2, <2>3 DEF ConnectDevices
    <3>2. DeviceKept(res.devices[i], res.classes) BY <2>1, <3>1 DEF DevicesInv, AfterBind
    <3>3. /\ DOMAIN res'.devices[i] = DOMAIN res.devices[i]
          /\ res'.devices[i].class = res.devices[i].class /\ res'.devices[i].base = res.devices[i].base
      BY <3>1, <3>2 DEF Classified, DeviceKept
    <3> QED BY <2>1, <2>2, <3>2, <3>3 DEF DeviceKept
  <2> QED BY <1>k, <2>1, <2>2, <2>3 DEF DevicesInv, AfterBind
<1>5. CASE BindEntities
  BY <1>0, <1>1, <1>5 DEF BindEntities, Step, Note, DevicesInv, AfterBind
<1>6. CASE Gather BY <1>0, <1>1, <1>6 DEF Gather, Step, Note, DevicesInv, AfterBind
<1>7. CASE PlacePins BY <1>0, <1>1, <1>7 DEF PlacePins, Step, Note, DevicesInv, AfterBind
<1>8. CASE CheckSignals BY <1>0, <1>1, <1>8 DEF CheckSignals, Step, Note, DevicesInv, AfterBind
<1>9. CASE InjectBuses BY <1>0, <1>1, <1>9 DEF InjectBuses, Step, Note, DevicesInv, AfterBind
<1>10. CASE RemoveWriteOnly
  <2> DEFINE gone == WriteOnly(d, res)
  <2>1. /\ pc = "prune" /\ pc' = "categorize" /\ files' = files /\ errs' = errs /\ res' = Prune(d, res)
    BY <1>10 DEF RemoveWriteOnly, Step
  <2>2. DOMAIN res' = DOMAIN res /\ res'.classes = res.classes /\ res'.devices = WithoutPorts(res.devices, gone)
    BY <2>1, <1>0 DEF DevicesInv, Prune
  <2> HIDE DEF gone
  <2>3. ASSUME NEW i \in DOMAIN res'.devices PROVE DeviceKept(res.devices[i], res.classes)'
    <3>1. i \in DOMAIN res.devices BY <2>2, <2>3 DEF WithoutPorts
    <3>2. DeviceKept(res.devices[i], res.classes) BY <2>1, <3>1 DEF DevicesInv, AfterBind
    <3>3. /\ DOMAIN res'.devices[i] = DOMAIN res.devices[i]
          /\ res'.devices[i].class = res.devices[i].class /\ res'.devices[i].base = res.devices[i].base
      BY <2>2, <3>1, <3>2 DEF DeviceKept, WithoutPorts
    <3> QED BY <2>1, <2>2, <3>2, <3>3 DEF DeviceKept
  <2> QED BY <1>k, <2>1, <2>2, <2>3 DEF DevicesInv, AfterBind
<1>11. CASE PlaceSignals BY <1>0, <1>1, <1>11 DEF PlaceSignals, Step, Note, DevicesInv, AfterBind
<1>12. CASE CheckAddresses
  <2>1. /\ pc = "addresses" /\ pc' = "irqs" /\ files' = files
        /\ errs' = errs \union AddressErrors(res) /\ res' = [res EXCEPT !.pio = ResolvePio(d.pio)]
    BY <1>12 DEF CheckAddresses, Step, Note
  <2>2. DOMAIN res' = DOMAIN res /\ res'.classes = res.classes /\ res'.devices = res.devices
    BY <2>1, <1>0 DEF DevicesInv
  <2>3. AddressErrors(res') = AddressErrors(res) BY <2>2, AddressErrorsOf
  <2>4. ASSUME NEW i \in DOMAIN res'.devices PROVE DeviceKept(res.devices[i], res.classes)'
    <3>1. DeviceKept(res.devices[i], res.classes) BY <2>1, <2>2, <2>4 DEF DevicesInv, AfterBind
    <3>2. errs \subseteq errs' BY <2>1
    <3> QED BY <2>2, <3>1, <3>2 DEF DeviceKept
  <2> QED BY <1>k, <2>1, <2>2, <2>3, <2>4 DEF DevicesInv, AfterBind
<1>13. CASE WireIrqs BY <1>0, <1>1, <1>13 DEF WireIrqs, Step, Note, DevicesInv, AfterBind
<1>14. CASE Generate
  <2>1. /\ pc = "build" /\ res' = res /\ files' = files /\ errs \subseteq errs'
        /\ pc' \in {"aborted", "panicked", "done"} /\ (pc' = "done" /\ res.bus.on => Sliceable(res))
    BY <1>14 DEF Generate, Note
  <2>2. \A i \in DOMAIN res.devices : DeviceKept(res.devices[i], res.classes)'
    BY <2>1 DEF DevicesInv, DeviceKept, AfterBind
  <2> QED BY <1>k, <2>1, <2>2 DEF DevicesInv, AfterBind
<1>15. CASE UNCHANGED vars BY <1>15 DEF vars, DevicesInv, DeviceKept, RegistersKept
<1> QED BY <1>2, <1>3, <1>4, <1>5, <1>6, <1>7, <1>8, <1>9, <1>10, <1>11, <1>12, <1>13, <1>14, <1>15 DEF Next

(* What a design that is taken has passed. *)
LEMMA AcceptedPassed ==
  ASSUME DevicesInv, Accepted, res.bus.on, \A i \in BusDevices(res) : res.devices[i].base < Pow2[AddrBits]
  PROVE  /\ AddressErrors(res) = {} /\ Sliceable(res) /\ RegistersKept(res.classes)
         /\ BusDevices(res) \subseteq Mapped(res)
         /\ \A i \in BusDevices(res) : res.devices[i].base \in 0..Pow2[AddrBits] - 1
<1>1. pc = "done" /\ errs \subseteq {<<"undriven", s>> : s \in DrivenLater} BY DEF Accepted, Done
<1>2. /\ AddressErrors(res) \subseteq errs /\ Sliceable(res) /\ RegistersKept(res.classes)
      /\ \A i \in DOMAIN res.devices : DeviceKept(res.devices[i], res.classes)
  BY <1>1 DEF DevicesInv, AfterBind
<1>3. \A e \in errs : e[1] = "undriven" BY <1>1
<1>4. AddressErrors(res) = {}
  <2>1. \A e \in AddressErrors(res) : e[1] \in {"bad region", "left-addr-bit", "over-specified", "overlap"}
    <3> DEFINE Only(S, k) == \A e \in S : e[1] = k
               named(T, k) == {<<k, res.devices[i].name>> : i \in T}
    <3>1. \A T, k : Only(named(T, k), k) OBVIOUS
    <3>2. \E T1, T2, T3, T4 : AddressErrors(res) = named(T1, "bad region") \union named(T2, "left-addr-bit")
                                 \union named(T3, "over-specified") \union named(T4, "overlap")
      <4> DEFINE T1 == {i \in Mapped(res) : Region(res.devices[i].base) # 10}
                 T2 == {i \in Mapped(res) : ~LeftFits(LeftOf(res, i))}
                 T3 == {i \in Mapped(res) : LeftFits(LeftOf(res, i)) /\ res.devices[i].base % Window(LeftOf(res, i)) # 0}
                 placed == {i \in Mapped(res) : LeftFits(LeftOf(res, i))}
                 T4 == {i \in placed : \/ \E j \in placed \ {i} : Overlap(Span(res, i), Span(res, j))
                                       \/ \E r \in Reserved : Overlap(Span(res, i), r)}
      <4>1. AddressErrors(res) = named(T1, "bad region") \union named(T2, "left-addr-bit")
                                 \union named(T3, "over-specified") \union named(T4, "overlap")
        BY Zenon DEF AddressErrors, OverlapErrors
      <4> HIDE DEF T1, T2, T3, T4, named
      <4> QED BY <4>1
    <3> HIDE DEF named
    <3> QED BY <3>1, <3>2
  <2> QED BY <1>2, <1>3, <2>1
<1>5. ASSUME NEW i \in BusDevices(res)
      PROVE  i \in Mapped(res) /\ res.devices[i].base \in 0..Pow2[AddrBits] - 1
  <2>1. i \in DOMAIN res.devices /\ res.devices[i].base # None BY DEF BusDevices
  <2>2. res.devices[i].base \in Nat BY <1>2, <2>1 DEF DeviceKept
  <2>3. Lc(res.devices[i].class) \in DOMAIN res.classes
    <3>1. <<"unknown class", Lc(res.devices[i].class)>> \notin errs BY <1>3
    <3> QED BY <1>2, <2>1, <3>1 DEF DeviceKept
  <2>4. Pow2[AddrBits] \in Nat BY AddressAssumption, Pow2Facts
  <2>5. res.devices[i].base < Pow2[AddrBits] OBVIOUS
  <2>6. i \in Mapped(res) BY <2>1, <2>3 DEF Mapped
  <2> QED BY <2>2, <2>4, <2>5, <2>6
<1> QED BY <1>2, <1>4, <1>5

(* A run that ends with no error but those of signals driven later has a decoder that  *)
(* finds the owner of every address of the devices' region, whatever the board: what   *)
(* decode_address of the devices file returns (decodeFunction, buildIfs, trimSuffix of *)
(* databus.go) is the device whose window the checks of addr_validate.go left alone.   *)
THEOREM DecodesToOwnerHolds == Spec => []DecodesToOwner
<1>1. ASSUME DevicesInv PROVE DecodesToOwner
  <2> SUFFICES ASSUME Accepted, res.bus.on,
                      \A i \in BusDevices(res) : res.devices[i].base < Pow2[AddrBits],
                      NEW a \in InRegion
               PROVE  LET dev == Decoded(DecodeFunction(res), a)
                      IN  IF Owner(a) # {} THEN Owner(a) = {dev}
                          ELSE res.bus.mode = "simple" \/ dev = NoDevice
    BY DEF DecodesToOwner
  <2>1. a \in 0..Pow2[AddrBits] - 1 /\ Region(a) = 10 BY DEF InRegion
  <2>2. /\ AddressErrors(res) = {} /\ Sliceable(res) /\ BusDevices(res) \subseteq Mapped(res)
        /\ \A i \in BusDevices(res) : res.devices[i].base \in 0..Pow2[AddrBits] - 1
    BY <1>1, AcceptedPassed
  <2> QED BY <2>1, <2>2, DecoderFindsOwner DEF Owner
<1>2. Init => DevicesInv /\ files \in Boards BY DevicesInvInit
<1>3. DevicesInv /\ files \in Boards /\ [Next]_vars => (DevicesInv /\ files \in Boards)' BY DevicesInvNext
<1> QED BY <1>1, <1>2, <1>3, PTL DEF Spec

(* Every byte of every register that a class lists, from the base of the device on,    *)
(* reaches the device: the window that is taken from the last register, made larger by *)
(* left-addr-bit, checked against the other devices', turned into a prefix and tested   *)
(* bit by bit has it (resolveRegs of class.go, addr_validate.go, databus.go).           *)
RegistersReached ==
    (Accepted /\ res.bus.on /\ \A i \in BusDevices(res) : res.devices[i].base < Pow2[AddrBits]) =>
        \A i \in BusDevices(res) :
            LET base == res.devices[i].base
                regs == res.classes[Lc(res.devices[i].class)].regs
            IN  \A k \in DOMAIN regs : \A a \in InRegion :
                    base <= a /\ base + regs[k].addr <= a /\ a < base + regs[k].addr + regs[k].width
                        => Decoded(DecodeFunction(res), a) = i
(* RegistersReached holds in every run, whatever the board. *)
THEOREM RegistersReachedHolds == Spec => []RegistersReached
<1>1. ASSUME DevicesInv PROVE RegistersReached
  <2> SUFFICES ASSUME Accepted, res.bus.on,
                      \A i \in BusDevices(res) : res.devices[i].base < Pow2[AddrBits],
                      NEW i \in BusDevices(res),
                      NEW k \in DOMAIN res.classes[Lc(res.devices[i].class)].regs, NEW a \in InRegion,
                      res.devices[i].base <= a,
                      a < res.devices[i].base + res.classes[Lc(res.devices[i].class)].regs[k].addr
                          + res.classes[Lc(res.devices[i].class)].regs[k].width
               PROVE  Decoded(DecodeFunction(res), a) = i
    BY DEF RegistersReached
  <2> DEFINE base == res.devices[i].base
             c == res.classes[Lc(res.devices[i].class)]
             owner == {n \in BusDevices(res) : Span(res, n).lo <= a /\ a <= Span(res, n).hi}
             dev == Decoded(DecodeFunction(res), a)
  <2>1. a \in 0..Pow2[AddrBits] - 1 /\ Region(a) = 10 BY DEF InRegion
  <2>2. /\ AddressErrors(res) = {} /\ Sliceable(res) /\ RegistersKept(res.classes)
        /\ BusDevices(res) \subseteq Mapped(res)
        /\ \A n \in BusDevices(res) : res.devices[n].base \in 0..Pow2[AddrBits] - 1
    BY <1>1, AcceptedPassed
  <2>3. Lc(res.devices[i].class) \in DOMAIN res.classes /\ LeftOf(res, i) = c.left
    BY <2>2 DEF Mapped, LeftOf
  <2>4. /\ c.regs[k].addr \in Int /\ c.regs[k].width \in Int
        /\ c.regs[k].addr + c.regs[k].width <= Window(LeftOf(res, i))
    BY <2>2, <2>3 DEF RegistersKept
  <2>5. base \in Nat /\ a \in Nat /\ LeftOf(res, i) \in Nat /\ Window(LeftOf(res, i)) \in Nat
    <3>1. Pow2[AddrBits] \in Nat BY AddressAssumption, Pow2Facts
    <3>2. LeftOf(res, i) \in Nat BY <2>2, CheckedDevice
    <3>3. Window(LeftOf(res, i)) \in Nat BY <3>2, Pow2Facts DEF Window
    <3> QED BY <2>1, <2>2, <3>1, <3>2, <3>3
  <2>6. base <= a /\ a < base + c.regs[k].addr + c.regs[k].width OBVIOUS
  <2> HIDE DEF c
  <2>7. base <= a /\ a <= base + Window(LeftOf(res, i)) - 1
    <3> HIDE DEF base
    <3> QED BY <2>4, <2>5, <2>6
  <2>8. Span(res, i).lo <= a /\ a <= Span(res, i).hi BY <2>1, <2>5, <2>7, InSpan
  <2>9. i \in owner BY <2>8
  <2>10. IF owner # {} THEN owner = {dev} ELSE res.bus.mode = "simple" \/ dev = NoDevice
    BY <2>1, <2>2, DecoderFindsOwner
  <2> HIDE DEF owner, dev
  <2>11. dev = i BY <2>9, <2>10
  <2> QED BY <2>11 DEF dev
<1>2. Init => DevicesInv /\ files \in Boards BY DevicesInvInit
<1>3. DevicesInv /\ files \in Boards /\ [Next]_vars => (DevicesInv /\ files \in Boards)' BY DevicesInvNext
<1> QED BY <1>1, <1>2, <1>3, PTL DEF Spec
===============================================================================

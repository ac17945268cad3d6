# A verification project for the J-core SoC

This directory holds TLA+ models of the parts of the J-core SoC where several
actors meet and of the generator that connects them, the TLC configurations that
check the models on small instances, and proofs, checked by TLAPS, of what
matters most about eight of them. The models are translated from the code, not from
its documentation: `PROJECT.json` names, for every definition, the lines it
stands for.

## 1. The system

The repository is two programs in one: the hardware of a system on chip (VHDL in
`components/`, `lib/` and `targets/`, some of it in the `.vhm` dialect, in which
a register variable `this` is loaded at the start of a process and written back
at the clock edge), and the generator `tools/socgen` (Go), which reads a board
description in yaml and writes the VHDL that connects the components.

| Part | State | Operations | Meets | What makes it correct |
|---|---|---|---|---|
| `bus_mux_typec`, `bus_mux_typecsub`: memory arbiter for two cpus (data and instruction port each) and DMA | two arbiter states, two burst counters, the last access and its acknowledge, twice | one clock edge, with or without acknowledge | cpus, caches, DMA engine, memory controller | a waiting access keeps the port; bursts and locked sections are not broken into; nobody starves |
| `multi_master_bus_mux`, `..._muxff`, `..._muxffwbs`, `..._muxlock`: two masters on one bus | state, last acknowledge, delayed requests | one clock edge | two masters, one slave | as above; no access is presented twice |
| `cpumreg`: arbiter of the shared RAM | lock state, cpu1 enable | one clock edge | two cpus, the system controller | TAS.B is atomic; a write is alone |
| `wrbuf`: write buffer of the DDR controller | FIFO, pointers, acknowledge and stall flags | push, pop, answer, all in one clock edge | a master, the DDR controller | invisible: an in-order memory |
| `async_busacc`: bus bridge between clocks | a toggle and two synchroniser chains on each side | an edge of either clock or of both | master on A, slave on B | each access done once, with its own data |
| `aic`, `aic_edgedet`: interrupt controller | samples and latch per line, levels, pending events, registered offer | one clock edge | devices, cpu, software | one interrupt per edge, none lost |
| `aic2`: second interrupt controller | similar, per cpu | | | not modelled |
| `sdram_ctrl`: SDRAM controller | command state machine, timers, refresh counter | one clock edge | arbiter, SDRAM chip | timing and refresh kept, data of bursts right |
| `ddr_ctrl`, `ddrc_fsm`: DDR controllers | command state machines | | `wrbuf`, DDR chip | not modelled |
| `dma_preq_arb`: DMA requests | one register per source | one clock edge | devices, DMA engine | no request lost |
| `ring_bus`, `emac`, `uartlite`, `spi*`, `qspi_flash_ctrl`, `gpio*`, `pio` | packet, buffer and shift registers | | cpu and pins | not modelled |
| `lib/hwutils`: flancters and synchronisers | one or two bits | | two clocks | every flag arrives once |
| socgen: `design`, `board`, `iface` | yaml trees, the library of VHDL units | read, splice includes, merge, remove, decode, extract, check | files | a board means what its documents say, overlaid |
| socgen: `elaborate` | classes, devices, net-list, buses, pins, places of signals, interrupts | twelve passes, each of which notes its errors and goes on | library, generator | each pass keeps what the ones before decided |
| socgen: `generate`, `emit` | three VHDL units and the address decoder | build, write | elaboration, VHDL printer | the files are VHDL and connect what the board connects |
| socgen: `vhdl` | syntax trees | scan, parse, print, walk | extractor, generator | what is printed is read as it was built; nothing accepted is lost |
| socgen: `dts`, `devicetree`, `cheader`, constraint files | text | format, write | | golden files |
| socgen: `-watch` | snapshots of modification times, a signal, a ticker | read, write, stat, compare, stop | a developer who edits | no edit is lost |
| cpu core and caches | git submodules, not in the repository | | all of the above | modelled as environment |

The hard behaviour of the hardware is the same everywhere: two or more actors act
in the same cycle or between two reads, and a decision rests on a registered copy
of what was true one cycle before. The generator is sequential, and hard in
another way: a dozen passes and three files each know a part of the same
connection (which signal, which file declares it, who drives it, which bit of it)
and must agree, and an error is a note that does not stop the program.
`PROJECT.json` lists the hazards by line.

## 2. Modules

One step of a hardware module is one rising clock edge: the combinational logic
is a set of operators over the current state, and the single action `Cycle`
assigns all registers. What other parts drive (requests, acknowledges, edges of
a line) is chosen anew in each step, within the bus contract: a master holds a
request until its acknowledge, a slave acknowledges only what it is shown.

* `BusMuxTypecSub` holds the functions of the inner round robin
  (`bus_mux_typecsub.vhm`), `BusMuxTypec` extends it with the outer stage, the
  registers of both and the five masters. `sub` and `top` are the two `this`
  records; `m1`..`m4` and `m5` are what the masters drive, with `left`, the beats
  that a master still expects, which is on no wire. `holder` is history: the cpu
  inside a locked section. The fifth port of the inner stage is tied to '0' and
  left out, and so is `state_woa`, which is written and never read.
* `MultiMasterBusMux`: `kind` says which of the three multiplexers is looked at;
  the operators `SelMux`, `SelFF` and `SelLock` are their selections.
* `SharedRam`: `cpumreg` with two cpus, each running a spin lock around TAS.B
  between loads and stores of its own; `pc` is where they are. `TestAndSet` is the
  abstract specification of what its locked sections are for: TAS.B as one step.
* `WrBuf`, and `MemoryBus`, the abstract specification it implements: a memory
  that answers one master in order. The refinement mapping (`View`) applies the
  queued writes, up to the one being acknowledged, to the memory behind port b.
* `AsyncBusAcc`: the actions are the edges `ClockA`, `ClockB` and `ClockBoth`.
  With both at once, a register samples the old or the new value of a bit and
  anything for a word that changes. `BusTransfer` is the abstract specification it
  implements: a request is served once and completed with the slave's answer.
  `served` is history, the accesses that the slave has done for the request.
* `Aic`: lines with their edge detectors, `pending` for the other events,
  `reg_event` for the registered offer; `active` and `gap` are the cpu's nest of
  handlers and the distance of its acknowledges; `owed` is history.
* `Watch`: `runWatch` in the steps of its system calls; `Edit` and `Interrupt`
  are the developer's.
* `...Proofs`: the theorems about the module of that name; `SocgenProofs` those
  about `Socgen` and about the operators of `SocgenDevices`, `SocgenDecode`,
  `SocgenNets`, `SocgenPins` and `SocgenIrq`.
* `MC...`: instances for TLC.

The VHDL front end (`tools/socgen/vhdl`):

* `VhdlAst`: the nodes as tuples, with the sort of each field; `VhdlLexer`,
  `VhdlPrinter` and `VhdlWalk` are the functions of the files of that name.
* `VhdlParser`: each parse function is a production, the sequence of what it
  does (expect, accept, call, loop, record an error), and `Run` executes them, with
  the parser's one token of lookahead, its recovery and its diagnostics.
* `VhdlFrontEnd` composes them as the repository uses them: a generator builds
  a tree or somebody writes a file (`Init`), `PrintTree`, an edit of the file by
  hand (`DropFragment`, `DoubleFragment`, `InsertFragment`, `ReplaceFragment`),
  `ParseText`, and `Reread`, which prints what was read and reads it again. A text is a sequence of fragments (words,
  numbers, single characters of punctuation, blanks), so that what is scanned
  together and what is not shows, and what a word says does not.

The generator:

* `SocgenTree` (the nodes of a document) and `SocgenInclude`: reading a design out
  of its documents, with `Meant`, an independent definition of what documents that
  overlay each other mean.
* `SocgenLibrary` (the extractor), `SocgenDevices` (classes, devices, register
  windows, address checks), `SocgenNets` (ports to signals, buses, zero signals,
  pruning, places), `SocgenPins` (pin rules and legs), `SocgenIrq` (interrupts):
  the passes as operators; an error is a pair of its kind and its subject. A name
  that is declared more than once is no error: the files of a board are expected
  to repeat names, `board.Library` drops what the extractor notes of it
  (`library.go:36`), and the last declaration counts.
* `SocgenDecode` (the generated function `decode_address`) and `SocgenUnits` (the
  three files, each a record of its ports, declarations, instances and
  assignments). A node of the decoder's trie is the string of bits on the way to
  it: a leaf is a device's prefix, a fork a string that goes on both ways. The
  nested ifs are a function from the strings at which `buildIfs` writes a
  statement to that statement, a branch naming the string of the statement inside
  it; `Decoded` is the device of the return whose enclosing ifs (`Entered`) all
  take the branch that it is in.
* `Socgen` is one run of the program, an action for each pass: `Load`,
  `BindDevices`, `Connect`, `BindEntities`, `Gather`, `PlacePins`,
  `CheckSignals`, `InjectBuses`, `RemoveWriteOnly`, `PlaceSignals`,
  `CheckAddresses`, `WireIrqs`, `Generate`. How a tree is read from files is the
  constant `ReadTree`, which is `LoadTree` of `SocgenInclude` in the run, so that
  what is proved about the passes does not depend on it. A design that cannot be loaded and a
  plugin that does not exist end the run (`aborted`), a slice with a negative end
  panics (`panicked`); all other errors are notes. Where the code iterates over
  a Go map and the order shows (`ClassChoices`), the choice is nondeterministic.
* `SocgenProperties` reads the three files as hardware: what drives a port, found
  through instances, assignments and the borders of the files, is compared with
  what the net-list, the interrupts and the addresses of the design ask for.

Operators whose comment begins with "Mutant" are variants of the definition
that follows, with a plausible mistake; they are used by no specification. Each
property below is violated with one of them in place of the original.

## 3. Runs

| Run | Checks | Bounds |
|---|---|---|
| `arbiter_safety` | `StableUntilAck BurstIndivisible CountsAgree LockExclusion BeatsMatch` | all four cpu masters and DMA; fills of 4 beats, DMA bursts of 2 |
| `arbiter_liveness` | `NoStarvation` | two data masters and DMA |
| `bus_muxes` | `NoRepeat StableUntilAck LockExclusive SlaveLockSpans NoStarvation` | none: the whole state space |
| `shared_ram` | `MutualExclusion WriteAlone AtomicTas Progress` | none |
| `write_buffer` | `NoOverflow AckedIsQueued Transparent Answered` | 2 slots, 2 addresses, 2 values |
| `async_bridge` | `ShownOnce AckIsAnswer Flancter OneTransfer EveryRequestAcked` | clock ratio, 2 data words |
| `interrupts` | `TypeOK NothingLost OneInterruptPerEdge LastEdgeServed` | 2 lines, 2 levels, NMI for the system events |
| `interrupts_disable` | `DisabledIsSilent`, violated | 2 lines |
| `watch` | `NotBehind Caught Stops` | 3 edits of 2 files, 2 outputs |
| `watch_variant` | `FollowsInputs`, violated | 1 edit, 1 output |
| `vhdl_front_end` | `ReadsBack RoundTrip NothingLost WalkInSourceOrder` | small trees of every kind of node, 4 files by hand, one edit per file |
| `socgen` | `IncludeIsOverlay DecodesToOwner Legal Faithful InterruptReaches` | 2278 boards |

Why the bounds are enough. The arbiter's counters are compared with 0, with the
last beat and with the bit that a short burst clears; the lengths 4 and 2 keep
these apart (8 and 4 in the code, where the wrap is the width of the counter).
Liveness of the arbiter is checked with the masters that lock and with DMA; the
instruction masters take part in the safety run. A FIFO of two slots wraps, is
full, empty and in between; two addresses tell a read that overtakes a write
from one that may. Two interrupt lines are the fewest with a priority, a tie and
a line that is not the pending one. Three edits fall before, in and after a
regeneration.

The trees of `vhdl_front_end` hold every kind of node and every alternative of
every production at least once, with distinct names, so that order and identity
show; four files have, besides, what the parser takes and the printer never writes
(closing names and labels, the constraint of an access type, an entity class that
is no keyword, a block configuration with two labels, a component configuration
where a block configuration is due). One fragment of each file is dropped,
doubled, or preceded or replaced by one of 19 others, a name and a number among
them. The boards of `socgen` are variations of one two-cpu board in the manner of
the repository's: a library of eleven entities, in which an entity and two
constants are declared more than once (in two packages, in two spellings, as a
constant and later as a type), and families of designs that vary one aspect
through all its cases while the rest is fixed. The families are: documents over documents, in one file, in two, or over a third, with marks,
sequences and mappings on either side (`Documents`), documents that cannot be read
(`BadDocuments`), a board in two files (`Split`), three devices in every relative
position of their windows, in both modes of the decoder and with windows of
several sizes (`Windows`), who asks for which interrupt of which cpu and who
controls it (`Interrupts`), every combination of legs on one pad, on targets with
and without buffers (`LegCombinations`), pads that belong together (`PadGroups`),
one or two cpus with and without DMA and with buses left out (`Masters`), signals
that cross from file to file in each direction, merged or tied to zero
(`Crossings`), and designs with something wrong, one each (`Wrong`). Addresses have
10 bits of which the upper four are the region; the decoder looks at single
bits, and windows of one word to sixteen, aligned or not, nested, equal, adjacent
or outside of the region are among them. Of the 2278 boards, 1282 are taken
without a note that matters and 1043 of them without one of the exceptions below;
387 do not load or name no plugin, four panic, and the others end with notes.

What the runs show, and where the code depends on its environment:

* **Arbiter.** A waiting access is never taken away although the inner stage
  leaves the locked states out of its hold condition: in those states only the
  holder of the lock and its instruction port are looked at. Locks hold between
  the cpus only; the DMA engine may reach the memory in between. A cpu that drops
  its lock without an access (`SilentUnlock`) sends the inner stage to IDLE, which
  prefers cpu0: the liveness run excludes it, because a cpu0 that does so for ever
  does starve the others.
* **Multiplexers.** The registered one serves both masters without help, since the
  masked cycle after an acknowledge lets the other in; the combinational ones
  serve M2 only if M1 pauses. The header says that M1 wins a tie; in state
  `M2POLL` of the locking multiplexer M2 does.
* **Shared RAM.** The lock implements `TestAndSet` (`AtomicTas`): a TAS.B takes
  effect with its write, when what its read has seen is still so, whatever the
  other cpu does between the two. Both this and `MutualExclusion` need cpu0 not to
  switch cpu1 off between the read and the write of a TAS.B (`SplitDisable =
  FALSE`). With TRUE, TLC finds both cpus in the critical section: the denied
  write of cpu1 drops its lock.
* **Write buffer.** It refines `MemoryBus`. The answer to a read is recognised by
  the slot under the read pointer now or one cycle before, and both are needed:
  with one only, reads hang.
* **Bridge.** It implements `BusTransfer` for any two clocks: no ratio makes it do
  an access twice or acknowledge one that was not done. It answers every request
  exactly while a period of A is shorter than two of B and a period of B shorter
  than four of A (`MaxB = 2`, `MaxA = 4`; with 3 or 5 `EveryRequestAcked` fails),
  and if the first request after reset comes after the pipeline of B has settled
  (`warm`). No target instantiates it.
* **Interrupts.** The offer is up to two cycles stale after an acknowledge. With a
  cpu that could acknowledge again in the second cycle (`AckGap = 1`),
  `OneInterruptPerEdge` fails. Software that disables a line whose edge is latched
  makes the controller offer line 0 instead (`interrupts_disable`): the latch
  still raises the event, the priority search finds nobody and names line 0, whose
  level and vector are used; the acknowledge clears line 0.
* **Watch.** No edit of a watched file after the first snapshot is lost. An edit
  between the first generation's read and that snapshot is. A missing file has the
  zero time, so one that is deleted, restored, generated from and deleted again
  between two polls looks unchanged, and the failing regeneration that the last
  deletion should cause does not come. `Caught` names both exceptions. With
  `-variant`, the design that is generated is not on the list of watched files
  (`watch_variant`).
* **VHDL front end.** "Correctness established by round-tripping" (`doc.go:4`) is
  `ReadsBack` and `RoundTrip`. Without edits it holds for every tree. Of the
  edited files that the parser accepts, four forms do not come out as they went
  in (`Degenerate`): a call with empty parentheses prints without them, a name
  that was punctuation prints as nothing (`parseName` takes any token, for an
  instantiated unit too), a name with a doubled point is read as a selection, and
  a literal for an entity class prints as a word, `INT` for `1`. What a file says
  is not always kept either, and `NothingLost` excepts five things by name. Four
  are read and forgotten (`Forgotten`): closing names and labels, which are not
  compared with the opening ones (`end architecture foo;` closes any
  architecture); the constraint of an access type; an entity class that is not a
  keyword, of which the tree has the kind only, so that `group g is (foo)` becomes
  `group g is (IDENT)`; and the labels of a block configuration after the first.
  The fifth is a component configuration where a configuration or another
  component configuration expects a block configuration: it is read and dropped
  whole (`Misplaced`). Without any one of the five TLC finds the loss; with them
  every other name and literal of an accepted file is in the printed one, in order.
* **socgen.** What is taken without a note is VHDL and connects what the design
  connects, with these exceptions, each of which TLC finds when it is taken away
  and each of which socgen lets pass silently: a pad with a combination of legs
  that has no buffer (`OddLegs`), a signal that `soc.vhd` both drives for the
  outside and reads (`SocReadsItsOutput`), a zero for a signal that is not in
  `soc.vhd` (`ZeroElsewhere`), a loop of `system.pio` on a signal that is not
  there (`LoopOfNothing`), a chain of multiplexers in a file without clock and
  reset (`StageUnclocked`) or starting from other masters than are connected
  (`ChainOfOthers`; a comment, `databus.go:64`, says that an override of a bus
  that was not gathered is ignored, but it still makes a stage), and a device on
  the bus without an address (`NoAddress`). Documents in which two merges meet one
  `!remove` are excepted too (`MarkUsedTwice`): the first merge uses it up.
  `Accepted` allows the notes "undriven" for exactly the signals that generated
  logic drives later (`DrivenLater`): the program checks signals before it adds
  that logic, so that every board with a bus prints some of them. Addresses above
  32 bits are cut by the decoder and are not covered by `DecodesToOwner`.

### Fairness

Every hardware specification assumes that its clock runs (`WF` of the step) and
that a slave answers every request in the end; the bus contract has no
time-out, so nothing works without it. Beyond that: `NoStarvation` assumes that
locked sections end; `Progress` that the other cpu pauses now and then and, for
cpu1, that it is not switched off for good; `SharedRam` that a cpu does not stay
in the middle of a TAS.B; `LastEdgeServed` that the cpu takes an event that
stays acceptable and that its handlers end (software), and that nothing else
comes in (`OthersRest`). `Watch` assumes that the program runs and that Go's
`select`, which picks at random among ready cases, does not pick the tick for
ever when the signal is there (strong fairness of `Stop`).

## 4. Proofs

The theorems hold for every value of the constants that satisfies the named
assumptions, which TLC evaluates in each run.

* `BusMuxTypecProofs`: `TypeCorrect` and `LockedSectionsExclusive` (`Spec =>
  []LockExclusion`), for all burst lengths, sets of active masters and DMA
  behaviours. `LockExclusion` alone is not inductive: it speaks of the
  combinational owner, which depends on the registered states. The invariant adds
  what the registers mean: what each master may be driving (`DrivesFormed`), that
  a burst in the inner counter is in a state that passes bursts (`InnerBurst`),
  that an access waiting in a locked state is its holder's (`InnerWait`), that an
  access outside of a section is a plain one (`PlainAccess`), and which states go
  with an open section (`Section`). Further `WaitingKeepsPort` (`StableUntilAck`),
  `BurstsAreWhole` (`BurstIndivisible`), `CountersAgree` (`CountsAgree`) and, if
  the DMA engine never asks for a long and a short burst at once (`OneLength`),
  `BeatsAddUp` (`BeatsMatch`). The invariant for these (`PortInvariance`) adds
  whose access the last one was in each state of the outer stage (`PortMeans`),
  that a waiting one is still driven and still selected by both stages
  (`PortWait`), and that only DMA makes short bursts (`ShortIsDma`); for the
  beats, that what DMA still expects and what is counted make up the length
  (`DmaBeats`). The heart of the argument is `InnerStays`: although the locked
  states are not in the inner stage's hold condition, the one master that is
  looked at in them is the one that waits.
* `WrBufProofs`: `TypeCorrect`, `FifoBounded` and `AckedWritesQueued`, for every
  depth. The push and the acknowledge are decided by different conditions; the
  invariant ties them together: which of the flags can be up together (`Flags`),
  that a waiting write is pushed before its acknowledge (`WritesFirst`) and where
  it is in the FIFO (`WriteInFront`). On top of that, `Invisible` (`Spec =>
  Transparent`), the refinement of `MemoryBus`, for every depth, address and data
  set. What the master sees is the memory behind the buffer with the queued
  accesses applied to it (`Result`); a pop applies the first access for good
  (`OneDone`) and a push adds one at the end (`OneMore`), and neither is seen; the
  acknowledge of a write moves the border between what is done and what is not
  (`WriteSeen`), and a read that is answered is alone in the buffer (`ReadSeen`).
* `MultiMasterBusMuxProofs`: all four properties of the multiplexers, for the
  three kinds. A delayed request lags its master's by one cycle (`Lagging`), a
  waiting access is still driven, still registered and in the state that selects
  it (`Kept`), and the locked states belong to the open section (`Sections`).
* `SharedRamProofs`: `WritesAreAlone` without any assumption, and
  `LockHasOneHolder` (`MutualExclusion`) if cpu0 does not switch cpu1 off in the
  middle of a TAS.B. The invariant: which states of the arbiter go with a cpu
  between read and write (`Sections`), that what it has read is still what the RAM
  holds (`Fresh`), and that one cpu is past the lock (`OneHolder`). From it
  follows `TasIsAtomic` (`AtomicTas`), under the same assumption: a step of the
  cpus moves `TestAndSet` when the write of a TAS.B or of a release is granted,
  and is not seen otherwise (`LockMoves`).
* `AsyncBusAccProofs`: `EachShownOnce` (`ShownOnce`), `AcksAreAnswers`
  (`AckIsAnswer`), `BitsTakeTurns` (`Flancter`) and `BridgeTransfers`
  (`OneTransfer`), for every data set and every `MaxA` and `MaxB`: safety does not
  rest on the ratio of the clocks. The invariant follows the changed bit of each
  side through the chain of the other. It says what the registers behind the bits
  are while nothing is asked (`Quiet`), how far a request has come on the side of
  B (`Noticed`, `Shown`), that B answers with the access that is held
  (`Answering`, `Counted`), and how far the answer is on its way back, with the
  data beside it (`Back`, `Kept`). The prover looks at one chain at a time: an
  edge of both clocks is an edge of each, in which a register that samples a
  changing bit may take either value, so that the lemmas (`Silent`, `Waits`,
  `Rests`, `Launches`, `Returns`) are about what one side does, and hold for an
  edge of that clock alone and for both.
* `WatchProofs`: `NeverBehind` (`NotBehind`), for any number of edits and outputs.
  The invariant says how far each loop is (`Progressing`), that a snapshot is not
  newer than the files (`Seen`), and that a generation reads each file after the
  snapshot that started it (`Newer`).
* `AicProofs`: `TypeCorrect`, for whatever software writes; `EdgesAreKept` (`Spec
  => []NothingLost`) if software disables no line that is pending; and
  `ServedOnce` (`Spec => []OneInterruptPerEdge`) if, in addition, acknowledges are
  more than two cycles apart. The invariant says how old the offer can be: a line
  that is cleared with its edge still set was acknowledged in the cycle before
  (`ClearFollowsAck`), and an offer without an edge behind it is only seen in the
  first cycles after an acknowledge (`StaleFollowsAck`).
* `SocgenProofs`: what the passes decide, for every design. `DeclaredWhereUsed`
  and `PortsFollowDriver`: if `SourceErrors` is empty, each of the three files
  declares a signal that is used in it exactly once, what crosses a border is
  declared on both sides, and the port there points away from the side that has
  the drivers; the case analysis over the kinds of places is the one that the
  lists of `categorize.go` enumerate. `LegsFitPad`: the legs of a pad and its port
  agree in direction, unless its legs have no buffer (`OddLegs`); it needs that
  the legs of other pads do not turn a bare signal around (`LegsDoNotTurn`).
  `ChainJoinsConnected` gives the exact condition under which the chain of
  multiplexers joins the connected buses. `WindowsDisjoint`: a design without
  address notes has one device at most for an address. `BitsHaveOneDriver`: a bit
  of an interrupt vector is driven by one irq or one or; that the numbers of
  different cpus and paths are written differently is a hypothesis, since the
  library gives `ToString` no properties.

  `DecodesToOwnerHolds` (`Spec => []DecodesToOwner`) is about the whole run: where
  a design is taken, each address of the region gets to the device whose window has
  it. It has two halves. The first is the decoder itself (`DecoderFindsOwner`), for
  any devices and windows that `AddressErrors` and `Sliceable` let pass, any address
  width and both modes: an address is in a window if and only if its bits start
  with the device's prefix, since windows are aligned (`WindowIsPrefix`); of windows
  that do not overlap no prefix starts another one (`WindowPrefixes`), and the
  shortened prefixes of the simple decoder do not either (`TrimmedApart`); the tests
  between two statements are exactly the bits between them, so that an address
  enters all the ifs around its device's return (`OwnAddressEnters`), and what it
  enters has its bits (`EnteredHasBits`); the four bits that are not tested are
  those of the region (`RegionBits`). The second half is that the run gets to the
  files with such devices. `DecodesToOwner` is not inductive: it speaks of a run
  that is done and of notes that were made eight passes before. The invariant
  (`DevicesInv`) says what is kept from pass to pass: an address is the one that
  was read, a class that the devices name is known or noted (`DeviceKept`), the
  registers of a class are inside its window (`RegistersKept`), the notes about
  addresses are there from their check on, and a run that is done has no window
  that the decoder cannot slice. It needs that connecting devices, taking pruned
  signals off their ports and wiring irqs leave class and address alone. With
  `RegistersKept` the same argument gives `RegistersReachedHolds`: every byte of
  every register that a class lists is decoded to the device. That a window is
  wide enough rests on `resolveRegs` taking the rounded-up logarithm of the end of
  the last register (`CeilLog2Covers`, `RegistersFit`), wherever the registers are
  put and in whatever order (`PlacedNumbers`).

  Inductions (over the bits of an address, the registers of a class, powers of two)
  are over the set of the numbers that have the property, which has no least
  exception (`LeastNumber`, `AllNumbers`); the library's induction theorem cannot be
  instantiated. Assumed are what `AddressAssumption` says of the widths and of the
  reserved ranges, and, in `BoardsAssumption`, that a decoded design has the types
  of the fields of `design/model.go`.

`TypeOK` of the arbiter and of the write buffer is proved (`TypeCorrect`) for
every value of the constants, and no run repeats it.

Only model-checked: everything about liveness (`NoStarvation`, `Progress`,
`Answered`, `EveryRequestAcked`, `LastEdgeServed`, `Caught`, `Stops`), which needs
fairness and `ENABLED`; of the VHDL front end `ReadsBack`, `RoundTrip`,
`NothingLost` and `WalkInSourceOrder`, and of the generator `IncludeIsOverlay`, all
five about operators that are recursive over trees (syntax, documents), in modules
that the prover does not take; and `Legal`, `Faithful` and `InterruptReaches`, which
follow nets recursively through the three files and depend on what folds over the
pads and signals compute. Of these three the parts that are about single passes
are proved: `DeclaredWhereUsed`, `PortsFollowDriver`, `LegsFitPad`,
`ChainJoinsConnected` and `BitsHaveOneDriver`.

## 5. Not modelled

Addresses and data where no property tells them apart; byte enables; reset in the
middle of operation; the phys and vendor cells; the analogue side of
metastability beyond "old or new". In `aic`: the real-time clock, breakpoint,
debug read-back, the button debouncer and the reboot trigger. In `cpus_two_fpga`:
the address decoder and the instruction buses. The cpu core, its caches and the
DMA engine are not in the repository; what the models let them do is the bus
contract as the arbiters and the firmware use it. The time resolution of the
file system is not modelled: each save has its own modification time.

In `lib/hwutils`, pulses that are closer than a synchroniser's latency, and a
guarded flancter that is set and cleared at once, are hazards of boards that use
them; none of the modelled components does.

In the VHDL front end: positions in diagnostics and their wording, the alignment of
columns, the preprocessing with `cpp`, the sizes of numbers. In the generator: the
`cpu` section of a board (`cpumap`, `variants`, `cpus_config`), values of generics
beyond the width of a port, attributes and the text of constraint files, the
parsing of pin files and of the text forms inside a design, YAML anchors (through
which a merge could change a shared node), an external net-list of top-level
aliases, the registers behind a word acknowledge, makefiles, the device tree and
the C headers: single passes that format what the modelled passes have decided,
compared with golden files by the repository's tests. `coremark-collector` reads
a serial line and writes a result; it shares nothing with the rest. The other
components of the table (DDR and SDRAM controllers, second interrupt controller,
ring bus, Ethernet, serial engines) are named in the plan or have no interaction
beyond a register write; `PROJECT.json` says which.

## 6. Plan

1. (done) The arbiters, the write buffer, the bridge, the interrupt controller
   and the watch loop; the VHDL front end; the generator from the documents of a
   board to the three files.
2. (done) Proofs of the arbiter (locks, port, bursts), the multiplexers, the
   shared RAM and the bridge with their refinements, the write buffer with its, the
   interrupt controller, the watch loop, the passes of socgen that do not recurse,
   and its address decoder from the registers of a class to the generated tests.
3. `Sdram`: the SDRAM controller with a chip that demands its timing: no command
   before its time, refreshes not put off for more than one transaction, each
   beat of a burst with its own data, rows closed before a refresh. It composes
   with the promise of `MemoryBus`. Sub-word stores (see the hazard at
   `sdram_ctrl.vhd:106`) need the contract of the data cache.
4. `Sync`: the flancters and synchronisers of `lib/hwutils`, as a generalisation
   of the bridge's two bits; then `dma_preq_arb`, `aic2` and the ring bus node.
5. Proofs: that `Prune` and `TieZeros` leave no reader without a driver, which needs
   facts about filtered sequences.

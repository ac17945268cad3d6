------------------------------ MODULE SocgenDecode -----------------------------
(* The address decoder of the generated devices.vhd: the function decode_address  *)
(* that socgen writes from the windows of the devices on the data bus, and what   *)
(* that function returns. Bit strings have the highest bit first.                 *)
EXTENDS SocgenDevices

(* busDevicesOf: the devices with a pair of bus ports and an address. *)
BusDevices(res) == {i \in DOMAIN res.devices : res.devices[i].dataBus /\ res.devices[i].base # None}
WindowBit(res, i) == IF Lc(res.devices[i].class) \in DOMAIN res.classes THEN LeftOf(res, i) ELSE 0

(* bin32 writes the low AddrBits bits of the address. *)
Bit(n, i) == (n \div Pow2[i]) % 2
Bits(n) == [j \in 1..AddrBits |-> Bit(n, AddrBits - j)]

(* devicePrefix slices the string: a window wider than the address is a panic. *)
Sliceable(res) == \A i \in BusDevices(res) : WindowBit(res, i) + 1 <= AddrBits
(* Mutant: one bit too many, which halves the window. *)
DevicePrefixLonger(res, i) == SubSeq(Bits(res.devices[i].base), 1, AddrBits - WindowBit(res, i))
DevicePrefix(res, i) == SubSeq(Bits(res.devices[i].base), 1, AddrBits - WindowBit(res, i) - 1)

-------------------------------------------------------------------------------
(* The trie of the prefixes of some devices: a node is the string on the way to it. *)
(* insert: of two devices with one prefix one is kept; their windows overlap.      *)
IsLeaf(prefixes, p) == \E i \in DOMAIN prefixes : prefixes[i] = p
LeafOf(prefixes, p) == CHOOSE i \in DOMAIN prefixes : prefixes[i] = p
HasKid(prefixes, p, k) == \E i \in DOMAIN prefixes : IsPrefix(Append(p, k), prefixes[i])
Forks(prefixes, p) == HasKid(prefixes, p, 0) /\ HasKid(prefixes, p, 1)
Beyond(prefixes, p) == \E i \in DOMAIN prefixes : IsStrictPrefix(prefixes[i], p)

(* extractPrefix: how far the strings below p go on together. *)
Stops(prefixes, p) == IsLeaf(prefixes, p) \/ Forks(prefixes, p)
ExtractPrefix(prefixes, p) ==
    LET q == prefixes[CHOOSE i \in DOMAIN prefixes : IsPrefix(p, prefixes[i])]
    IN  SubSeq(q, 1, Min({n \in Len(p)..Len(q) : Stops(prefixes, SubSeq(q, 1, n))}))

(* trimSuffix: the simple decoder tests no bit below the last fork above a device. *)
(* What is below a leaf is not visited and has the empty prefix.                   *)
TrimSuffix(exact, i) ==
    LET forks == {n \in 0..Len(exact[i]) - 1 : Forks(exact, SubSeq(exact[i], 1, n))}
    IN  IF forks = {} \/ Beyond(exact, exact[i]) \/ LeafOf(exact, exact[i]) # i THEN <<>>
        ELSE SubSeq(exact[i], 1, Max(forks) + 1)

DevicePrefixes(res) ==
    LET exact == [i \in BusDevices(res) |-> DevicePrefix(res, i)]
    IN  IF res.bus.mode # "simple" THEN exact ELSE [i \in BusDevices(res) |-> TrimSuffix(exact, i)]

-------------------------------------------------------------------------------
(* buildIfs: the statement at each node where the strings end or part. A test       *)
(* compares the bits from `index` down with `expect`, and its branch is the         *)
(* statement at the node `then`; where both tests are of one bit the second is the  *)
(* else branch. A path that returns nothing falls through.                          *)
Return(dev) == [k |-> "return", dev |-> dev]
Test(index, expect, then) == [index |-> index, expect |-> expect, then |-> then]
Branches(tests, else) == [k |-> "if", tests |-> tests, else |-> else]
TestBelow(prefixes, p, k) ==
    LET q == ExtractPrefix(prefixes, Append(p, k))
    IN  Test(AddrBits - 1 - Len(p), SubSeq(q, Len(p) + 1, Len(q)), q)

Statements(prefixes) ==
    {p \in UNION {{SubSeq(prefixes[i], 1, n) : n \in 0..Len(prefixes[i])} : i \in DOMAIN prefixes} :
        Stops(prefixes, p) /\ ~Beyond(prefixes, p)}
BuildIfs(prefixes) ==
    [p \in Statements(prefixes) |->
        LET left == TestBelow(prefixes, p, 0)
            right == TestBelow(prefixes, p, 1)
        IN  IF IsLeaf(prefixes, p) THEN Return(LeafOf(prefixes, p))
            ELSE Branches(<<left, right>>, left.expect = <<0>> /\ right.expect = <<1>>)]

(* decodeFunction: the bits all devices share are tested once, without the four of *)
(* the region, which are decoded before the address gets here.                     *)
DecodeFunction(res) ==
    LET prefixes == DevicePrefixes(res)
        whole == ExtractPrefix(prefixes, <<>>)
    IN  IF BusDevices(res) = {} THEN [enter |-> {}, stmts |-> <<>>]
        ELSE [enter |-> IF Len(whole) <= 4 THEN {}
                        ELSE {Test(AddrBits - 5, SubSeq(whole, 5, Len(whole)), whole)},
              stmts |-> BuildIfs(prefixes)]

(* What decode_address returns for an address: the device of the return that is    *)
(* reached, each if around it taking the branch that it is in, or none.            *)
NoDevice == 0
Holds(test, addr) == \A j \in DOMAIN test.expect : Bit(addr, test.index - j + 1) = test.expect[j]
Branch(stmt, addr) ==
    IF Holds(stmt.tests[1], addr) THEN {1}
    ELSE IF stmt.else \/ Holds(stmt.tests[2], addr) THEN {2} ELSE {}
Entered(stmts, addr, p) ==
    \A q \in DOMAIN stmts : IsStrictPrefix(q, p) =>
        \E k \in Branch(stmts[q], addr) : IsPrefix(stmts[q].tests[k].then, p)
Decoded(code, addr) ==
    LET ends == {p \in DOMAIN code.stmts : code.stmts[p].k = "return" /\ Entered(code.stmts, addr, p)}
    IN  IF ends # {} /\ \A t \in code.enter : Holds(t, addr)
        THEN code.stmts[CHOOSE p \in ends : TRUE].dev ELSE NoDevice
=============================================================================

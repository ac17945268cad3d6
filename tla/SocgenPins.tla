------------------------------- MODULE SocgenPins ------------------------------
(* How socgen connects the pads of the chip: the rules of the pin section are     *)
(* folded for each pad, and the pad becomes a port of pad_ring with the buffer     *)
(* and the references to the net-list that its legs ask for.                      *)
(*                                                                                *)
(* A rule is [nets, buff, pad, sig, in, out, en]: the nets that its pattern        *)
(* matches, two switches ("yes", "no" or "" when not written) and four legs. A leg *)
(* is [k, ref, diff, invert]; its kind says what `ref` is: nothing ("none"), a     *)
(* signal ("name"), the net itself ("pin"), a signal for each net that matches     *)
(* ("template") or a number ("const"). A signal's reference is <<name, element>>.  *)
(* A pad is [net, index]: `index` is the number that its net ends in, if any.      *)
EXTENDS SocgenNets

Leg(k, ref, diff, invert) == [k |-> k, ref |-> ref, diff |-> diff, invert |-> invert]
NoRef == <<"", "">>
NoLeg == Leg("none", NoRef, "", FALSE)

(* foldRules: of the rules that match a net the last one that has a leg counts. *)
Latest(rules, net, field, missing) ==
    LET having == {i \in DOMAIN rules : net \in rules[i].nets /\ rules[i][field] # missing}
    IN  IF having = {} THEN missing ELSE rules[Max(having)][field]
Expand(leg, net) ==
    CASE leg.k = "pin" -> <<net, "">>
      [] leg.k = "name" -> leg.ref
      [] leg.k = "template" -> leg.ref[net]
      [] OTHER -> NoRef
Folded(rules, net) ==
    LET sig == Latest(rules, net, "sig", NoLeg)
        out == Latest(rules, net, "out", NoLeg)
    IN  [buff |-> Latest(rules, net, "buff", ""), pad |-> Latest(rules, net, "pad", ""),
         sig |-> Expand(sig, net), diff |-> sig.diff,
         in |-> Expand(Latest(rules, net, "in", NoLeg), net),
         out |-> Expand(out, net), invert |-> out.invert,
         const |-> IF out.k = "const" THEN out.ref ELSE None,
         en |-> Expand(Latest(rules, net, "en", NoLeg), net)]

(* bareSignalDir: a bare signal is read where anything but a pin drives it. *)
BareDir(refs, base) ==
    IF \E i \in RefsOf(refs, base) : refs[i].ctx # "pin" /\ refs[i].dir \in {"out", "inout", "buffer"}
    THEN "in" ELSE "out"
(* signalIsReal: a pin of a board whose signal the design does not have is left out. *)
IsReal(d, refs, base) ==
    (\E i \in RefsOf(refs, base) : refs[i].ctx # "pin") \/ base \in Range(d.zeros)

(* bufferKind and padDir *)
BufferKind(f, bareDir) ==
    LET in == f.in # NoRef  out == f.out # NoRef  en == f.en # NoRef
        bare(dir) == f.sig # NoRef /\ ~in /\ ~out /\ ~en /\ (bareDir = "out" <=> dir = "out")
    IN  IF f.pad = "yes" THEN "entity"
        ELSE IF f.buff = "no" THEN "direct"
        ELSE CASE bare("out") -> IF f.diff = "" THEN "ibuf" ELSE "ibufds"
               [] bare("in") -> IF f.diff = "" THEN "obuf" ELSE "obufds"
               [] in /\ out /\ en -> "iobuf"
               [] ~in /\ out /\ en -> "obuft"
               [] out /\ ~en -> "obuf"
               [] OTHER -> "ibuf"
PadDir(kind, bareDir) ==
    CASE kind \in {"ibuf", "ibufds"} -> "in"
      [] kind \in {"obuf", "obuft", "obufds"} -> "out"
      [] kind \in {"iobuf", "entity"} -> "inout"
      [] OTHER -> IF bareDir = "out" THEN "in" ELSE "out"

(* resolvePins: a number drives the pad, a pad of an entity is the entity's, a pad *)
(* without legs or with a leg that is not in the design goes, and the others join   *)
(* the net-list. A pad drives what it is the input of.                              *)
Bases(f) == {ref[1] : ref \in {f.sig, f.in, f.out, f.en} \ {NoRef}}
Pin(pin, f, kind, dir) ==
    [net |-> pin.net, index |-> pin.index, sig |-> f.sig, in |-> f.in, out |-> f.out, en |-> f.en, const |-> None,
     invert |-> f.invert, diff |-> f.diff, kind |-> kind, dir |-> dir]
Bare == [sig |-> NoRef, in |-> NoRef, out |-> NoRef, en |-> NoRef, invert |-> FALSE, diff |-> ""]
Placed(d, refs, pin) ==
    LET f == Folded(d.pins.rules, pin.net)
        bareDir == IF f.sig = NoRef THEN "" ELSE BareDir(refs, f.sig[1])
        kind == BufferKind(f, bareDir)
        bound == f.pad = "yes" /\ f.sig # NoRef
    IN  IF f.const # None
        THEN IF f.const \in {0, 1} THEN <<[Pin(pin, Bare, "obuf", "out") EXCEPT !.const = f.const]>> ELSE <<>>
        ELSE IF bound THEN <<Pin(pin, [Bare EXCEPT !.sig = f.sig], "entity", "inout")>>
        ELSE IF Bases(f) = {} \/ \E b \in Bases(f) : ~IsReal(d, refs, b) THEN <<>>
        ELSE <<Pin(pin, f, kind, PadDir(kind, bareDir))>>

(* addPinPort: the legs of a pad, but for one that is a port of an entity. *)
OfEntity(pin) == pin.kind = "entity" /\ pin.sig # NoRef
LegRef(refs, pin, leg, ref, dir, diff) ==
    IF ref = NoRef THEN <<>>
    ELSE <<Ref(ref[1], "pin", pin.net, leg, dir, TypeOf(refs, ref[1]), ref[2], diff)>>
PinRefs(refs, pin) ==
    IF OfEntity(pin) THEN <<>>
    ELSE LegRef(refs, pin, "signal", pin.sig, BareDir(refs, pin.sig[1]), pin.diff)
         \o LegRef(refs, pin, "in", pin.in, "out", "")
         \o LegRef(refs, pin, "out", pin.out, "in", "") \o LegRef(refs, pin, "out-en", pin.en, "in", "")

(* The pin pass: the pads, the net-list with their legs, the pads' entities.  *)
ResolvePins(d, refs) ==
    LET pins == FoldLeft(LAMBDA ps, pin : ps \o Placed(d, refs, pin), <<>>, d.pins.pins)
    IN  [pins |-> pins,
         refs |-> FoldLeft(LAMBDA rs, pin : rs \o PinRefs(rs, pin), refs, pins),
         bound |-> {pins[i].sig[1] : i \in {i \in DOMAIN pins : OfEntity(pins[i]) /\ pins[i].sig[2] = ""}}]
(* validatePinInvert: only what goes out of a pad can be inverted. *)
PinErrors(d) ==
    {<<"invert", "pins">> : i \in {i \in DOMAIN d.pins.rules :
        \E leg \in {"sig", "in", "en"} : d.pins.rules[i][leg].invert}}

(* A combination of legs that no buffer is made for, and that is taken silently. *)
OddLegs(pin) ==
    \/ {leg \in {"sig", "in", "out", "en"} : pin[leg] # NoRef} \notin
            {{}, {"sig"}, {"in"}, {"out"}, {"out", "en"}, {"in", "out", "en"}}
    \/ pin.kind = "direct" /\ {pin.in, pin.en} # {NoRef}
=============================================================================

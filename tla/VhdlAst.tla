------------------------------- MODULE VhdlAst -------------------------------
(* The syntax trees of tools/socgen/vhdl.  A node is a tuple: its kind, then   *)
(* its fields in the order of the Go structure (positions are left out, as     *)
(* equalAST leaves them out).  A field is of one of four sorts:                *)
(*   "t"  a name or another text, a sequence of fragments, <<>> if absent;     *)
(*   "ts" a list of such texts;                                                *)
(*   "b"  a truth value;                                                       *)
(*   "ns" a list of nodes; a single child is a list of one, an absent one of   *)
(*        none.                                                                *)
(* Waveform elements, elsif clauses, alternatives, record fields and delays    *)
(* are structures of their own but no Node: they are the Parts.                *)
EXTENDS Integers, Sequences, SequencesExt

UnitFields == [
    designFile    |-> <<"ns", "ns">>,                     \* Context, Units
    libraryClause |-> <<"ts">>,
    useClause     |-> <<"ts">>,
    package       |-> <<"t", "ns">>,
    packageBody   |-> <<"t", "ns">>,
    entity        |-> <<"t", "ns", "ns", "ns", "ns">>,    \* Generics, Ports, Decls, Stmts
    architecture  |-> <<"t", "t", "ns", "ns">>,
    configuration |-> <<"t", "t", "ns", "ns">>,
    blockConfig   |-> <<"t", "ns", "ns">>,
    compConfig    |-> <<"ts", "t", "ns", "ns">>,
    binding       |-> <<"t", "t", "t", "ns", "ns">>]      \* UnitKind, Unit, Arch, maps

ConfigSpecFields == [configSpec |-> <<"ts", "t", "ns">>]

WaveformFields == [
    waveformElem |-> <<"ns", "ns">>,                      \* Value, After
    condWaveform |-> <<"ns", "ns">>,                      \* Waveform, Cond
    selWaveform  |-> <<"ns", "ns">>,                      \* Waveform, Choices
    delay        |-> <<"b", "ns">>]                       \* Transport, Reject

(* Every statement begins with its label. *)
ConcurrentFields == [
    selected      |-> <<"t", "ns", "ns", "ns", "ns">>,    \* Expr, Target, Delay, Alts
    concurrent    |-> <<"t", "ns", "ns", "ns", "ns">>,    \* Target, Delay, Waveform, Conds
    assoc         |-> <<"t", "ns">>,                      \* Formal, Actual
    instantiation |-> <<"t", "t", "t", "t", "ns", "ns">>, \* UnitKind, Unit, Arch, maps
    procCall      |-> <<"t", "t", "ns">>,
    generate      |-> <<"t", "t", "t", "ns", "ns", "ns", "ns">>,
                                              \* Kind, Param, Range, Cond, Decls, Stmts
    process       |-> <<"t", "b", "ns", "ns", "ns">>]

SequentialFields == [
    signalAssign   |-> <<"t", "ns", "ns", "ns">>,
    variableAssign |-> <<"t", "ns", "ns">>,
    elsif          |-> <<"ns", "ns">>,
    if             |-> <<"t", "ns", "ns", "ns", "ns">>,   \* Cond, Then, Elsifs, Else
    caseAlt        |-> <<"ns", "ns">>,
    case           |-> <<"t", "ns", "ns">>,
    null           |-> <<"t">>,
    comment        |-> <<"t">>,
    return         |-> <<"t", "ns">>,
    loop           |-> <<"t", "t", "t", "ns", "ns", "ns">>, \* Scheme, Param, Range, Cond, Stmts
    next           |-> <<"t", "t", "ns">>,
    exit           |-> <<"t", "t", "ns">>,
    assert         |-> <<"t", "ns", "ns", "ns">>,
    report         |-> <<"t", "ns", "ns">>,
    wait           |-> <<"t", "ns", "ns", "ns">>]         \* On, Until, For

(* A subtype indication is two fields: the mark and the constraint. *)
DeclFields == [
    constant  |-> <<"ts", "t", "ns", "ns">>,
    signal    |-> <<"ts", "t", "ns", "ns">>,
    variable  |-> <<"b", "ts", "t", "ns", "ns">>,
    subtype   |-> <<"t", "t", "ns">>,
    type      |-> <<"t", "ns">>,
    component |-> <<"t", "ns", "ns">>,
    interface |-> <<"t", "ts", "t", "t", "ns", "ns">>,    \* ObjClass, Names, Mode, ...
    subprogram |-> <<"t", "b", "t", "ns", "t">>,  \* Pure or Impure, IsProcedure, ...
    subprogramBody |-> <<"t", "b", "t", "ns", "t", "ns", "ns">>,
    signature |-> <<"ts", "t">>,
    alias     |-> <<"t", "t", "ns", "ns", "ns">>,         \* ..., Target, Signature
    attribute |-> <<"t", "t">>,
    attributeSpec |-> <<"t", "ts", "t", "ns">>,
    groupTemplate |-> <<"t", "ts">>,
    group     |-> <<"t", "t", "ts">>,
    file      |-> <<"ts", "t", "t", "ns", "ns">>,         \* ..., Mode, OpenMode, LogicalName
    fileType  |-> <<"t">>,
    access    |-> <<"t">>,
    enum      |-> <<"ts">>,
    record    |-> <<"ns">>,
    recordField |-> <<"ts", "t", "ns">>,
    array     |-> <<"t">>]

ExprFields == [
    physical  |-> <<"t", "t">>,
    lit       |-> <<"t", "t">>,                           \* Kind, Value
    ident     |-> <<"t">>,
    range     |-> <<"ns", "t", "ns">>,
    call      |-> <<"ns", "ns">>,
    binary    |-> <<"ns", "t", "ns">>,
    unary     |-> <<"t", "ns">>,
    paren     |-> <<"ns">>,
    aggregate |-> <<"ns">>,
    element   |-> <<"ns", "ns">>,                         \* Choices, X
    qualified |-> <<"ns", "ns">>,
    selector  |-> <<"ns", "t">>,
    attrName  |-> <<"ns", "t">>,
    rangeConstraint |-> <<"ns", "ns">>,
    allocator |-> <<"ns">>]

Families == <<UnitFields, ConfigSpecFields, WaveformFields, ConcurrentFields,
              SequentialFields, DeclFields, ExprFields>>
Kinds == UNION {DOMAIN Families[i] : i \in DOMAIN Families}
Sorts(kind) == Families[CHOOSE i \in DOMAIN Families : kind \in DOMAIN Families[i]][kind]

Parts == {"waveformElem", "condWaveform", "selWaveform", "delay", "elsif", "caseAlt",
          "signature", "recordField"}

(* Field i of a node, and whether it holds nodes. *)
Field(n, i) == n[i + 1]
NodeFields(n) == {i \in DOMAIN Sorts(n[1]) : Sorts(n[1])[i] = "ns"}

(* A list of lists as one list; the empty list makes TLC evaluate each once. *)
Concat(seqs) == FlattenSeq(seqs \o <<>>)

(* The children of a node in the order of its fields, a part replaced by its   *)
(* own children.                                                               *)
RECURSIVE ChildNodes(_)
ChildNodes(n) ==
    LET OfField(i) ==
            IF i \notin NodeFields(n) THEN <<>>
            ELSE Concat([j \in DOMAIN Field(n, i) |->
                     LET c == Field(n, i)[j]
                     IN  IF c[1] \in Parts THEN ChildNodes(c) ELSE <<c>>])
    IN  Concat([i \in 1..(Len(n) - 1) |-> OfField(i)])

(* A tree without its comments, which only the generator makes. *)
RECURSIVE Strip(_)
Strip(n) ==
    [i \in DOMAIN n |->
        IF i = 1 \/ (i - 1) \notin NodeFields(n) THEN n[i]
        ELSE LET kept == SelectSeq(n[i], LAMBDA c : c[1] # "comment")
             IN  [j \in DOMAIN kept |-> Strip(kept[j])]]
=============================================================================

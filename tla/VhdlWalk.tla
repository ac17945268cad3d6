------------------------------- MODULE VhdlWalk -------------------------------
(* The traversal of tools/socgen/vhdl that the interface extractor and the      *)
(* tests use: Walk visits a node, then the children it names for that kind of   *)
(* node; a kind it has no case for is a panic.                                  *)
EXTENDS VhdlAst

(* The child fields Walk visits, in its order. *)
UnitWalk == [designFile |-> <<1, 2>>, libraryClause |-> <<>>, useClause |-> <<>>,
    package |-> <<2>>, entity |-> <<2, 3, 4, 5>>, architecture |-> <<3, 4>>,
    packageBody |-> <<2>>, configuration |-> <<3, 4>>, blockConfig |-> <<2, 3>>,
    compConfig |-> <<3, 4>>, binding |-> <<4, 5>>]

StmtWalk == [concurrent |-> <<2, 3, 4, 5>>, instantiation |-> <<5, 6>>, assoc |-> <<2>>,
    generate |-> <<4, 5, 6, 7>>, process |-> <<3, 4, 5>>, signalAssign |-> <<2, 3, 4>>,
    variableAssign |-> <<2, 3>>, null |-> <<>>, comment |-> <<>>, return |-> <<2>>,
    case |-> <<2, 3>>, if |-> <<2, 3, 4, 5>>, loop |-> <<4, 5, 6>>, next |-> <<3>>,
    exit |-> <<3>>, assert |-> <<2, 3, 4>>, report |-> <<2, 3>>, wait |-> <<2, 3, 4>>,
    procCall |-> <<3>>, selected |-> <<2, 3, 4, 5>>]

DeclWalk == [constant |-> <<3, 4>>, signal |-> <<3, 4>>, variable |-> <<4, 5>>,
    subtype |-> <<3>>, type |-> <<2>>, component |-> <<2, 3>>, interface |-> <<5, 6>>,
    subprogram |-> <<4>>, subprogramBody |-> <<4, 6, 7>>, alias |-> <<3, 4>>,
    configSpec |-> <<3>>, attribute |-> <<>>, groupTemplate |-> <<>>, group |-> <<>>,
    attributeSpec |-> <<4>>, file |-> <<4, 5>>, enum |-> <<>>, record |-> <<1>>,
    array |-> <<>>, fileType |-> <<>>, access |-> <<>>]

ExprWalk == [physical |-> <<>>, lit |-> <<>>, ident |-> <<>>, range |-> <<1, 3>>,
    call |-> <<1, 2>>, selector |-> <<1>>, attrName |-> <<1>>, binary |-> <<1, 3>>,
    unary |-> <<2>>, paren |-> <<1>>, aggregate |-> <<1>>, element |-> <<1, 2>>,
    qualified |-> <<1, 2>>, rangeConstraint |-> <<1, 2>>, allocator |-> <<1>>]

(* Mutant: the delay of a waveform element is passed over. *)
PartWalkNoAfter == [waveformElem |-> <<1>>, condWaveform |-> <<1, 2>>, selWaveform |-> <<1, 2>>,
    delay |-> <<2>>, elsif |-> <<1, 2>>, caseAlt |-> <<1, 2>>, signature |-> <<>>,
    recordField |-> <<3>>]

(* The parts that are no Node are gone through in place. *)
PartWalk == [waveformElem |-> <<1, 2>>, condWaveform |-> <<1, 2>>, selWaveform |-> <<1, 2>>,
    delay |-> <<2>>, elsif |-> <<1, 2>>, caseAlt |-> <<1, 2>>, signature |-> <<>>,
    recordField |-> <<3>>]

WalkTables == <<UnitWalk, StmtWalk, DeclWalk, ExprWalk, PartWalk>>
WalkFields(kind) ==
    WalkTables[CHOOSE i \in DOMAIN WalkTables : kind \in DOMAIN WalkTables[i]][kind]

(* Walk: the nodes in the order of their visits. *)
RECURSIVE Walk(_)
Walk(node) ==
    (IF node[1] \in Parts THEN <<>> ELSE <<node>>) \o
    Concat([i \in DOMAIN WalkFields(node[1]) |->
        LET children == Field(node, WalkFields(node[1])[i])
        IN  Concat([j \in DOMAIN children |-> Walk(children[j])])])
=============================================================================

-------------------------------- MODULE MCVhdl --------------------------------
(* Trees for the front end: every kind of node at least once, small, with        *)
(* distinct names so that order and identity show.                             *)
EXTENDS VhdlFrontEnd

MCWords == {"a", "b", "c", "d", "g", "h", "t", "e", "r", "p", "x"} \cup NamedKinds
MCNumbers == {"1", "2"}
MCFragments == {"x", "1", ".", "(", ")", ";", ",", ":", "|", "'", "is", "begin", "end", "range",
                "all", "open", "for", "not", "-"}

Id(w) == <<"ident", <<w>>>>
IntLit(d) == <<"lit", "INT", <<d>>>>
Char(w) == <<"lit", "CHARLIT", <<"'", w, "'">>>>
Str(w) == <<"lit", "STRINGLIT", <<"\"", w, "\"">>>>
Bin(l, op, r) == <<"binary", <<l>>, op, <<r>>>>
Rng(l, r) == <<"range", <<l>>, <<"downto">>, <<r>>>>
Pos(e) == <<"assoc", <<>>, <<e>>>>
Named(w, e) == <<"assoc", <<w>>, <<e>>>>
Call(f, args) == <<"call", <<Id(f)>>, args>>
Paren(e) == <<"paren", <<e>>>>

Expressions == {
    IntLit("1"), Char("a"), Str("a"), <<"lit", "BITSTRINGLIT", <<"x", "\"", "1", "\"">>>>,
    <<"lit", "REAL", <<"1", ".", "2", "e", "-", "1">>>>, <<"lit", "BASEDLIT", <<"1", "#", "a", "#">>>>,
    <<"lit", "STRINGLIT", <<"\"", "a", "\"", "\"", "\"">>>>,
    <<"physical", <<"1">>, <<"a">>>>, <<"ident", <<"\\", "a", "\\">>>>,
    <<"ident", <<"a", ".", "b", "'", "c">>>>, <<"ident", <<"null">>>>,
    <<"selector", <<Call("a", <<Pos(Id("b"))>>)>>, <<"c">>>>,
    <<"attrName", <<Call("a", <<Pos(Id("b")), Named("c", Id("d"))>>)>>, <<"range">>>>,
    Call("a", <<Pos(Rng(IntLit("2"), IntLit("1")))>>),
    <<"qualified", <<Id("a")>>, <<Paren(Char("b"))>>>>,
    <<"qualified", <<Id("a")>>, <<<<"aggregate",
        << <<"element", <<>>, <<Id("b")>>>>, <<"element", <<>>, <<Id("c")>>>> >>>>>>>>,
    <<"aggregate", << <<"element", <<Id("a"), Char("b")>>, <<Id("c")>>>>,
                      <<"element", <<<<"ident", <<"others">>>>>>, <<Id("d")>>>> >>>>,
    <<"allocator", <<Id("a")>>>>,
    <<"unary", <<"not">>, <<Id("a")>>>>,
    Bin(Id("a"), <<"*", "*">>, Id("b")),
    Bin(<<"unary", <<"-">>, <<Bin(Id("a"), <<"*">>, Id("b"))>>>>, <<"+">>, Id("c")),
    Bin(Bin(Id("a"), <<"and">>, Id("b")), <<"or">>,
        Bin(Id("c"), <<"<", "=">>, Bin(Id("d"), <<"sll">>, Bin(Id("g"), <<"&">>, Id("h"))))),
    Bin(Paren(Bin(Id("a"), <<"+">>, Id("b"))), <<"mod">>, <<"unary", <<"abs">>, <<Id("c")>>>>)}

Elem(e, after) == <<"waveformElem", <<e>>, after>>
Wave(e) == <<Elem(e, <<>>)>>
CAssign(label, target, delay, wf, conds) ==
    <<"concurrent", label, <<Id(target)>>, delay, wf, conds>>
SAssign(target, e) == <<"signalAssign", <<>>, <<Id(target)>>, <<>>, Wave(Id(e))>>
VAssign(target, e) == <<"variableAssign", <<>>, <<Id(target)>>, <<Id(e)>>>>
Delay(kind) == CASE kind = "transport" -> << <<"delay", TRUE, <<>>>> >>
                 [] kind = "inertial" -> << <<"delay", FALSE, <<>>>> >>
                 [] kind = "reject" -> << <<"delay", FALSE, <<Id("d")>>>> >>
Comment == <<"comment", <<"h">>>>

Interface(w) == <<"interface", <<>>, <<<<w>>>>, <<>>, <<"t">>, <<>>, <<>>>>
PortOf(w, mode) == <<"interface", <<"signal">>, <<<<w>>>>, <<mode>>, <<"t">>, <<Paren(IntLit("1"))>>,
                     <<Id("e")>>>>
Signal(w) == <<"signal", <<<<w>>>>, <<"t">>, <<>>, <<>>>>

ConcurrentStmts == {
    CAssign(<<"h">>, "t", Delay("reject"),
            <<Elem(Id("a"), <<Id("b")>>), Elem(Id("c"), <<>>)>>, <<>>),
    CAssign(<<>>, "t", Delay("transport"), <<>>,
            << <<"condWaveform", Wave(Id("a")), <<Id("b")>>>>,
               <<"condWaveform", Wave(Id("c")), <<>>>> >>),
    <<"selected", <<>>, <<Id("a")>>, <<Id("t")>>, Delay("inertial"),
      << <<"selWaveform", Wave(Id("b")), <<IntLit("1"), IntLit("2")>>>>,
         <<"selWaveform", Wave(Id("c")), <<<<"ident", <<"others">>>>>>>> >>>>,
    <<"instantiation", <<"h">>, <<>>, <<"a">>, <<>>, <<Named("g", IntLit("1"))>>,
      <<Named("b", Id("c")), Named("d", <<"ident", <<"open">>>>)>>>>,
    <<"instantiation", <<"h">>, <<"entity">>, <<"a", ".", "b">>, <<"r">>, <<>>, <<Pos(Id("c"))>>>>,
    <<"instantiation", <<"h">>, <<"configuration">>, <<"a">>, <<>>, <<>>, <<>>>>,
    <<"procCall", <<"h">>, <<"p">>, <<Pos(Id("a"))>>>>,
    <<"assert", <<>>, <<Id("a")>>, <<Str("b")>>, <<Id("c")>>>>,
    <<"generate", <<"h">>, <<"for">>, <<"a">>, <<Rng(IntLit("2"), IntLit("1"))>>, <<>>, <<Signal("b")>>,
      <<CAssign(<<>>, "c", <<>>, Wave(Id("d")), <<>>)>>>>,
    <<"generate", <<"h">>, <<"if">>, <<>>, <<>>, <<Id("a")>>, <<>>,
      <<CAssign(<<>>, "c", <<>>, Wave(Id("d")), <<>>), Comment>>>>}

Sequential == {
    <<"if", <<"h">>, <<Id("a")>>, <<SAssign("b", "c")>>,
      << <<"elsif", <<Id("d")>>, <<VAssign("g", "e")>>>> >>, <<<<"null", <<>>>>>>>>,
    <<"case", <<>>, <<Id("a")>>,
      << <<"caseAlt", <<Char("b"), Char("c")>>, <<SAssign("d", "g"), Comment>>>>,
         <<"caseAlt", <<<<"ident", <<"others">>>>>>, <<<<"null", <<>>>>>>>> >>>>,
    <<"loop", <<>>, <<"for">>, <<"a">>,
      <<<<"rangeConstraint", <<Id("b")>>, <<Rng(IntLit("2"), IntLit("1"))>>>>>>, <<>>,
      << <<"next", <<>>, <<"h">>, <<Id("c")>>>>, <<"exit", <<>>, <<>>, <<>>>> >>>>,
    <<"loop", <<"h">>, <<"while">>, <<>>, <<>>, <<Id("a")>>, <<VAssign("b", "c")>>>>,
    <<"loop", <<>>, <<>>, <<>>, <<>>, <<>>, <<<<"exit", <<>>, <<>>, <<Id("a")>>>>>>>>,
    <<"wait", <<>>, <<Id("a"), Id("b")>>, <<Id("c")>>, <<<<"physical", <<"1">>, <<"d">>>>>>>>,
    <<"report", <<>>, <<Str("a")>>, <<Id("b")>>>>,
    <<"procCall", <<>>, <<"p">>, <<Pos(Id("a")), Pos(Id("b"))>>>>,
    <<"return", <<>>, <<Id("a")>>>>}

Declarations == {
    <<"constant", <<<<"a">>, <<"b">>>>, <<"c", ".", "t">>, <<Rng(IntLit("2"), IntLit("1"))>>, <<Id("d")>>>>,
    <<"variable", TRUE, <<<<"a">>>>, <<"t">>, <<Paren(Rng(IntLit("2"), IntLit("1")))>>, <<>>>>,
    <<"subtype", <<"a">>, <<"t">>, <<Rng(IntLit("2"), IntLit("1"))>>>>,
    <<"type", <<"a">>, <<<<"enum", <<<<"b">>, <<"'", "c", "'">>>>>>>>>>,
    <<"type", <<"a">>, <<<<"record", << <<"recordField", <<<<"b">>, <<"c">>>>, <<"t">>,
                                           <<Paren(IntLit("1"))>>>> >>>>>>>>,
    <<"type", <<"a">>, <<<<"array", <<"array", " ", "(", " ", "b", " ", ")", " ", "of", " ", "t">>>>>>>>,
    <<"type", <<"a">>, <<<<"fileType", <<"t">>>>>>>>,
    <<"type", <<"a">>, <<<<"access", <<"t">>>>>>>>,
    <<"component", <<"a">>, <<Interface("g")>>, <<PortOf("b", "in"), PortOf("c", "out")>>>>,
    <<"subprogram", <<"pure">>, FALSE, <<"a">>, <<Interface("b")>>, <<"t">>>>,
    <<"subprogramBody", <<>>, TRUE, <<"p">>, <<PortOf("b", "inout")>>, <<>>, <<Signal("c")>>,
      <<SAssign("d", "g")>>>>,
    <<"alias", <<"a">>, <<"t">>, <<Paren(IntLit("1"))>>, <<Id("b")>>,
      <<<<"signature", <<<<"c">>>>, <<"d">>>>>>>>,
    <<"attribute", <<"a">>, <<"t">>>>,
    <<"attributeSpec", <<"a">>, <<<<"b">>, <<"c">>>>, <<"signal">>, <<Str("d")>>>>,
    <<"groupTemplate", <<"a">>, <<<<"signal">>, <<"label", " ", "<", ">">>>>>>,
    <<"group", <<"a">>, <<"b">>, <<<<"c">>, <<"d">>>>>>,
    <<"configSpec", <<<<"a">>>>, <<"b">>,
      <<<<"binding", <<"entity">>, <<"c", ".", "d">>, <<"r">>, <<Named("g", IntLit("1"))>>, <<>>>>>>>>,
    <<"file", <<<<"a">>>>, <<"t">>, <<>>, <<Id("b")>>, <<Str("c")>>>>,
    <<"file", <<<<"a">>>>, <<"t">>, <<"in">>, <<>>, <<Str("c")>>>>,
    <<"useClause", <<<<"a", ".", "b", ".", "all">>>>>>,
    Comment}

DesignFile(context, units) == <<"designFile", context, units>>
Arch(decls, stmts) ==
    DesignFile(<<>>, << <<"architecture", <<"r">>, <<"e">>, decls, stmts>> >>)
Proc(stmts) == <<"process", <<>>, FALSE, <<Id("x")>>, <<>>, stmts>>

Units == {
    <<"package", <<"p">>, <<Signal("a")>>>>, <<"packageBody", <<"p">>, <<>>>>,
    <<"entity", <<"e">>, <<Interface("g")>>, <<PortOf("a", "in"), Interface("b")>>, <<Signal("c")>>,
      <<CAssign(<<>>, "d", <<>>, Wave(Id("h")), <<>>)>>>>,
    <<"configuration", <<"p">>, <<"e">>, <<<<"useClause", <<<<"a", ".", "all">>>>>>>>,
      <<<<"blockConfig", <<"r">>, <<>>,
          << <<"compConfig", <<<<"b">>>>, <<"c">>,
               <<<<"binding", <<"configuration">>, <<"d">>, <<>>, <<>>, <<>>>>>>,
               <<<<"blockConfig", <<"g">>, <<>>, <<>>>>>>>>,
             <<"blockConfig", <<"h">>, <<>>, <<>>>> >>>>>>>>}
Context == << <<"libraryClause", <<<<"a">>, <<"b">>>>>>, <<"useClause", <<<<"a", ".", "c">>>>>> >>

MCTrees ==
    {Arch(<<>>, <<CAssign(<<>>, "t", <<>>, Wave(x), <<>>)>>) : x \in Expressions} \cup
    {Arch(<<Signal("x")>>, <<s>>) : s \in ConcurrentStmts} \cup
    {Arch(<<>>, <<Proc(<<s>>)>>) : s \in Sequential} \cup
    {Arch(<<d, Signal("x")>>, <<>>) : d \in Declarations} \cup
    {DesignFile(<<>>, <<u>>) : u \in Units} \cup
    {DesignFile(Context, <<u>>) : u \in Units}

(* Files by hand, with what the printer never writes. *)
Src(words) == Concat([i \in DOMAIN words |-> <<words[i], " ">>])
ArchText(decls, stmts) ==
    <<"architecture", "r", "of", "e", "is">> \o decls \o <<"begin">> \o stmts
        \o <<"end", "architecture", "r", ";">>
ConfigText(items) ==
    <<"configuration", "p", "of", "e", "is">> \o items \o <<"end", "p", ";">>
File(words, made) == [text |-> Src(words), tree |-> made]

MCWritten == {
    File(ArchText(<<"type", "a", "is", "access", "t", "(", "2", "downto", "1", ")", ";">>,
                  <<"h", ":", "process", "is", "begin", "if", "a", "then", "null", ";", "end", "if", "d", ";",
                    "end", "process", "h", ";">>),
         Arch(<<<<"type", <<"a">>, <<<<"access", <<"t">>>>>>>>>>,
              <<<<"process", <<"h">>, FALSE, <<>>, <<>>,
                  <<<<"if", <<>>, <<Id("a")>>, <<<<"null", <<>>>>>>, <<>>, <<>>>>>>>>>>)),
    File(<<"package", "p", "is", "group", "a", "is", "(", "signal", ",", "b", ")", ";", "end", ";">>,
         DesignFile(<<>>, <<<<"package", <<"p">>,
             <<<<"groupTemplate", <<"a">>, <<<<"signal">>, <<"IDENT">>>>>>>>>>>>)),
    File(ConfigText(<<"for", "r", ",", "g", "for", "a", ":", "b", "end", "for", ";", "end", "for", ";">>),
         DesignFile(<<>>, <<<<"configuration", <<"p">>, <<"e">>, <<>>,
             <<<<"blockConfig", <<"r">>, <<>>, <<<<"compConfig", <<<<"a">>>>, <<"b">>, <<>>, <<>>>>>>>>>>>>>>)),
    File(ConfigText(<<"for", "a", ":", "b", "end", "for", ";">>),
         DesignFile(<<>>, <<<<"configuration", <<"p">>, <<"e">>, <<>>, <<>>>>>>))}
=============================================================================

------------------------------ MODULE VhdlParser ------------------------------
(* The recursive descent parser of tools/socgen/vhdl.  A production is the      *)
(* sequence of what one parse function does: expect a token, accept one, read   *)
(* a name, call another function, loop.  Run executes it on a parser state s:   *)
(* the tokens ts, the index i, the number of errors, the fields out collected   *)
(* for the node under construction, and the node n just finished (<<>> for nil). *)
EXTENDS VhdlPrinter, VhdlLexer

Kw(t) == t[1]
NamedKinds == {"IDENT", "EXTIDENT", "INT", "REAL", "BASEDLIT", "CHARLIT", "STRINGLIT",
               "BITSTRINGLIT", "ILLEGAL", "EOF"}
Lit(t) == IF t[1] \in Keywords \cup NamedKinds THEN t[2] ELSE <<>>  \* delimiters carry no literal

(* Kind.String: a keyword or delimiter is its text, any other kind has a name. *)
KindText(t) == IF t[1] \in NamedKinds THEN <<t[1]>> ELSE t[2]

Start(ts) == [ts |-> ts, i |-> 1, errs |-> 0, out |-> <<>>, n |-> <<>>]

Cur(s) == s.ts[s.i]
At(s, ks) == Kw(Cur(s)) \in ks
PeekKind(s) == IF s.i < Len(s.ts) THEN Kw(s.ts[s.i + 1]) ELSE "EOF"
Advance(s) == [s EXCEPT !.i = IF @ < Len(s.ts) THEN @ + 1 ELSE @]
Error(s) == [s EXCEPT !.errs = @ + 1]
Put(s, v) == [s EXCEPT !.out = Append(@, v)]
Node(s, n) == [s EXCEPT !.n = <<n>>]
Nil(s) == [s EXCEPT !.n = <<>>]

(* A missing token is an error and consumes nothing. *)
Expect(s, k) == IF At(s, {k}) THEN Advance(s) ELSE Error(s)
Accept(s, k) == IF At(s, {k}) THEN Advance(s) ELSE s

(* A loop whose body consumed nothing skips a token, so that it ends. *)
EnsureProgress(before, s) ==
    IF s.i = before.i /\ ~At(s, {"EOF"}) THEN Advance(Error(s)) ELSE s

(* The steps of a production. *)
T(k) == <<"expect", k>>              \* expect the token k
A(k) == <<"accept", k>>              \* skip a token k if it is there
Flag(k) == <<"flag", k>>             \* the same, its presence is a field
Val(v) == <<"val", v>>               \* a field with a fixed value
Bad == <<"bad">>                     \* record an error
Text(r) == <<"text", r>>             \* read a text with reader r
Texts(r) == <<"texts", r>>           \* texts separated by commas
R(r) == <<"rule", r>>                \* one child
SepBy(r, k) == <<"sep", r, k>>       \* children separated by k
PList(r, k, lax) == <<"plist", r, k, lax>>    \* ( children ), a last separator tolerated if lax
Many(stops, r) == <<"many", r, stops>>        \* children until a stop, with EnsureProgress
While(ks, r) == <<"while", r, ks>>            \* children as long as one of ks is next
When(ks, w, p) == <<"when", ks, w, p>>        \* p (of w fields) if one of ks is next
Alt(cases, default) == <<"alt", cases, default>>
Subtype == <<"subtype">>                      \* mark and constraint

(* -- Texts ---------------------------------------------------------------- *)

(* parseDottedName: a name or keyword, then .name as long as it goes on; a      *)
(* point that is followed by neither is consumed and dropped.                  *)
RECURSIVE DottedTail(_, _)
DottedTail(s, text) ==
    IF ~At(s, {"."}) THEN Put(s, text)
    ELSE LET next == Advance(s)
         IN  IF At(next, {"IDENT", "EXTIDENT"} \cup Keywords)
             THEN DottedTail(Advance(next), text \o <<".">> \o Lit(Cur(next)))
             ELSE Put(next, text)
DottedName(s) ==
    IF At(s, {"IDENT", "EXTIDENT"} \cup Keywords)
    THEN DottedTail(Advance(s), Lit(Cur(s)))
    ELSE Put(Error(s), <<>>)

(* One of ks, or an error; the wrong token is consumed. *)
OneOf(s, ks) ==
    IF At(s, ks) THEN Put(Advance(s), Lit(Cur(s))) ELSE Put(Advance(Error(s)), <<>>)

(* Whatever token comes first is the class, and of a token that is no keyword   *)
(* only its kind is kept.                                                      *)
EntityClassEntry(s) ==
    LET next == Advance(s)
    IN  IF At(next, {"<>"}) THEN Put(Advance(next), KindText(Cur(s)) \o <<" ", "<", ">">>)
        ELSE Put(next, KindText(Cur(s)))

ReadText(r, s) ==
    CASE r = "ident" -> Put(Expect(s, "IDENT"), Lit(Cur(s)))
      [] r = "dotted" -> DottedName(s)
      [] r = "specName" -> OneOf(s, {"IDENT", "all", "others"})
      [] r = "enumLit" -> OneOf(s, {"IDENT", "CHARLIT"})
      [] r = "designator" -> OneOf(s, {"IDENT", "EXTIDENT", "STRINGLIT"})
      [] r = "class" -> EntityClassEntry(s)
      [] r = "entityClass" ->
           Put(IF At(s, Keywords) THEN Advance(s) ELSE Error(Advance(s)), Lit(Cur(s)))
      [] r = "word" -> Put(Advance(s), Lit(Cur(s)))          \* the token itself

(* -- Productions: context clauses and design units ------------------------- *)

LibraryClause == <<T("library"), Texts("ident"), T(";")>>
UseClause == <<T("use"), Texts("dotted"), T(";")>>
Maps == <<When({"generic"}, 1, <<T("generic"), T("map"), PList("assoc", ",", FALSE)>>),
          When({"port"}, 1, <<T("port"), T("map"), PList("assoc", ",", FALSE)>>)>>
Interfaces ==
    <<When({"generic"}, 1, <<T("generic"), PList("interface", ";", TRUE), T(";")>>),
      When({"port"}, 1, <<T("port"), PList("interface", ";", TRUE), T(";")>>)>>
ArchSpec == When({"("}, 1, <<T("("), Text("ident"), T(")")>>)

ConfigurationDecl ==
    <<T("configuration"), Text("ident"), T("of"), Text("dotted"), T("is"),
      While({"use"}, "useClause"), R("block"), T("end"), A("configuration"), A("IDENT"), T(";")>>
BlockConfig == <<While({"use"}, "useClause"), Many({"end"}, "configItem"),
                 T("end"), T("for"), T(";")>>
ComponentConfig ==
    <<T(":"), Text("dotted"), When({"use"}, 1, <<R("binding")>>), R("block"),
      T("end"), T("for"), T(";")>>
BindingIndication ==
    <<T("use"),
      Alt(<< <<{"entity"}, <<Text("word"), Text("dotted"), ArchSpec>>>>,
             <<{"configuration"}, <<Text("word"), Text("dotted"), Val(<<>>)>>>>,
             <<{"open"}, <<Text("word"), Val(<<>>), Val(<<>>)>>>> >>,
          <<Bad, Val(<<>>), Val(<<>>), Val(<<>>)>>)>> \o Maps \o <<T(";")>>

PackageDecl == <<T("package"), Text("ident"), T("is"), Many({"end"}, "decl"),
                 T("end"), A("package"), A("IDENT"), T(";")>>
PackageBody == <<T("package"), T("body"), Text("ident"), T("is"), Many({"end"}, "decl"),
                 T("end"), A("package"), A("body"), A("IDENT"), T(";")>>
EntityDecl ==
    <<T("entity"), Text("ident"), T("is")>> \o Interfaces \o
    <<Many({"end", "begin"}, "decl"),
      When({"begin"}, 1, <<T("begin"), Many({"end"}, "cstmt")>>),
      T("end"), A("entity"), A("IDENT"), T(";")>>
ArchitectureBody ==
    <<T("architecture"), Text("ident"), T("of"), Text("ident"), T("is"),
      Many({"begin", "end"}, "decl"), T("begin"), Many({"end"}, "cstmt"),
      T("end"), A("architecture"), A("IDENT"), T(";")>>

(* -- Productions: statements; the label is read before ---------------------- *)

DelayMechanism ==
    Alt(<< <<{"transport"}, <<R("transport")>>>>, <<{"reject"}, <<R("reject")>>>>,
           <<{"inertial"}, <<R("inertial")>>>> >>, <<Val(<<>>)>>)
Transport == <<T("transport"), Val(TRUE), Val(<<>>)>>
Reject == <<T("reject"), Val(FALSE), R("expr"), T("inertial")>>
Inertial == <<T("inertial"), Val(FALSE), Val(<<>>)>>
WaveformElem == <<R("expr"), When({"after"}, 1, <<T("after"), R("expr")>>)>>
Waveform == SepBy("waveformElem", ",")
SelectedAssign == <<T("with"), R("expr"), T("select"), R("name"), T("<="), DelayMechanism,
                    SepBy("selWaveform", ","), T(";")>>
SelectedWaveform == <<Waveform, T("when"), SepBy("expr", "|")>>
DeclStart == {"constant", "signal", "variable", "shared", "subtype", "type", "component",
              "function", "procedure", "pure", "impure", "attribute", "alias", "group",
              "file", "use"}
Generate ==
    <<Alt(<< <<{"for"}, <<Text("word"), Text("ident"), T("in"), R("discreteRange"),
                          Val(<<>>)>>>> >>,
          <<Text("word"), Val(<<>>), Val(<<>>), R("expr")>>),
      T("generate"), While(DeclStart, "decl"), A("begin"), Many({"end"}, "cstmt"),
      T("end"), T("generate"), A("IDENT"), T(";")>>
Process ==
    <<Flag("postponed"), T("process"), When({"("}, 1, <<PList("name", ",", FALSE)>>), A("is"),
      Many({"begin", "end"}, "decl"), T("begin"), Many({"end"}, "sstmt"),
      T("end"), A("postponed"), T("process"), A("IDENT"), T(";")>>
FinishInstantiation == Maps \o <<T(";")>>

Loop ==
    <<Alt(<< <<{"for"}, <<Text("word"), Text("ident"), T("in"), R("discreteRange"),
                          Val(<<>>)>>>>,
             <<{"while"}, <<Text("word"), Val(<<>>), Val(<<>>), R("expr")>>>> >>,
          <<Val(<<>>), Val(<<>>), Val(<<>>), Val(<<>>)>>),
      T("loop"), Many({"end"}, "sstmt"), T("end"), T("loop"), A("IDENT"), T(";")>>
NextExitUnlabelled(word) ==          \* mutant: the label is skipped, not kept
    <<T(word), A("IDENT"), Val(<<>>), When({"when"}, 1, <<T("when"), R("expr")>>), T(";")>>
NextExit(word) == <<T(word), When({"IDENT"}, 1, <<Text("ident")>>),
                    When({"when"}, 1, <<T("when"), R("expr")>>), T(";")>>
Wait == <<T("wait"), When({"on"}, 1, <<T("on"), SepBy("name", ",")>>),
          When({"until"}, 1, <<T("until"), R("expr")>>),
          When({"for"}, 1, <<T("for"), R("expr")>>), T(";")>>
Severity == When({"severity"}, 1, <<T("severity"), R("expr")>>)
AssertStmt == <<T("assert"), R("expr"), When({"report"}, 1, <<T("report"), R("expr")>>),
            Severity, T(";")>>
Report == <<T("report"), R("expr"), Severity, T(";")>>
Case == <<T("case"), R("expr"), T("is"), While({"when"}, "caseAlt"),
          T("end"), T("case"), A("IDENT"), T(";")>>
CaseAlt == <<T("when"), SepBy("expr", "|"), T("=>"), Many({"when", "end"}, "sstmt")>>
If == <<T("if"), R("expr"), T("then"), Many({"elsif", "else", "end"}, "sstmt"),
        While({"elsif"}, "elsif"),
        When({"else"}, 1, <<T("else"), Many({"end"}, "sstmt")>>),
        T("end"), T("if"), A("IDENT"), T(";")>>
Elsif == <<T("elsif"), R("expr"), T("then"), Many({"elsif", "else", "end"}, "sstmt")>>
Null == <<T("null"), T(";")>>
Return == <<T("return"), Alt(<< <<{";"}, <<Val(<<>>)>>>> >>, <<R("expr")>>), T(";")>>

(* -- Productions: declarations ---------------------------------------------- *)

Default == When({":="}, 1, <<T(":="), R("expr")>>)
ConstantOrSignal == <<Texts("ident"), T(":"), Subtype, Default, T(";")>>
VariableDecl == <<Flag("shared"), T("variable"), Texts("ident"), T(":"), Subtype, Default, T(";")>>
SubtypeDecl == <<T("subtype"), Text("ident"), T("is"), Subtype, T(";")>>
FileDecl ==
    <<T("file"), Texts("ident"), T(":"), Text("dotted"),
      Alt(<< <<{"open"}, <<Val(<<>>), T("open"), R("expr"), T("is"), R("expr")>>>>,
             <<{"is"}, <<T("is"), When({"in", "out"}, 1, <<Text("word")>>), Val(<<>>),
                         R("expr")>>>> >>,
          <<Val(<<>>), Val(<<>>), Val(<<>>)>>), T(";")>>
ConfigSpec == <<T("for"), Texts("specName"), T(":"), Text("dotted"), R("binding")>>
Designator == <<Text("designator"), When({"("}, 1, <<PList("interface", ";", TRUE)>>)>>
SubprogramSpec ==
    <<When({"pure", "impure"}, 1, <<Text("word")>>),
      Alt(<< <<{"procedure"}, <<T("procedure"), Val(TRUE)>> \o Designator \o <<Val(<<>>)>>>> >>,
          <<T("function"), Val(FALSE)>> \o Designator \o <<T("return"), Text("dotted")>>)>>
SubprogramBody ==
    <<T("is"), Many({"begin", "end"}, "decl"), T("begin"), Many({"end"}, "sstmt"),
      T("end"), A("function"), A("procedure"),
      When({"IDENT", "EXTIDENT", "STRINGLIT"}, 0, <<<<"skip">>>>), T(";")>>
TypeDef ==
    Alt(<< <<{"("}, <<R("enum")>>>>, <<{"record"}, <<R("record")>>>>,
           <<{"array"}, <<R("array")>>>>, <<{"file"}, <<R("fileType")>>>>,
           <<{"access"}, <<R("access")>>>> >>,
        <<Bad, <<"skipTo">>, Val(<<>>)>>)
TypeDecl == <<T("type"), Text("ident"), T("is"), TypeDef, T(";")>>
EnumDef == <<T("("), Texts("enumLit"), T(")")>>
RecordDef == <<T("record"), Many({"end"}, "recordField"), T("end"), A("record"), A("IDENT")>>
RecordField == <<Texts("ident"), T(":"), Subtype, T(";")>>
ComponentDecl == <<T("component"), Text("ident"), A("is")>> \o Interfaces \o
                 <<T("end"), A("component"), A("IDENT"), T(";")>>
InterfaceDecl ==
    <<When({"constant", "signal", "variable"}, 1, <<Text("word")>>), Texts("ident"), T(":"),
      When({"in", "out", "inout", "buffer", "linkage"}, 1, <<Text("word")>>), Subtype, Default>>
AttributeSpec == <<T("of"), Texts("specName"), T(":"), Text("entityClass"), T("is"), R("expr"),
                   T(";")>>
AttributeDecl == <<T(":"), Text("dotted"), T(";")>>
Signature == <<T("["), Alt(<< <<{"return", "]"}, <<Val(<<>>)>>>> >>, <<Texts("dotted")>>),
               When({"return"}, 1, <<T("return"), Text("dotted")>>), T("]")>>
AliasDecl == <<T("alias"), Text("ident"), When({":"}, 2, <<T(":"), Subtype>>), T("is"), R("name"),
               When({"["}, 1, <<R("signature")>>), T(";")>>
GroupTemplate == <<T("is"), T("("), Texts("class"), T(")"), T(";")>>
GroupDecl == <<T(":"), Text("dotted"), T("("), Texts("dotted"), T(")"), T(";")>>

Rules == [
    libraryClause |-> LibraryClause, useClause |-> UseClause,
    configuration |-> ConfigurationDecl, binding |-> BindingIndication,
    package |-> PackageDecl, packageBody |-> PackageBody, entity |-> EntityDecl,
    architecture |-> ArchitectureBody, waveformElem |-> WaveformElem,
    selWaveform |-> SelectedWaveform, caseAlt |-> CaseAlt, elsif |-> Elsif,
    variable |-> VariableDecl, subtype |-> SubtypeDecl, file |-> FileDecl,
    configSpec |-> ConfigSpec, type |-> TypeDecl, enum |-> EnumDef, record |-> RecordDef,
    recordField |-> RecordField, component |-> ComponentDecl, interface |-> InterfaceDecl,
    signature |-> Signature, alias |-> AliasDecl, fileType |-> <<T("file"), T("of"), Text("dotted")>>]

(* -- The engine ----------------------------------------------------------- *)

RECURSIVE Step(_, _), Run(_, _), ListOf(_, _), TextsLoop(_, _),
          Parse(_, _), Tier(_, _), TierLoop(_, _, _), NameSuffixes(_), NameTail(_, _), AttrTail(_, _)

(* Run a production, then one that makes a node of what it collected. *)
Run(prod, s) == IF prod = <<>> THEN s ELSE Run(Tail(prod), Step(Head(prod), s))
Made(kind, s, r) == [r EXCEPT !.out = s.out, !.n = << <<kind>> \o r.out >>]
Make(kind, pre, prod, s) == Made(kind, s, Run(prod, [s EXCEPT !.out = pre]))

(* Children read into a list: s.out holds the list while the loop runs. A list in *)
(* parentheses with nothing in it is empty.                                      *)
Stops(it, s) ==
    \/ it[1] = "many" /\ At(s, it[3] \cup {"EOF"})
    \/ it[1] = "while" /\ ~At(s, it[3])
    \/ it[1] = "plist" /\ At(s, {")"})
After(it, before, t) ==
    CASE it[1] = "rule" -> t
      [] it[1] \in {"sep", "plist"} ->
           IF ~At(t, {it[3]}) THEN t
           ELSE IF it[1] = "plist" /\ it[4] /\ At(Advance(t), {")"}) THEN Advance(t)
           ELSE ListOf(it, Advance(t))
      [] OTHER -> LET u == EnsureProgress(before, t) IN IF Stops(it, u) THEN u ELSE ListOf(it, u)
Collect(s, t) == [t EXCEPT !.out = s.out \o t.n]
Closed(it, s) == IF it[1] = "plist" THEN Expect(s, ")") ELSE s
ListOf(it, s) == After(it, s, Collect(s, Parse(it[2], s)))
TextsLoop(r, s) ==
    LET t == ReadText(r, s) IN IF At(t, {","}) THEN TextsLoop(r, Advance(t)) ELSE t
AsField(s, t) == [t EXCEPT !.out = Append(s.out, t.out)]
Fresh(s) == [s EXCEPT !.out = <<>>]

Step(it, s) ==
    CASE it[1] = "expect" -> Expect(s, it[2])
      [] it[1] = "accept" -> Accept(s, it[2])
      [] it[1] = "flag" -> Put(Accept(s, it[2]), At(s, {it[2]}))
      [] it[1] = "val" -> Put(s, it[2])
      [] it[1] = "bad" -> Error(s)
      [] it[1] = "skip" -> Advance(s)
      [] it[1] = "skipTo" ->
           [s EXCEPT !.i = CHOOSE j \in @..Len(s.ts) :
                /\ Kw(s.ts[j]) \in {";", "EOF"}
                /\ \A k \in s.i..(j - 1) : Kw(s.ts[k]) \notin {";", "EOF"}]
      [] it[1] = "text" -> ReadText(it[2], s)
      [] it[1] = "texts" -> AsField(s, TextsLoop(it[2], Fresh(s)))
      [] it[1] \in {"rule", "sep", "plist", "many", "while"} ->
           LET open == Fresh(IF it[1] = "plist" THEN Expect(s, "(") ELSE s)
           IN  AsField(s, Closed(it, IF Stops(it, open) THEN open ELSE ListOf(it, open)))
      [] it[1] = "when" ->
           IF At(s, it[2]) THEN Run(it[4], s)
           ELSE [s EXCEPT !.out = @ \o [j \in 1..it[3] |-> <<>>]]
      [] it[1] = "alt" ->
           LET hits == {j \in DOMAIN it[2] : At(s, it[2][j][1])}
           IN  IF hits = {} THEN Run(it[3], s) ELSE Run(it[2][CHOOSE j \in hits : TRUE][2], s)
      [] it[1] = "subtype" ->
           LET m == DottedName(s)
           IN  CASE At(m, {"("}) -> Step(R("paren"), m)
                 [] At(m, {"range"}) -> Step(R("expr"), Advance(m))
                 [] OTHER -> Put(m, <<>>)

(* -- Expressions ------------------------------------------------------------ *)

(* Binary operators from the loosest tier to the tightest; all associate to    *)
(* the left.  A sign may stand before the first term of the fourth tier.       *)
Tiers == <<{"and", "or", "nand", "nor", "xor", "xnor"}, {"=", "/=", "<", "<=", ">", ">="},
           {"sll", "srl", "sla", "sra", "rol", "ror"}, {"+", "-", "&"},
           {"*", "/", "mod", "rem"}>>
Signs == {"+", "-"}

TierLoop(t, left, s) ==
    IF ~At(s, Tiers[t]) THEN Node(s, left)
    ELSE LET right == Tier(t + 1, Advance(s))
         IN  TierLoop(t, <<"binary", <<left>>, Cur(s)[2], right.n>>, right)

(* abs, not and ** take primaries only and do not nest. *)
Factor(s) ==
    IF At(s, {"abs", "not"})
    THEN LET x == Parse("primary", Advance(s)) IN Node(x, <<"unary", Cur(s)[2], x.n>>)
    ELSE LET x == Parse("primary", s)
         IN  IF ~At(x, {"**"}) THEN x
             ELSE LET y == Parse("primary", Advance(x))
                  IN  Node(y, <<"binary", x.n, Cur(x)[2], y.n>>)

Tier(t, s) ==
    IF t > Len(Tiers) THEN Factor(s)
    ELSE LET signed == t = 4 /\ At(s, Signs)
             x == Tier(t + 1, IF signed THEN Advance(s) ELSE s)
         IN  TierLoop(t, IF signed THEN <<"unary", Cur(s)[2], x.n>> ELSE x.n[1], x)

Expression(s) ==
    LET left == Tier(1, s)
    IN  IF ~At(left, {"to", "downto"}) THEN left
        ELSE LET right == Tier(1, Advance(left))
             IN  Node(right, <<"range", left.n, Cur(left)[2], right.n>>)

DiscreteRange(s) ==
    LET e == Parse("expr", s)
    IN  IF ~At(e, {"range"}) THEN e
        ELSE LET r == Parse("expr", Advance(e)) IN Node(r, <<"rangeConstraint", e.n, r.n>>)

Primary(s) ==
    LET k == Kw(Cur(s))
        next == Advance(s)
    IN  CASE k \in {"INT", "REAL", "BASEDLIT"} /\ At(next, {"IDENT"}) ->
               Node(Advance(next), <<"physical", Lit(Cur(s)), Lit(Cur(next))>>)
          [] k \in {"INT", "REAL", "BASEDLIT", "CHARLIT", "STRINGLIT", "BITSTRINGLIT"} /\
             ~(k \in {"INT", "REAL", "BASEDLIT"} /\ At(next, {"IDENT"})) ->
               Node(next, <<"lit", k, Lit(Cur(s))>>)
          [] k = "(" -> Parse("paren", s)
          [] k \in {"IDENT", "EXTIDENT"} -> Parse("name", s)
          [] k = "new" -> LET x == Parse("expr", next) IN Node(x, <<"allocator", x.n>>)
          [] k \in {"others", "all", "range", "null", "open"} -> Node(next, <<"ident", Cur(s)[2]>>)
          [] OTHER -> Node(Error(s), <<"lit", k, <<>>>>)     \* nothing is consumed

(* One positional element is a parenthesis, anything else an aggregate. *)
ParenOrAggregate(s) ==
    LET r == Step(PList("element", ",", TRUE), Fresh(s))
        elems == r.out[1]
        done == [r EXCEPT !.out = s.out]
    IN  IF Len(elems) = 1 /\ elems[1][2] = <<>>
        THEN Node(done, <<"paren", elems[1][3]>>) ELSE Node(done, <<"aggregate", elems>>)

ElementAssoc(s) ==
    LET first == Parse("expr", s)
    IN  IF ~At(first, {"|", "=>"}) THEN Node(first, <<"element", <<>>, first.n>>)
        ELSE LET more == IF At(first, {"|"})
                         THEN ListOf(SepBy("expr", "|"), [Advance(first) EXCEPT !.out = first.n])
                         ELSE [first EXCEPT !.out = first.n]
                 x == Parse("expr", Expect(more, "=>"))
             IN  Node([x EXCEPT !.out = s.out], <<"element", more.out, x.n>>)

(* -- Names ------------------------------------------------------------------ *)

(* parseName takes whatever token comes first; a point that no name follows is  *)
(* consumed and dropped.                                                       *)
NameTail(s, text) ==
    IF ~At(s, {"."}) THEN AttrTail(s, text)
    ELSE LET next == Advance(s)
         IN  IF At(next, {"IDENT", "EXTIDENT", "all"})
             THEN NameTail(Advance(next), text \o <<".">> \o Lit(Cur(next)))
             ELSE AttrTail(next, text)
AttrKinds == {"IDENT", "EXTIDENT"} \cup Keywords
AttrTail(s, text) ==
    IF At(s, {"'"}) /\ PeekKind(s) \in AttrKinds
    THEN AttrTail(Advance(Advance(s)), text \o <<"'">> \o Lit(Cur(Advance(s))))
    ELSE IF At(s, {"'"}) /\ PeekKind(s) = "("
    THEN LET x == Parse("paren", Advance(s)) IN Node(x, <<"qualified", <<<<"ident", text>>>>, x.n>>)
    ELSE NameSuffixes(Node(s, <<"ident", text>>))
Name(s) == NameTail(Advance(s), Lit(Cur(s)))

(* Calls, selections and attributes on what is no simple name any more. *)
NameSuffixes(s) ==
    CASE At(s, {"("}) ->
           LET r == Step(PList("assoc", ",", FALSE), Fresh(s))
           IN  NameSuffixes(Node([r EXCEPT !.out = s.out], <<"call", s.n, r.out[1]>>))
      [] At(s, {"."}) /\ PeekKind(s) \in {"IDENT", "EXTIDENT", "all"} ->
           NameSuffixes(Node(Advance(Advance(s)), <<"selector", s.n, Lit(Cur(Advance(s)))>>))
      [] At(s, {"'"}) /\ PeekKind(s) \in AttrKinds ->
           NameSuffixes(Node(Advance(Advance(s)), <<"attrName", s.n, Lit(Cur(Advance(s)))>>))
      [] OTHER -> s

(* A formal is kept as the text of the expression before the arrow. *)
AssocElement(s) ==
    LET first == Parse("expr", s)
    IN  IF ~At(first, {"=>"}) THEN Node(first, <<"assoc", <<>>, first.n>>)
        ELSE LET x == Parse("expr", Advance(first))
             IN  Node(x, <<"assoc", PrintExpr(first.n[1]), x.n>>)

(* -- Statements ------------------------------------------------------------- *)

(* name := value, name <= waveform, a call: told apart by what follows the name. *)
ProcCall(s, label, target) ==
    CASE target[1] = "call" -> Node(s, <<"procCall", label, PrintExpr(target[2][1]), target[3]>>)
      [] target[1] = "ident" -> Node(s, <<"procCall", label, target[2], <<>>>>)

Conditional == <<When({"when"}, 1, <<T("when"), R("expr")>>)>>
RECURSIVE CondLoop(_)
CondLoop(s) ==          \* arms after the first: they end with one that has no condition
    IF ~At(s, {"else"}) THEN s
    ELSE LET arm == Make("condWaveform", <<>>, <<Waveform>> \o Conditional, Advance(s))
             t == [arm EXCEPT !.out = s.out \o arm.n]
         IN  IF arm.n[1][3] = <<>> THEN t ELSE CondLoop(t)

SignalAssignment(s, label, target) ==
    LET wf == Run(<<DelayMechanism, Waveform>>, [Advance(s) EXCEPT !.out = <<>>])
        arms == CondLoop(Run(Conditional, [wf EXCEPT !.out = <<>>]))
        first == <<"condWaveform", wf.out[2], arms.out[1]>>
        done == [Expect(IF At(wf, {"when"}) THEN arms ELSE wf, ";") EXCEPT !.out = s.out]
    IN  Node(done, <<"concurrent", label, target, wf.out[1]>> \o
                   IF At(wf, {"when"}) THEN << <<>>, <<first>> \o Tail(arms.out) >>
                   ELSE <<wf.out[2], <<>> >>)

Labelled(s) == At(s, {"IDENT"}) /\ PeekKind(s) = ":"
LabelOf(s) == IF Labelled(s) THEN Lit(Cur(s)) ELSE <<>>
AfterLabel(s) == IF Labelled(s) THEN Advance(Advance(s)) ELSE s

ConcurrentStmt(s0) ==
    LET label == LabelOf(s0)
        s == AfterLabel(s0)
        Stmt(kind, prod) == Make(kind, <<label>>, prod, s)
        target == Parse("name", s)
    IN  CASE At(s, {"block", "generate"}) -> Nil(Error(s))
          [] At(s, {"with"}) -> Stmt("selected", SelectedAssign)
          [] At(s, {"assert"}) -> Stmt("assert", AssertStmt)
          [] At(s, {"postponed", "process"}) -> Stmt("process", Process)
          [] At(s, {"for", "if"}) -> Stmt("generate", Generate)
          [] At(s, {"entity"}) ->
               Stmt("instantiation", <<Text("word"), Text("dotted"), ArchSpec>> \o FinishInstantiation)
          [] At(s, {"component", "configuration"}) ->
               Stmt("instantiation",
                    <<Text("word"), Text("dotted"), Val(<<>>)>> \o FinishInstantiation)
          [] OTHER ->
               CASE At(target, {"<="}) -> SignalAssignment(target, label, target.n)
                 [] At(target, {";"}) /\ target.n[1][1] = "call" ->
                      ProcCall(Advance(target), label, target.n[1])
                 [] ~(At(target, {";"}) /\ target.n[1][1] = "call") /\
                    ~At(target, {"<="}) /\ label # <<>> /\ target.n[1][1] = "ident" ->
                      Make("instantiation", <<label, <<>>, target.n[1][2], <<>> >>,
                           FinishInstantiation, target)
                 [] OTHER -> Nil(Error(target))

SequentialStmt(s0) ==
    LET label == LabelOf(s0)
        s == AfterLabel(s0)
        Stmt(kind, prod) == Make(kind, <<label>>, prod, s)
        target == Parse("name", s)
        kind == target.n[1][1]
    IN  CASE At(s, {"null"}) -> Stmt("null", Null)
          [] At(s, {"if"}) -> Stmt("if", If)
          [] At(s, {"case"}) -> Stmt("case", Case)
          [] At(s, {"for", "while", "loop"}) -> Stmt("loop", Loop)
          [] At(s, {"next"}) -> Stmt("next", NextExit("next"))
          [] At(s, {"exit"}) -> Stmt("exit", NextExit("exit"))
          [] At(s, {"return"}) -> Stmt("return", Return)
          [] At(s, {"wait"}) -> Stmt("wait", Wait)
          [] At(s, {"assert"}) -> Stmt("assert", AssertStmt)
          [] At(s, {"report"}) -> Stmt("report", Report)
          [] OTHER ->
               CASE At(target, {"<="}) ->
                      Make("signalAssign", <<label, target.n>>,
                           <<T("<="), DelayMechanism, Waveform, T(";")>>, target)
                 [] At(target, {":="}) ->
                      Make("variableAssign", <<label, target.n>>,
                           <<T(":="), R("expr"), T(";")>>, target)
                 [] kind = "call" /\ ~At(target, {"<=", ":="}) ->
                      ProcCall(Expect(target, ";"), label, target.n[1])
                 [] kind = "ident" /\ At(target, {";"}) ->
                      ProcCall(Advance(target), label, target.n[1])
                 [] OTHER -> Nil(Error(target))

(* -- Declarations, configuration items, files ------------------------------- *)

Subprogram(s) ==
    LET spec == Run(SubprogramSpec, Fresh(s))
    IN  IF At(spec, {"is"})
        THEN [Make("subprogramBody", spec.out, SubprogramBody, spec) EXCEPT !.out = s.out]
        ELSE [Make("subprogram", spec.out, <<T(";")>>, spec) EXCEPT !.out = s.out]

(* attribute and group: the token after the name tells the two forms apart. *)
NamedForm(s, word, mark, this, thisProd, other, otherProd) ==
    LET head == Run(<<T(word), Text("ident")>>, Fresh(s))
    IN  [(IF At(head, {mark}) THEN Make(this, head.out, thisProd, head)
          ELSE Make(other, head.out, otherProd, head)) EXCEPT !.out = s.out]

Declaration(s) ==
    LET k == Kw(Cur(s))
        Own(kind) == Make(kind, <<>>, Rules[kind], s)
    IN  CASE k \in {"constant", "signal"} -> Make(k, <<>>, ConstantOrSignal, Advance(s))
          [] k \in {"variable", "shared"} -> Own("variable")
          [] k \in {"subtype", "type", "component", "alias", "file"} -> Own(k)
          [] k \in {"function", "procedure", "pure", "impure"} -> Subprogram(s)
          [] k = "attribute" -> NamedForm(s, k, "of", "attributeSpec", AttributeSpec,
                                          "attribute", AttributeDecl)
          [] k = "group" -> NamedForm(s, k, "is", "groupTemplate", GroupTemplate,
                                      "group", GroupDecl)
          [] k = "use" -> Own("useClause")
          [] k = "for" -> Own("configSpec")
          [] OTHER -> Nil(Advance(Error(s)))

(* A block configuration or, with a colon, a component configuration. *)
ConfigurationOf(s, head) ==
    [(IF At(head, {":"}) THEN Make("compConfig", <<head.out>>, ComponentConfig, head)
      ELSE Make("blockConfig", <<head.out[1]>>, BlockConfig, head)) EXCEPT !.out = s.out]
ConfigItem(s) == ConfigurationOf(s, TextsLoop("specName", Fresh(Expect(s, "for"))))

(* A configuration item that counts if it is a block. *)
Block(s) ==
    IF ~At(s, {"for"}) THEN Nil(s)
    ELSE LET t == Parse("configItem", s)
         IN  [t EXCEPT !.n = SelectSeq(@, LAMBDA n : n[1] = "blockConfig")]

(* The text of an array type is kept as it stands, up to the semicolon. *)
ArrayDef(s) ==
    LET end == Step(<<"skipTo">>, s)
        spelled == [j \in 1..(end.i - s.i) |-> <<" ">> \o s.ts[s.i + j - 1][2]]
    IN  Node(end, <<"array", Tail(Concat(spelled))>>)

(* The constraint of the designated subtype is read and dropped. *)
AccessDef(s) ==
    LET t == Step(Subtype, Fresh(Expect(s, "access")))
    IN  Node([t EXCEPT !.out = s.out], <<"access", t.out[1]>>)

Parse(r, s) ==
    CASE r = "expr" -> Expression(s)
      [] r = "discreteRange" -> DiscreteRange(s)
      [] r = "primary" -> Primary(s)
      [] r = "paren" -> ParenOrAggregate(s)
      [] r = "element" -> ElementAssoc(s)
      [] r = "assoc" -> AssocElement(s)
      [] r = "name" -> Name(s)
      [] r = "cstmt" -> ConcurrentStmt(s)
      [] r = "sstmt" -> SequentialStmt(s)
      [] r = "decl" -> Declaration(s)
      [] r = "configItem" -> ConfigItem(s)
      [] r = "block" -> Block(s)
      [] r = "array" -> ArrayDef(s)
      [] r = "access" -> AccessDef(s)
      [] r = "transport" -> Make("delay", <<>>, Transport, s)
      [] r = "reject" -> Make("delay", <<>>, Reject, s)
      [] r = "inertial" -> Make("delay", <<>>, Inertial, s)
      [] OTHER -> Make(r, <<>>, Rules[r], s)

(* A file: context clauses and units in any order; anything else ends it with  *)
(* an error.                                                                   *)
RECURSIVE FileLoop(_, _, _)
AddPart(k, t, context, units) ==
    IF k \in {"library", "use"} THEN FileLoop(t, context \o t.n, units)
    ELSE FileLoop(t, context, units \o t.n)
FileLoop(s, context, units) ==
    LET k == Kw(Cur(s))
        unit == IF k = "package" /\ PeekKind(s) = "body" THEN "packageBody" ELSE k
        kind == CASE k = "library" -> "libraryClause" [] k = "use" -> "useClause" [] OTHER -> unit
    IN  CASE k = "EOF" -> Node(s, <<"designFile", context, units>>)
          [] k \in {"library", "use", "package", "entity", "architecture", "configuration"} ->
               AddPart(k, Make(kind, <<>>, Rules[kind], s), context, units)
          [] OTHER -> Node(Error(s), <<"designFile", context, units>>)

(* ParseFile: the tree and the number of diagnostics. *)
Result(s) == [tree |-> s.n[1], errs |-> s.errs]
ParseFile(src) == Result(FileLoop(Start(Lex(src)), <<>>, <<>>))
=============================================================================

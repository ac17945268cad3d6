----------------------------- MODULE VhdlPrinter -----------------------------
(* The printer of tools/socgen/vhdl: a tree to its text, a sequence of          *)
(* fragments.  Indentation is left out, blanks and line ends that separate      *)
(* tokens or end a comment are kept.                                           *)
EXTENDS VhdlAst

Sp == <<" ">>
Nl == <<"\n">>
W(word) == <<word, " ">>                       \* a word and the blank after it

(* Texts with a separator between them. *)
Between(seqs, sep) ==
    Concat([i \in DOMAIN seqs |-> IF i = 1 THEN seqs[i] ELSE sep \o seqs[i]])
Comma == <<",", " ">>
If_(f, before, text) == IF f = <<>> THEN <<>> ELSE before \o text

RECURSIVE PrintExpr(_), PrintStmt(_), PrintDecl(_), PrintBlock(_)

Exprs(ns, sep) == Between([i \in DOMAIN ns |-> PrintExpr(ns[i])], sep)
(* An optional expression behind its keyword. *)
OptExpr(ns, word) == IF ns = <<>> THEN <<>> ELSE <<" ">> \o W(word) \o PrintExpr(ns[1])

(* -- Expressions: no parenthesis is added, none is dropped ------------------- *)

PrintElementAssoc(e) ==
    Exprs(e[2], <<" ", "|", " ">>) \o (IF e[2] = <<>> THEN <<>> ELSE <<" ", "=", ">", " ">>) \o
    PrintExpr(e[3][1])
PrintAssoc(e) ==
    (IF e[2] = <<>> THEN <<>> ELSE e[2] \o <<" ", "=", ">", " ">>) \o PrintExpr(e[3][1])
PrintAssocList(es) == Between([i \in DOMAIN es |-> PrintAssoc(es[i])], Comma)

PrintExpr(e) ==
    CASE e[1] = "physical" -> e[2] \o Sp \o e[3]
      [] e[1] = "lit" -> e[3]
      [] e[1] = "ident" -> e[2]
      [] e[1] = "range" -> PrintExpr(e[2][1]) \o Sp \o e[3] \o Sp \o PrintExpr(e[4][1])
      [] e[1] = "binary" -> PrintExpr(e[2][1]) \o Sp \o e[3] \o Sp \o PrintExpr(e[4][1])
      [] e[1] = "unary" -> e[2] \o Sp \o PrintExpr(e[3][1])
      [] e[1] = "call" -> PrintExpr(e[2][1]) \o <<"(">> \o PrintAssocList(e[3]) \o <<")">>
      [] e[1] = "selector" -> PrintExpr(e[2][1]) \o <<".">> \o e[3]
      [] e[1] = "attrName" -> PrintExpr(e[2][1]) \o <<"'">> \o e[3]
      [] e[1] = "paren" -> <<"(">> \o PrintExpr(e[2][1]) \o <<")">>
      [] e[1] = "aggregate" ->
           <<"(">> \o Between([i \in DOMAIN e[2] |-> PrintElementAssoc(e[2][i])], Comma) \o <<")">>
      [] e[1] = "qualified" -> PrintExpr(e[2][1]) \o <<"'">> \o PrintExpr(e[3][1])
      [] e[1] = "rangeConstraint" ->
           PrintExpr(e[2][1]) \o <<" ", "range", " ">> \o PrintExpr(e[3][1])
      [] e[1] = "allocator" -> W("new") \o PrintExpr(e[2][1])

(* Mutant: every constraint in front of which no parenthesis stands is bare. *)
PrintSubtypeIndicationBare(mark, constraint) ==
    mark \o IF constraint = <<>> THEN <<>> ELSE <<" ">> \o PrintExpr(constraint[1])

(* A constraint in parentheses brings its own, any other is a range. *)
PrintSubtypeIndication(mark, constraint) ==
    mark \o IF constraint = <<>> THEN <<>>
            ELSE IF constraint[1][1] \in {"paren", "aggregate"} THEN PrintExpr(constraint[1])
            ELSE <<" ", "range", " ">> \o PrintExpr(constraint[1])

(* -- Statements --------------------------------------------------------------- *)

Label(s) == IF s[2] = <<>> THEN <<>> ELSE s[2] \o <<" ", ":", " ">>
Lines(ns, P(_)) == Concat([i \in DOMAIN ns |-> P(ns[i]) \o Nl])
Semi == <<";">>
Arrow == <<" ", "<", "=", " ">>

PrintDelay(ds) ==
    IF ds = <<>> THEN <<>>
    ELSE IF ds[1][2] THEN W("transport")
    ELSE IF ds[1][3] # <<>> THEN W("reject") \o PrintExpr(ds[1][3][1]) \o <<" ", "inertial", " ">>
    ELSE W("inertial")
PrintWaveform(wf) ==
    Between([i \in DOMAIN wf |-> PrintExpr(wf[i][2][1]) \o OptExpr(wf[i][3], "after")], Comma)
PrintInstMap(word, es) ==
    IF es = <<>> THEN <<>>
    ELSE Nl \o W(word) \o <<"map", " ", "(", "\n">> \o
         Between([i \in DOMAIN es |-> PrintAssoc(es[i])], <<",", "\n">>) \o <<"\n", ")">>
Unit(kind, unit, arch) ==
    If_(kind, kind, Sp) \o unit \o (IF arch = <<>> THEN <<>> ELSE <<"(">> \o arch \o <<")">>)

PrintConcurrentAssign(s) ==
    PrintExpr(s[3][1]) \o Arrow \o PrintDelay(s[4]) \o
    (IF s[5] # <<>> THEN PrintWaveform(s[5])
     ELSE Between([i \in DOMAIN s[6] |-> PrintWaveform(s[6][i][2]) \o OptExpr(s[6][i][3], "when")],
                  <<" ", "else", " ">>)) \o Semi
PrintInstantiation(s) ==
    Unit(s[3], s[4], s[5]) \o PrintInstMap("generic", s[6]) \o PrintInstMap("port", s[7]) \o Semi
PrintGenerate(s) ==
    (IF s[3] = <<"for">> THEN W("for") \o s[4] \o <<" ", "in", " ">> \o PrintExpr(s[5][1])
     ELSE W("if") \o PrintExpr(s[6][1])) \o <<" ", "generate", "\n">> \o
    Lines(s[7], PrintDecl) \o (IF s[7] = <<>> THEN <<>> ELSE <<"begin", "\n">>) \o
    Lines(s[8], PrintStmt) \o <<"end", " ", "generate", ";">>
PrintProcess(s) ==
    (IF s[3] THEN W("postponed") ELSE <<>>) \o <<"process">> \o
    (IF s[4] = <<>> THEN <<>> ELSE <<" ", "(">> \o Exprs(s[4], Comma) \o <<")">>) \o Nl \o
    Lines(s[5], PrintDecl) \o <<"begin", "\n">> \o Lines(s[6], PrintStmt) \o
    <<"end", " ", "process", ";">>
PrintIf(s) ==
    W("if") \o PrintExpr(s[3][1]) \o <<" ", "then", "\n">> \o Lines(s[4], PrintStmt) \o
    Concat([i \in DOMAIN s[5] |-> W("elsif") \o PrintExpr(s[5][i][2][1]) \o <<" ", "then", "\n">> \o
                                Lines(s[5][i][3], PrintStmt)]) \o
    (IF s[6] = <<>> THEN <<>> ELSE <<"else", "\n">> \o Lines(s[6], PrintStmt)) \o
    <<"end", " ", "if", ";">>
PrintCase(s) ==
    W("case") \o PrintExpr(s[3][1]) \o <<" ", "is", "\n">> \o
    Concat([i \in DOMAIN s[4] |->
        W("when") \o Exprs(s[4][i][2], <<" ", "|", " ">>) \o <<" ", "=", ">", "\n">> \o
        Lines(s[4][i][3], PrintStmt)]) \o <<"end", " ", "case", ";">>
PrintLoop(s) ==
    (CASE s[3] = <<"for">> ->
            W("for") \o s[4] \o <<" ", "in", " ">> \o PrintExpr(s[5][1]) \o Sp
       [] s[3] = <<"while">> -> W("while") \o PrintExpr(s[6][1]) \o Sp
       [] OTHER -> <<>>) \o
    <<"loop", "\n">> \o Lines(s[7], PrintStmt) \o <<"end", " ", "loop", ";">>
PrintNextExit(s, word) ==
    <<word>> \o If_(s[3], Sp, s[3]) \o OptExpr(s[4], "when") \o Semi
PrintWait(s) ==
    <<"wait">> \o (IF s[3] = <<>> THEN <<>> ELSE <<" ", "on", " ">> \o Exprs(s[3], Comma)) \o
    OptExpr(s[4], "until") \o OptExpr(s[5], "for") \o Semi
PrintSelected(s) ==
    W("with") \o PrintExpr(s[3][1]) \o <<" ", "select", " ">> \o PrintExpr(s[4][1]) \o Arrow \o
    PrintDelay(s[5]) \o
    Between([i \in DOMAIN s[6] |-> PrintWaveform(s[6][i][2]) \o <<" ", "when", " ">> \o
                                   Exprs(s[6][i][3], <<" ", "|", " ">>)], Comma) \o Semi

PrintStmt(s) ==
    IF s[1] = "comment" THEN <<"-", "-", " ">> \o s[2]
    ELSE Label(s) \o
      CASE s[1] = "concurrent" -> PrintConcurrentAssign(s)
        [] s[1] = "instantiation" -> PrintInstantiation(s)
        [] s[1] = "generate" -> PrintGenerate(s)
        [] s[1] = "process" -> PrintProcess(s)
        [] s[1] = "signalAssign" ->
             PrintExpr(s[3][1]) \o Arrow \o PrintDelay(s[4]) \o PrintWaveform(s[5]) \o Semi
        [] s[1] = "variableAssign" ->
             PrintExpr(s[3][1]) \o <<" ", ":", "=", " ">> \o PrintExpr(s[4][1]) \o Semi
        [] s[1] = "null" -> <<"null", ";">>
        [] s[1] = "if" -> PrintIf(s)
        [] s[1] = "case" -> PrintCase(s)
        [] s[1] = "loop" -> PrintLoop(s)
        [] s[1] \in {"next", "exit"} -> PrintNextExit(s, s[1])
        [] s[1] = "return" ->
             <<"return">> \o (IF s[3] = <<>> THEN <<>> ELSE Sp \o PrintExpr(s[3][1])) \o Semi
        [] s[1] = "assert" ->
             W("assert") \o PrintExpr(s[3][1]) \o OptExpr(s[4], "report") \o
             OptExpr(s[5], "severity") \o Semi
        [] s[1] = "report" ->
             W("report") \o PrintExpr(s[3][1]) \o OptExpr(s[4], "severity") \o Semi
        [] s[1] = "wait" -> PrintWait(s)
        [] s[1] = "procCall" ->
             s[3] \o (IF s[4] = <<>> THEN <<>> ELSE <<"(">> \o PrintAssocList(s[4]) \o <<")">>) \o Semi
        [] s[1] = "selected" -> PrintSelected(s)

(* -- Declarations --------------------------------------------------------------- *)

Names(ts) == Between(ts, Comma)
Colon == <<" ", ":", " ">>
Is == <<" ", "is", " ">>
PrintDefault(def) == IF def = <<>> THEN <<>> ELSE <<" ", ":", "=", " ">> \o PrintExpr(def[1])
PrintObject(names, mark, constraint, def) ==
    Names(names) \o Colon \o PrintSubtypeIndication(mark, constraint) \o PrintDefault(def) \o Semi

PrintInterfaceDecl(d) ==
    If_(d[2], d[2], Sp) \o Names(d[3]) \o Colon \o If_(d[4], d[4], Sp) \o
    PrintSubtypeIndication(d[5], d[6]) \o PrintDefault(d[7])
PrintInterfaces(word, ds) ==
    IF ds = <<>> THEN <<>>
    ELSE W(word) \o <<"(", "\n">> \o
         Between([i \in DOMAIN ds |-> PrintInterfaceDecl(ds[i])], <<";", "\n">>) \o
         <<"\n", ")", ";", "\n">>

PrintBinding(b) ==
    W("use") \o Unit(b[2], b[3], b[4]) \o
    (IF b[5] = <<>> THEN <<>> ELSE <<" ", "generic", " ", "map", " ", "(">> \o
                                   PrintAssocList(b[5]) \o <<")">>) \o
    (IF b[6] = <<>> THEN <<>> ELSE <<" ", "port", " ", "map", " ", "(">> \o
                                   PrintAssocList(b[6]) \o <<")">>)
PrintSignature(s) ==
    <<" ", "[">> \o Names(s[2]) \o
    (IF s[3] = <<>> THEN <<>>
     ELSE (IF s[2] = <<>> THEN <<>> ELSE Sp) \o W("return") \o s[3]) \o <<"]">>
PrintFile(d) ==
    W("file") \o Names(d[2]) \o Colon \o d[3] \o
    (IF d[5] # <<>> THEN OptExpr(d[5], "open") \o Is \o PrintExpr(d[6][1])
     ELSE IF d[6] = <<>> THEN <<>> ELSE Is \o If_(d[4], d[4], Sp) \o PrintExpr(d[6][1])) \o Semi
PrintSubprogramSpec(d) ==
    If_(d[2], d[2], Sp) \o W(IF d[3] THEN "procedure" ELSE "function") \o d[4] \o
    (IF d[5] = <<>> THEN <<>>
     ELSE <<" ", "(">> \o Between([i \in DOMAIN d[5] |-> PrintInterfaceDecl(d[5][i])], <<";", " ">>)
          \o <<")">>) \o
    (IF d[3] THEN <<>> ELSE <<" ", "return", " ">> \o d[6])
PrintTypeDecl(d) ==
    LET def == d[3][1]
    IN  W("type") \o d[2] \o Is \o
        (CASE def[1] = "enum" -> <<"(">> \o Names(def[2]) \o <<")">>
           [] def[1] = "record" ->
                <<"record", "\n">> \o
                Lines(def[2], LAMBDA f : Names(f[2]) \o Colon \o
                                         PrintSubtypeIndication(f[3], f[4]) \o Semi) \o
                <<"end", " ", "record">>
           [] def[1] = "array" -> def[2]
           [] def[1] = "fileType" -> W("file") \o W("of") \o def[2]
           [] def[1] = "access" -> W("access") \o def[2]) \o Semi

PrintDecl(d) ==
    CASE d[1] = "comment" -> <<"-", "-", " ">> \o d[2]
      [] d[1] \in {"constant", "signal"} -> W(d[1]) \o PrintObject(d[2], d[3], d[4], d[5])
      [] d[1] = "variable" -> (IF d[2] THEN W("shared") ELSE <<>>) \o W("variable") \o
                              PrintObject(d[3], d[4], d[5], d[6])
      [] d[1] = "subtype" ->
           W("subtype") \o d[2] \o Is \o PrintSubtypeIndication(d[3], d[4]) \o Semi
      [] d[1] = "type" -> PrintTypeDecl(d)
      [] d[1] = "component" ->
           W("component") \o d[2] \o <<" ", "is", "\n">> \o PrintInterfaces("generic", d[3]) \o
           PrintInterfaces("port", d[4]) \o <<"end", " ", "component", ";">>
      [] d[1] = "attribute" -> W("attribute") \o d[2] \o Colon \o d[3] \o Semi
      [] d[1] = "attributeSpec" ->
           W("attribute") \o d[2] \o <<" ", "of", " ">> \o Names(d[3]) \o Colon \o d[4] \o Is \o
           PrintExpr(d[5][1]) \o Semi
      [] d[1] = "alias" ->
           W("alias") \o d[2] \o
           (IF d[3] = <<>> THEN <<>> ELSE Colon \o PrintSubtypeIndication(d[3], d[4])) \o Is \o
           PrintExpr(d[5][1]) \o (IF d[6] = <<>> THEN <<>> ELSE PrintSignature(d[6][1])) \o Semi
      [] d[1] = "groupTemplate" ->
           W("group") \o d[2] \o Is \o <<"(">> \o Names(d[3]) \o <<")", ";">>
      [] d[1] = "group" ->
           W("group") \o d[2] \o Colon \o d[3] \o <<"(">> \o Names(d[4]) \o <<")", ";">>
      [] d[1] = "configSpec" ->
           W("for") \o Names(d[2]) \o Colon \o d[3] \o Sp \o PrintBinding(d[4][1]) \o Semi
      [] d[1] = "file" -> PrintFile(d)
      [] d[1] = "useClause" -> W("use") \o Names(d[2]) \o Semi
      [] d[1] = "subprogram" -> PrintSubprogramSpec(d) \o Semi
      [] d[1] = "subprogramBody" ->
           PrintSubprogramSpec(d) \o <<" ", "is", "\n">> \o Lines(d[7], PrintDecl) \o
           <<"begin", "\n">> \o Lines(d[8], PrintStmt) \o <<"end">> \o
           (IF d[3] THEN <<" ", "procedure">> ELSE <<>>) \o Semi

(* -- Units ------------------------------------------------------------------------ *)

Uses(us) == Lines(us, PrintDecl)
PrintComponentConfig(c) ==
    W("for") \o Names(c[2]) \o Colon \o c[3] \o Nl \o
    (IF c[4] = <<>> THEN <<>> ELSE PrintBinding(c[4][1]) \o <<";", "\n">>) \o
    (IF c[5] = <<>> THEN <<>> ELSE PrintBlock(c[5][1])) \o <<"end", " ", "for", ";", "\n">>
PrintBlock(b) ==
    W("for") \o b[2] \o Nl \o Uses(b[3]) \o
    Concat([i \in DOMAIN b[4] |-> IF b[4][i][1] = "blockConfig" THEN PrintBlock(b[4][i])
                                ELSE PrintComponentConfig(b[4][i])]) \o
    <<"end", " ", "for", ";", "\n">>

PrintUnit(u) ==
    CASE u[1] = "package" ->
           W("package") \o u[2] \o <<" ", "is", "\n">> \o Lines(u[3], PrintDecl) \o
           <<"end", " ", "package", ";", "\n">>
      [] u[1] = "packageBody" ->
           W("package") \o W("body") \o u[2] \o <<" ", "is", "\n">> \o Lines(u[3], PrintDecl) \o
           <<"end", " ", "package", " ", "body", ";", "\n">>
      [] u[1] = "entity" ->
           W("entity") \o u[2] \o <<" ", "is", "\n">> \o PrintInterfaces("generic", u[3]) \o
           PrintInterfaces("port", u[4]) \o Lines(u[5], PrintDecl) \o
           (IF u[6] = <<>> THEN <<>> ELSE <<"begin", "\n">> \o Lines(u[6], PrintStmt)) \o
           <<"end", ";", "\n">>
      [] u[1] = "architecture" ->
           W("architecture") \o u[2] \o <<" ", "of", " ">> \o u[3] \o <<" ", "is", "\n">> \o
           Lines(u[4], PrintDecl) \o <<"begin", "\n">> \o Lines(u[5], PrintStmt) \o
           <<"end", ";", "\n">>
      [] u[1] = "configuration" ->
           W("configuration") \o u[2] \o <<" ", "of", " ">> \o u[3] \o <<" ", "is", "\n">> \o
           Uses(u[4]) \o (IF u[5] = <<>> THEN <<>> ELSE PrintBlock(u[5][1])) \o
           <<"end", " ", "configuration", ";", "\n">>

PrintContext(c) ==
    W(IF c[1] = "libraryClause" THEN "library" ELSE "use") \o Names(c[2]) \o <<";", "\n">>

PrintDesign(file) == Concat([i \in DOMAIN file[2] |-> PrintContext(file[2][i])]) \o
               Concat([i \in DOMAIN file[3] |-> PrintUnit(file[3][i])])
=============================================================================

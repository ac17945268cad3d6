----------------------------- MODULE VhdlFrontEnd -----------------------------
(* The VHDL front end of socgen as one pipeline: a generator builds a tree and  *)
(* the printer makes a file of it, or somebody writes a file by hand; somebody  *)
(* edits one fragment of the file, the parser reads it, and what was read is    *)
(* printed and read again, which is how the repository checks the front end on  *)
(* its corpus.                                                                 *)
EXTENDS VhdlParser, VhdlWalk

CONSTANTS Trees,          \* the trees generators build
          Written,        \* files by hand: records of a text and the tree it should give
          Fragments       \* fragments an edit puts in

VARIABLES tree,           \* the tree that was built
          text,           \* the file
          edited,         \* whether the file was edited by hand
          file,           \* what ParseFile returned, before anything: no tree
          again,          \* the same for the second reading
          phase
vars == <<tree, text, edited, file, again, phase>>

Unread == [tree |-> <<"designFile", <<>>, <<>>>>, errs |-> 0]

Init == /\ \/ tree \in Trees /\ text = <<>> /\ phase = "built"
           \/ \E w \in Written : tree = w.tree /\ text = w.text /\ phase = "printed"
        /\ edited = FALSE
        /\ file = Unread /\ again = Unread

PrintTree == /\ phase = "built"
             /\ text' = PrintDesign(tree)
             /\ phase' = "printed"
             /\ UNCHANGED <<tree, edited, file, again>>

Blank == {" ", "\n"}
DropFragment == /\ phase = "printed" /\ ~edited
                /\ \E i \in DOMAIN text : /\ text[i] \notin Blank
                                          /\ text' = RemoveAt(text, i)
                /\ edited' = TRUE
                /\ UNCHANGED <<tree, file, again, phase>>

(* The text with f, between blanks, before its fragment i. *)
PutIn(src, i, f) == SubSeq(src, 1, i - 1) \o <<" ", f, " ">> \o SubSeq(src, i, Len(src))

DoubleFragment == /\ phase = "printed" /\ ~edited
                  /\ \E i \in DOMAIN text :
                        /\ text[i] \notin Blank
                        /\ text' = PutIn(text, i, text[i])
                  /\ edited' = TRUE
                  /\ UNCHANGED <<tree, file, again, phase>>

InsertFragment == /\ phase = "printed" /\ ~edited
                  /\ \E i \in DOMAIN text, f \in Fragments :
                        /\ text[i] \notin Blank
                        /\ text' = PutIn(text, i, f)
                  /\ edited' = TRUE
                  /\ UNCHANGED <<tree, file, again, phase>>

ReplaceFragment == /\ phase = "printed" /\ ~edited
                   /\ \E i \in DOMAIN text, f \in Fragments :
                         /\ text[i] \notin Blank
                         /\ text' = SubSeq(text, 1, i - 1) \o <<f>> \o SubSeq(text, i + 1, Len(text))
                   /\ edited' = TRUE
                   /\ UNCHANGED <<tree, file, again, phase>>

ParseText == /\ phase = "printed"
             /\ file' = ParseFile(text)
             /\ phase' = "parsed"
             /\ UNCHANGED <<tree, text, edited, again>>

(* Only a file without diagnostics is used any further. *)
Reread == /\ phase = "parsed" /\ file.errs = 0
          /\ again' = ParseFile(PrintDesign(file.tree))
          /\ phase' = "reread"
          /\ UNCHANGED <<tree, text, edited, file>>

Next == \/ PrintTree
        \/ DropFragment \/ DoubleFragment \/ InsertFragment \/ ReplaceFragment
        \/ ParseText \/ Reread
Spec == Init /\ [][Next]_vars

-----------------------------------------------------------------------------
(* Forms the parser makes of odd input that do not print as what they were: a   *)
(* call with empty parentheses prints without them, a name that was punctuation *)
(* prints as nothing, a name with a doubled point is a selection that prints as *)
(* a dotted name, a literal for an entity class prints as a word.              *)
Degenerate(n) ==
    \E k \in DOMAIN Walk(n) :
        LET node == Walk(n)[k]
        IN  \/ node[1] = "procCall" /\ (node[4] = <<>> \/ node[3] = <<>>)
            \/ node[1] = "instantiation" /\ node[4] = <<>>
            \/ node[1] = "ident" /\ node[2] = <<>>
            \/ node[1] \in {"selector", "attrName"} /\ node[2][1][1] = "ident"
            \/ node[1] = "groupTemplate" /\ \E c \in ToSet(node[3]) : c[1] \in NamedKinds \ {"IDENT"}

(* What the parser reads and keeps nowhere.  Here i is a position in the tokens *)
(* ts: the name after the end of a construct, a part of the constraint of an     *)
(* access type, an entity class that is no keyword, a label of a block          *)
(* configuration after the first.                                              *)
Closers == {"package", "body", "configuration", "entity", "architecture", "generate", "postponed",
            "process", "loop", "case", "if", "function", "procedure", "record", "component"}
From(ts, i, j, ks) == \A k \in i..j : ts[k][1] \in ks
Without(ts, i, j, ks) == \A k \in i..j : ts[k][1] \notin ks
ClosingName(ts, i) ==
    \E j \in 1..(i - 1) : ts[j][1] = "end" /\ From(ts, j + 1, i - 1, Closers)
AccessConstraint(ts, i) ==
    \E j \in 1..(i - 1) : \E k \in (j + 2)..i :
        /\ ts[j][1] = "access" /\ Without(ts, j, i, {";"})
        /\ ts[k][1] = "(" \/ (ts[k][1] = "range" /\ ts[k - 1][1] # ".")
EntityClass(ts, i) ==
    \E j \in 1..(i - 4) : /\ ts[j][1] = "group" /\ ts[j + 2][1] = "is"
                          /\ \A k \in (j + 4)..(i - 1) : ts[k][1] # ")" \/ ts[k + 1][1] # ";"
SecondLabel(ts, i) ==
    \E j \in 1..(i - 2) : \E k \in (i + 1)..Len(ts) :
        /\ ts[j][1] = "for" /\ From(ts, j + 1, k - 1, {"IDENT", "all", "others", ","})
        /\ ts[k][1] \in {"for", "use", "end"}
Forgotten(ts, i) ==
    ClosingName(ts, i) \/ AccessConstraint(ts, i) \/ EntityClass(ts, i) \/ SecondLabel(ts, i)

(* A component configuration where a block configuration is due is read and     *)
(* dropped, and with it all it holds.                                          *)
Heads(src) == LET ts == Lex(src)
              IN  {i \in 1..(Len(ts) - 2) : ts[i][1] = "for" /\ ts[i + 2][1] \in {",", ":"}}
Misplaced(n, src) ==
    /\ \E k \in DOMAIN Walk(n) : \/ Walk(n)[k][1] = "configuration" /\ Walk(n)[k][5] = <<>>
                                 \/ Walk(n)[k][1] = "compConfig" /\ Walk(n)[k][5] = <<>>
    /\ Cardinality(Heads(src)) > Cardinality(Heads(PrintDesign(n)))

(* What a text says: its names and literals in order, the forgotten ones aside. *)
Spoken == {"IDENT", "EXTIDENT", "INT", "REAL", "BASEDLIT", "CHARLIT", "STRINGLIT", "BITSTRINGLIT"}
Kept(ts) == SelectSeq([i \in DOMAIN ts |-> i],
                      LAMBDA i : ts[i][1] \in Spoken /\ ~Forgotten(ts, i))
Spelled(ts) == [k \in DOMAIN Kept(ts) |-> ts[Kept(ts)[k]][2]]
Said(src) == Spelled(Lex(src))

(* The printed form of a built tree, and a file by hand, is read without a      *)
(* diagnostic and as the same tree, comments aside (printer.go against          *)
(* parser.go, as roundtrip_test.go compares them).                             *)
ReadsBack == phase = "parsed" /\ ~edited => /\ file.errs = 0
                                            /\ file.tree = Strip(tree)

(* Whatever the parser accepts, edited files included, prints as a text it      *)
(* accepts again and reads as the same tree, the degenerate forms excepted.     *)
RoundTrip == phase = "reread" /\ ~Degenerate(file.tree) => /\ again.errs = 0
                                                           /\ again.tree = file.tree

(* An accepted file is understood: every name and literal of it, the Forgotten  *)
(* ones and what is Misplaced aside, is in the printed form of the tree, in the *)
(* same order.  A parse function that consumes a token and forgets it loses     *)
(* part of a design silently.                                                  *)
NothingLost ==
    phase = "parsed" /\ file.errs = 0 /\ ~Degenerate(file.tree) /\ ~Misplaced(file.tree, text) =>
        Said(PrintDesign(file.tree)) = Said(text)

(* Walk reaches every node of a tree exactly once, parents first and in the     *)
(* order in which the text has them: the structural count agrees, and the names *)
(* and literals it meets are found in the text from left to right.              *)
RECURSIVE Size(_), Within(_, _)
Size(n) == (IF n[1] \in Parts THEN 0 ELSE 1) +
           FoldSeq(LAMBDA f, acc : acc + FoldSeq(LAMBDA c, a : a + Size(c), 0, Field(n, f)), 0,
                   SetToSeq(NodeFields(n)))
Within(xs, ys) == IF xs = <<>> THEN TRUE
                  ELSE IF ys = <<>> THEN FALSE
                  ELSE IF Head(xs) = Head(ys) THEN Within(Tail(xs), Tail(ys))
                  ELSE Within(xs, Tail(ys))
Leaves(n) == LET atoms == SelectSeq(Walk(n), LAMBDA c : c[1] \in {"ident", "lit"})
                 spelled(c) == IF c[1] = "ident" THEN c[2] ELSE c[3]
             IN  Concat([i \in DOMAIN atoms |-> spelled(atoms[i])])
WalkInSourceOrder ==
    phase = "parsed" /\ file.errs = 0 =>
        /\ Len(Walk(file.tree)) = Size(file.tree)
        /\ Within(Leaves(file.tree), text)
=============================================================================

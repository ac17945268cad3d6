------------------------------ MODULE VhdlLexer ------------------------------
(* The scanner of tools/socgen/vhdl.  A text is a sequence of fragments: a     *)
(* word, a number, one character of punctuation, a blank or a line end.  Two   *)
(* words or numbers with nothing between them scan as one name, two characters *)
(* of punctuation as the longest delimiter they begin.  A token is a pair of   *)
(* its kind and its spelling; the kind of a keyword or delimiter is its text.  *)
EXTENDS Integers, Sequences

CONSTANTS Words,        \* fragments made of letters that are no keyword
          Numbers       \* fragments made of digits

Keywords ==
    {"abs", "access", "after", "alias", "all", "and", "architecture", "array", "assert",
     "attribute", "begin", "block", "body", "buffer", "bus", "case", "component",
     "configuration", "constant", "disconnect", "downto", "else", "elsif", "end", "entity",
     "exit", "file", "for", "function", "generate", "generic", "group", "guarded", "if",
     "impure", "in", "inertial", "inout", "is", "label", "library", "linkage", "literal",
     "loop", "map", "mod", "nand", "new", "next", "nor", "not", "null", "of", "on", "open",
     "or", "others", "out", "package", "port", "postponed", "procedure", "process", "pure",
     "range", "record", "register", "reject", "rem", "report", "return", "rol", "ror",
     "select", "severity", "shared", "signal", "sla", "sll", "sra", "srl", "subtype", "then",
     "to", "transport", "type", "unaffected", "units", "until", "use", "variable", "wait",
     "when", "while", "with", "xnor", "xor"}

(* Delimiters of two characters, longest match first. *)
Doubles == {<<":", "=">>, <<"=", ">">>, <<">", "=">>, <<"<", "=">>, <<"<", ">">>,
            <<"/", "=">>, <<"*", "*">>}
Singles == {"(", ")", "[", "]", ",", ";", "+", "-", "&", "|", ".", "'", ":",
            "=", ">", "<", "/", "*"}
Delimiter(two) ==
    CASE two = <<":", "=">> -> ":=" [] two = <<"=", ">">> -> "=>"
      [] two = <<">", "=">> -> ">=" [] two = <<"<", "=">> -> "<="
      [] two = <<"<", ">">> -> "<>" [] two = <<"/", "=">> -> "/="
      [] two = <<"*", "*">> -> "**"

IsLetter(c) == c \in Words \cup Keywords
IsDigit(c) == c \in Numbers
HexDigits == {"a", "b", "c", "d", "e", "f"}
IsIdentCont(c) == IsLetter(c) \/ IsDigit(c)

(* After these a single quote is the tick of an attribute. *)
IsNameEnd(k) == k \in {"IDENT", "EXTIDENT", ")", "'"}

Peek(src, i) == IF i <= Len(src) THEN src[i] ELSE "NUL"

(* The first position from i on that is not in a run of P, capped at the end. *)
RunEnd(src, i, P(_)) ==
    CHOOSE j \in i..(Len(src) + 1) :
        /\ \A k \in i..(j - 1) : P(src[k])
        /\ j = Len(src) + 1 \/ ~P(src[j])

(* The position after the quote q that closes what opened before i; a doubled  *)
(* quote stands for itself.                                                    *)
RECURSIVE CloseQuote(_, _, _)
CloseQuote(src, i, q) ==
    IF i > Len(src) THEN i
    ELSE IF src[i] # q THEN CloseQuote(src, i + 1, q)
    ELSE IF Peek(src, i + 1) = q THEN CloseQuote(src, i + 2, q)
    ELSE i + 1

(* A word: a bit string if it is one base letter before a quote, a keyword, a  *)
(* name.                                                                       *)
ScanWord(src, i) ==
    LET j == RunEnd(src, i, IsIdentCont)
        lit == SubSeq(src, i, j - 1)
    IN  IF Len(lit) = 1 /\ lit[1] \in {"b", "o", "x"} /\ Peek(src, j) = "\""
        THEN LET e == CloseQuote(src, j + 1, "\"")
             IN  [tok |-> <<"BITSTRINGLIT", SubSeq(src, i, e - 1)>>, next |-> e]
        ELSE [tok |-> <<IF Len(lit) = 1 /\ lit[1] \in Keywords THEN lit[1] ELSE "IDENT", lit>>,
              next |-> j]

(* The position after an exponent at j, if there is one. *)
Exponent(src, j) ==
    IF Peek(src, j) # "e" THEN j
    ELSE RunEnd(src, IF Peek(src, j + 1) \in {"+", "-"} THEN j + 2 ELSE j + 1, IsDigit)

(* A number: digits between crosses make it based, a point followed by a digit  *)
(* or an exponent makes it real.                                               *)
ScanNumber(src, i) ==
    LET j == RunEnd(src, i, IsDigit)
        digits == RunEnd(src, j + 1, LAMBDA c : IsDigit(c) \/ c \in HexDigits)
        based == Exponent(src, IF Peek(src, digits) = "#" THEN digits + 1 ELSE digits)
        real == Exponent(src, IF Peek(src, j) = "." /\ IsDigit(Peek(src, j + 1))
                              THEN RunEnd(src, j + 1, IsDigit) ELSE j)
        end == IF Peek(src, j) = "#" THEN based ELSE real
    IN  [tok |-> <<IF Peek(src, j) = "#" THEN "BASEDLIT" ELSE IF real > j THEN "REAL" ELSE "INT",
                   SubSeq(src, i, end - 1)>>, next |-> end]

(* Mutant: the quote always opens a character literal when one closes it. *)
ScanQuoteEager(src, i, prev) ==
    IF Peek(src, i + 2) = "'" /\ src[i + 1] \notin Keywords
    THEN [tok |-> <<"CHARLIT", SubSeq(src, i, i + 2)>>, next |-> i + 3]
    ELSE [tok |-> <<"'", <<"'">>>>, next |-> i + 1]

(* A quote is a tick after the end of a name, else it opens a character literal *)
(* if another quote stands two characters on (keywords are longer).            *)
ScanQuote(src, i, prev) ==
    IF ~IsNameEnd(prev) /\ Peek(src, i + 2) = "'" /\ src[i + 1] \notin Keywords
    THEN [tok |-> <<"CHARLIT", SubSeq(src, i, i + 2)>>, next |-> i + 3]
    ELSE [tok |-> <<"'", <<"'">>>>, next |-> i + 1]

ScanDelimiter(src, i) ==
    LET two == SubSeq(src, i, i + 1)
    IN  IF two \in Doubles
        THEN [tok |-> <<Delimiter(two), two>>, next |-> i + 2]
        ELSE [tok |-> <<IF src[i] \in Singles THEN src[i] ELSE "ILLEGAL", <<src[i]>>>>,
              next |-> i + 1]

(* The token at i, given the kind of the one before. *)
TokenAt(src, i, prev) ==
    LET c == Peek(src, i)
        Quoted(kind) == LET e == CloseQuote(src, i + 1, c)
                        IN  [tok |-> <<kind, SubSeq(src, i, e - 1)>>, next |-> e]
    IN  CASE c = "NUL" -> [tok |-> <<"EOF", <<>>>>, next |-> i]
          [] c = "-" /\ Peek(src, i + 1) = "-" ->
               LET e == RunEnd(src, i, LAMBDA d : d # "\n")
               IN  [tok |-> <<"COMMENT", SubSeq(src, i, e - 1)>>, next |-> e]
          [] c = "\\" -> Quoted("EXTIDENT")
          [] c = "\"" -> Quoted("STRINGLIT")
          [] IsLetter(c) -> ScanWord(src, i)
          [] IsDigit(c) -> ScanNumber(src, i)
          [] c = "'" -> ScanQuote(src, i, prev)
          [] OTHER -> ScanDelimiter(src, i)
NextToken(src, i, prev) == TokenAt(src, RunEnd(src, i, LAMBDA c : c \in {" ", "\n"}), prev)

(* The tokens the parser gets: all but the comments, up to and with EOF.  A     *)
(* comment still counts as the token before a quote.                           *)
RECURSIVE Tokens(_, _, _)
TokensFrom(src, tok, i) ==
    CASE tok[1] = "EOF" -> <<tok>>
      [] tok[1] = "COMMENT" -> Tokens(src, i, tok[1])
      [] OTHER -> <<tok>> \o Tokens(src, i, tok[1])
Rest(src, t) == TokensFrom(src, t.tok, t.next)
Tokens(src, i, prev) == Rest(src, NextToken(src, i, prev))

Lex(src) == Tokens(src, 1, "ILLEGAL")
=============================================================================

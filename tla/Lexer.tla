-------------------------------- MODULE Lexer --------------------------------
(***************************************************************************)
(* The lexer (lexer/mod.rs).  A source is a sequence of lexemes: runs of   *)
(* characters that no reading splits further.  What the characters decide  *)
(* is kept: a slash opens a regular expression in prefix position and      *)
(* divides elsewhere, and a dot written tight between two digits belongs   *)
(* to the number (a padded one, " . ", does not).                          *)
(***************************************************************************)
EXTENDS Integers, SequencesExt, FiniteSetsExt

Comment == "/*c*/"
Digits == {"0", "1", "2", "3", "5"}
\* A name written between backticks.
Quoted == [x \in {"quoted and", "quoted function"} |->
               IF x = "quoted and" THEN "and" ELSE "function"]
Keywords == {"and", "or", "in"}
Constants == {"true", "null"}
Strings == [x \in {"\"s\"", "\"a\"", "\"0\""} |-> CHOOSE s \in {"s", "a", "0"} : x = "\"" \o s \o "\""]
\* A variable is written as a dollar and its name.
Variables == [x \in {"$", "$$", "$v", "$w", "$x", "$y", "$i", "$p", "$index", "$key", "$map",
                     "$filter", "$reduce", "$sort", "$single", "$sift", "$each", "$string",
                     "$lowercase", "$uppercase", "$substring", "$count", "$sum", "$keys",
                     "$contains", "$round", "$formatBase", "$formatNumber"} |->
                 SubSeq(x, 2, Len(x))]
SingleChars == {".", "[", "]", "{", "}", "(", ")", ",", "@", "#", ";", ":", "?",
                "+", "-", "*", "/", "%", "|", "=", "<", ">", "^", "&", "~"}
TwoChars == {"..", ":=", "!=", ">=", "<=", "**", "~>", "?:", "??"}
Operators == SingleChars \cup TwoChars \cup {" . "}

Token(type, v, pos) == [type |-> type, v |-> v, pos |-> pos, words |-> <<>>]
Eof == Token("eof", "", 0)
Unreadable(code) == Token("failure", code, 0)
Scanned(token, next) == [token |-> token, at |-> next]

\* scan_regex: up to the first slash that no bracket encloses.
ScanRegex(src, i) ==
    LET Depth(j) == Cardinality({k \in i + 1 .. j - 1 : src[k] \in {"(", "[", "{"}})
                  - Cardinality({k \in i + 1 .. j - 1 : src[k] \in {")", "]", "}"}})
        closing == {j \in i + 1 .. Len(src) : src[j] = "/" /\ Depth(j) = 0}
    IN  IF closing = {} THEN Scanned(Unreadable("S0302"), i)
        ELSE LET j == Min(closing) IN
             IF j = i + 1 THEN Scanned(Unreadable("S0301"), i)
             ELSE Scanned([Token("regex", "", i) EXCEPT
                                !.words = SubSeq(src, i + 1, j - 1)], j + 1)

\* scan_number: a fraction needs a digit on both sides of a tight dot.
ScanNumber(src, i) ==
    IF i + 2 <= Len(src) /\ src[i + 1] = "." /\ src[i + 2] \in Digits
    THEN Scanned([Token("number", "", i) EXCEPT !.words = SubSeq(src, i, i + 2)], i + 3)
    ELSE Scanned([Token("number", "", i) EXCEPT !.words = <<src[i]>>], i + 1)

Word(lexeme, i) ==
    CASE lexeme \in Keywords -> Token(lexeme, lexeme, i)
      [] lexeme \in Constants -> Token("value", lexeme, i)
      [] lexeme \in DOMAIN Strings -> Token("string", Strings[lexeme], i)
      [] lexeme \in DOMAIN Variables -> Token("variable", Variables[lexeme], i)
      [] lexeme \in DOMAIN Quoted -> Token("name", Quoted[lexeme], i)
      [] OTHER -> Token("name", lexeme, i)

\* A padded dot is a dot.
Operator(lexeme, i) ==
    LET symbol == IF lexeme = " . " THEN "." ELSE lexeme IN Token(symbol, symbol, i)

\* The next token from place `at`, and the place after it.
NextToken(src, at, infix) ==
    LET readable == {j \in at .. Len(src) : src[j] # Comment}
    IN  IF readable = {} THEN Scanned(Eof, Len(src) + 1)
        ELSE LET i == Min(readable) IN
             IF src[i] = "/" /\ ~infix THEN ScanRegex(src, i)
             ELSE CASE src[i] \in Operators -> Scanned(Operator(src[i], i), i + 1)
                    [] src[i] \in Digits -> ScanNumber(src, i)
                    [] OTHER -> Scanned(Word(src[i], i), i + 1)
=============================================================================

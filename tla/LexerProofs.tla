----------------------------- MODULE LexerProofs -----------------------------
(* Proofs about module Lexer, for every source. *)
EXTENDS Lexer, NaturalsInduction, WellFoundedInduction, TLAPS

(* A non-empty set of numbers has a least one. *)
LEMMA LeastNumber ==
    ASSUME NEW S \in SUBSET Nat, S # {}
    PROVE  Min(S) \in S /\ \A y \in S : Min(S) <= y
<1>1. IsWellFoundedOn(OpToRel(<, Nat), Nat)
  BY NatLessThanWellFounded
<1>2. PICK x \in S : \A y \in S : <<y, x>> \notin OpToRel(<, Nat)
  BY <1>1, WFMin
<1>3. \A y \in S : ~(y < x)
  BY <1>2 DEF OpToRel
<1>4. \A y \in S : x <= y
  BY <1>3
<1> QED
  BY <1>4 DEF Min

(* The lexemes from at that are no comments. *)
Readable(src, at) == {j \in at .. Len(src) : src[j] # Comment}

Lexemes == STRING

(* A regular expression ends at a slash behind its own, if it ends. *)
LEMMA RegexReads ==
    ASSUME NEW src \in Seq(Lexemes), NEW i \in 1 .. Len(src)
    PROVE  LET r == ScanRegex(src, i)
           IN  \/ r.token.type = "failure" /\ r.at = i
               \/ /\ r.token.type = "regex" /\ r.token.pos = i
                  /\ r.at \in i + 2 .. Len(src) + 1
                  /\ src[r.at - 1] = "/"
<1> DEFINE Depth(j) == Cardinality({k \in i + 1 .. j - 1 : src[k] \in {"(", "[", "{"}})
                     - Cardinality({k \in i + 1 .. j - 1 : src[k] \in {")", "]", "}"}})
           closing == {j \in i + 1 .. Len(src) : src[j] = "/" /\ Depth(j) = 0}
           j0 == Min(closing)
<1> HIDE DEF Depth
<1>1. CASE closing = {}
  BY <1>1 DEF ScanRegex, Scanned, Unreadable, Token, Depth
<1>2. CASE closing # {}
  <2>1. j0 \in closing
    <3>1. closing \in SUBSET Nat
      OBVIOUS
    <3> HIDE DEF closing
    <3> QED
      BY <1>2, <3>1, LeastNumber
  <2>2. j0 \in i + 1 .. Len(src) /\ src[j0] = "/"
    BY <2>1
  <2>3. ScanRegex(src, i) = IF j0 = i + 1 THEN Scanned(Unreadable("S0301"), i)
                            ELSE Scanned([Token("regex", "", i) EXCEPT
                                            !.words = SubSeq(src, i + 1, j0 - 1)], j0 + 1)
    BY <1>2 DEF ScanRegex, Depth
  <2> HIDE DEF closing, j0
  <2>4. CASE j0 = i + 1
    BY <2>3, <2>4 DEF Scanned, Unreadable, Token
  <2>5. CASE j0 # i + 1
    <3> DEFINE token == [Token("regex", "", i) EXCEPT !.words = SubSeq(src, i + 1, j0 - 1)]
    <3>1. token.type = "regex" /\ token.pos = i
      BY DEF Token
    <3> HIDE DEF token
    <3>2. ScanRegex(src, i) = [token |-> token, at |-> j0 + 1]
      BY <2>3, <2>5 DEF Scanned, token
    <3>3. j0 + 1 \in i + 2 .. Len(src) + 1 /\ src[(j0 + 1) - 1] = "/"
      BY <2>2, <2>5
    <3> QED
      BY <3>1, <3>2, <3>3
  <2> QED
    BY <2>4, <2>5
<1> QED
  BY <1>1, <1>2

LEMMA NumberReads ==
    ASSUME NEW src \in Seq(Lexemes), NEW i \in 1 .. Len(src)
    PROVE  LET r == ScanNumber(src, i)
           IN  /\ r.token.type = "number" /\ r.token.pos = i
               /\ r.at \in i + 1 .. Len(src) + 1
  BY DEF ScanNumber, Scanned, Token

LEMMA WordReads ==
    ASSUME NEW lexeme, NEW i
    PROVE  Word(lexeme, i).type \notin {"eof", "failure"} /\ Word(lexeme, i).pos = i
  BY DEF Word, Token, Keywords

(* Reading goes forward: the next token is the first lexeme that is no     *)
(* comment, it takes at least that lexeme and nothing past the end of the  *)
(* source; the end is reported at the end, and only a regular expression   *)
(* fails.  The parser asks for each token where the last one ended, so     *)
(* tokens neither overlap nor go back (Lexer::next).                       *)
THEOREM ReadsForward ==
    ASSUME NEW src \in Seq(Lexemes), NEW at \in 1 .. Len(src) + 1, NEW infix \in BOOLEAN
    PROVE  LET r == NextToken(src, at, infix)
               left == Readable(src, at)
           IN  IF left = {}
               THEN r.token.type = "eof" /\ r.at = Len(src) + 1
               ELSE /\ r.token.type # "eof"
                    /\ r.token.type = "failure" =>
                          src[Min(left)] = "/" /\ ~infix
                    /\ r.token.type # "failure" =>
                          r.token.pos = Min(left) /\ r.at \in Min(left) + 1 .. Len(src) + 1
<1> DEFINE left == Readable(src, at)
           i == Min(left)
           r == NextToken(src, at, infix)
<1>1. CASE left = {}
  BY <1>1 DEF NextToken, Readable, Eof, Scanned, Token
<1>2. CASE left # {}
  <2>1. i \in left
    <3>1. left \in SUBSET Nat
      BY DEF Readable
    <3> HIDE DEF left
    <3> QED
      BY <1>2, <3>1, LeastNumber
  <2>2. i \in 1 .. Len(src)
    BY <2>1 DEF Readable
  <2>3. r = IF src[i] = "/" /\ ~infix THEN ScanRegex(src, i)
            ELSE CASE src[i] \in Operators -> Scanned(Operator(src[i], i), i + 1)
                   [] src[i] \in Digits -> ScanNumber(src, i)
                   [] OTHER -> Scanned(Word(src[i], i), i + 1)
    BY <1>2 DEF NextToken, Readable
  <2>4. \A lexeme \in Operators :
           /\ Operator(lexeme, i).type \notin {"eof", "failure"}
           /\ Operator(lexeme, i).pos = i
           /\ lexeme \notin Digits
    BY DEF Operators, SingleChars, TwoChars, Digits, Operator, Token
  <2> DEFINE Forward == /\ r.token.type # "eof"
                        /\ r.token.type = "failure" => src[i] = "/" /\ ~infix
                        /\ r.token.type # "failure" =>
                              r.token.pos = i /\ r.at \in i + 1 .. Len(src) + 1
  <2> HIDE DEF i
  <2>5. CASE src[i] = "/" /\ ~infix
    <3>1. r = ScanRegex(src, i)
      BY <2>3, <2>5
    <3> HIDE DEF r
    <3>2. Forward
      BY <2>2, <2>5, <3>1, RegexReads
    <3> QED
      BY <1>2, <3>2 DEF r, i
  <2>6. CASE ~(src[i] = "/" /\ ~infix) /\ src[i] \in Operators
    <3>1. r = Scanned(Operator(src[i], i), i + 1)
      BY <2>3, <2>4, <2>6
    <3> HIDE DEF r
    <3>2. Forward
      BY <2>2, <2>4, <2>6, <3>1 DEF Scanned
    <3> QED
      BY <1>2, <3>2 DEF r, i
  <2>7. CASE ~(src[i] = "/" /\ ~infix) /\ src[i] \notin Operators /\ src[i] \in Digits
    <3>1. r = ScanNumber(src, i)
      BY <2>3, <2>7
    <3> HIDE DEF r
    <3>2. Forward
      BY <2>2, <3>1, NumberReads
    <3> QED
      BY <1>2, <3>2 DEF r, i
  <2>8. CASE ~(src[i] = "/" /\ ~infix) /\ src[i] \notin Operators /\ src[i] \notin Digits
    <3>1. r = Scanned(Word(src[i], i), i + 1)
      BY <2>3, <2>8
    <3> HIDE DEF r
    <3>2. Forward
      BY <2>2, <3>1, WordReads DEF Scanned
    <3> QED
      BY <1>2, <3>2 DEF r, i
  <2> QED
    BY <2>5, <2>6, <2>7, <2>8
<1> QED
  BY <1>1, <1>2

(* Where a token is read - after an operand or before one - tells a        *)
(* division from a regular expression, and nothing else (Lexer::next).     *)
THEOREM OnlySlashesDepend ==
    ASSUME NEW src \in Seq(Lexemes), NEW at \in 1 .. Len(src) + 1,
           NextToken(src, at, TRUE) # NextToken(src, at, FALSE)
    PROVE  Readable(src, at) # {} /\ src[Min(Readable(src, at))] = "/"
<1> DEFINE i == Min(Readable(src, at))
<1>1. \A infix : NextToken(src, at, infix) =
         IF Readable(src, at) = {} THEN Scanned(Eof, Len(src) + 1)
         ELSE IF src[i] = "/" /\ ~infix THEN ScanRegex(src, i)
         ELSE CASE src[i] \in Operators -> Scanned(Operator(src[i], i), i + 1)
                [] src[i] \in Digits -> ScanNumber(src, i)
                [] OTHER -> Scanned(Word(src[i], i), i + 1)
  BY DEF NextToken, Readable
<1> HIDE DEF i
<1>2. Readable(src, at) # {} /\ src[i] = "/"
  BY <1>1
<1> QED
  BY <1>2 DEF i
=============================================================================

-------------------------------- MODULE Parser --------------------------------
(***************************************************************************)
(* The Pratt parser (parser/mod.rs).  The parser's fields are a record     *)
(* that every operation takes and returns: the source, the place the lexer *)
(* stands at, the current token, the infix flag of the next read, the      *)
(* depth of the recursion, and the error that ended the parse.  The limit  *)
(* on the number of nodes is left out.                                     *)
(***************************************************************************)
EXTENDS Lexer, Signatures, Integers, SequencesExt, FiniteSetsExt

\* MAX_PARSE_DEPTH, small enough to be met.
CONSTANT MaxParseDepth

-----------------------------------------------------------------------------
(***************************************************************************)
(* The tree of an expression (parser/ast.rs).  The arena and its node ids  *)
(* are left out: a node holds its children.  Every kind of node has the    *)
(* same fields, empty where the kind has no such slot:                     *)
(*   v        the operator of a Binary, the name of a Name or a Variable,  *)
(*            the text of a literal                                        *)
(*   kids     the children, in the order of the fields of the variant      *)
(*   keep     the [] suffix (on a Path: keep_singleton_array)              *)
(*   focus, index   the variables of @ and #, none or one                  *)
(*   group    the pairs of {...}, flat, none or one group                  *)
(*   words    the digits of a number (v is its sign), the pattern of a     *)
(*            Regex, the directions of a Sort, the parameters of a Lambda  *)
(*   sig      the signature of a Lambda                                    *)
(*   thunk    the mark of a call in tail position                          *)
(*   pos      the place of the token the node was read at                  *)
(***************************************************************************)
Node(kind, v, kids, pos) ==
    [k |-> kind, v |-> v, kids |-> kids, keep |-> FALSE, focus |-> <<>>,
     index |-> <<>>, group |-> <<>>, words |-> <<>>, sig |-> <<>>,
     thunk |-> FALSE, pos |-> pos]

\* What a pass returns instead of a tree.
Failure(code) == Node("Failure", code, <<>>, 0)
Failed(n) == n.k = "Failure"

\* The node kinds that have a slot for each decoration.
KeepsArray == {"Name", "Binary", "Variable", "Function", "Sort", "Block",
               "Negate", "ArrayCons", "ObjCons", "Wildcard", "Descendant"}
BindsStep  == {"Name", "Binary", "Variable", "Sort", "Block"}
HoldsGroup == {"Name", "Binary", "Variable", "Negate", "ArrayCons", "ObjCons",
               "Function"}

IsBinary(n, op) == n.k = "Binary" /\ n.v = op
GroupPairs(n) == FlattenSeq(n.group)

\* push_children: every edge of the tree.
Children(n) == n.kids \o GroupPairs(n)

RECURSIVE Subtree(_)
\* The nodes of a tree, itself included.
Subtree(n) == {n} \cup UNION {Subtree(c) : c \in ToSet(Children(n))}

RECURSIVE Unplaced(_)
\* The tree without the places its nodes were read at.
Unplaced(n) ==
    [n EXCEPT !.pos = 0,
              !.words = IF n.k # "Lambda" THEN @ ELSE [i \in DOMAIN @ |-> Unplaced(@[i])],
              !.kids = [i \in DOMAIN @ |-> Unplaced(@[i])],
              !.group = [g \in DOMAIN @ |-> [i \in DOMAIN @[g] |-> Unplaced(@[g][i])]]]

-----------------------------------------------------------------------------
(* The results of the parser *)

NoNode == Node("None", "", <<>>, 0)
Parsed(n, ps) == [n |-> n, ps |-> ps]
Fail(ps, code) == Parsed(NoNode, [ps EXCEPT !.err = code])
\* The ? operator of the language of the code: go on unless it failed.
Then(r, Rest(_)) == IF r.ps.err # "" THEN r ELSE Rest(r)

-----------------------------------------------------------------------------
(* Token management *)

Read(ps, infix) ==
    LET s == NextToken(ps.src, ps.at, infix)
    IN  [ps EXCEPT !.token = s.token, !.at = s.at, !.infix = FALSE,
                   !.err = IF s.token.type = "failure" THEN s.token.v ELSE @]
Advance(ps) == Read(ps, ps.infix)
AdvancePrefix(ps) == Read(ps, FALSE)
\* What `self.infix = true; self.advance()` comes to.
AdvanceInfix(ps) == Read(ps, TRUE)

Sees(ps, type) == ps.token.type = type
Consume(ps, type, infix) ==
    IF Sees(ps, type) THEN Parsed(NoNode, Read(ps, infix)) ELSE Fail(ps, "S0202")

BindingPower(type) ==
    CASE type \in {"(", "["} -> 80
      [] type \in {".", "@", "#"} -> 75
      [] type = "{" -> 70
      [] type \in {"**", "*", "/", "%"} -> 60
      [] type \in {"+", "-", "&"} -> 50
      [] type = "~>" -> 45
      [] type \in {"!=", "<=", ">=", "=", "<", ">", "in", "^"} -> 40
      [] type = "and" -> 30
      [] type = "or" -> 25
      [] type \in {"|", "?", "?:", "??"} -> 20
      [] type = ":=" -> 10
      [] OTHER -> 0

-----------------------------------------------------------------------------
(* Decorations of a node already read *)

SetKeepArray(n) == IF n.k \in KeepsArray THEN [n EXCEPT !.keep = TRUE] ELSE n
HasGroup(n) == n.group # <<>>
SetGroup(n, pairs, pos) ==
    IF n.k \in HoldsGroup THEN [n EXCEPT !.group = <<pairs>>]
    ELSE [Node("Grouped", "", <<n>>, pos) EXCEPT !.group = <<pairs>>]
\* Mutant: a binding on any node.
SetFocusAnywhere(n, v) == [n EXCEPT !.focus = <<v>>]
SetFocus(n, v) == IF n.k \in BindsStep THEN [n EXCEPT !.focus = <<v>>] ELSE n
SetIndex(n, v) == IF n.k \in BindsStep THEN [n EXCEPT !.index = <<v>>] ELSE n

-----------------------------------------------------------------------------
(* Expressions *)

RECURSIVE Expression(_, _), LedLoop(_, _), Nud(_), Led(_, _)

Expression(ps, rbp) ==
    IF ps.depth = MaxParseDepth THEN Fail(ps, "S0210")
    ELSE Then(Nud([ps EXCEPT !.depth = @ + 1]), LAMBDA r : LedLoop(r, rbp))

LedLoop(r, rbp) ==
    IF r.ps.err # "" THEN r
    ELSE IF BindingPower(r.ps.token.type) > rbp
    THEN Then(Led(r.n, r.ps), LAMBDA s : LedLoop(s, rbp))
    ELSE [r EXCEPT !.ps.depth = @ - 1]

\* The elements of an array constructor, the only place of a range.
RECURSIVE ArrayItems(_, _)
ArrayItems(ps, items) ==
    LET Ranged(r) ==
            IF ~Sees(r.ps, "..") THEN r
            ELSE Then(Expression(AdvancePrefix(r.ps), 0), LAMBDA s :
                     Parsed(Node("Binary", "..", <<r.n, s.n>>, r.ps.token.pos), s.ps))
    IN  CASE Sees(ps, "]") -> Parsed(items, ps)
          [] Sees(ps, "eof") -> Fail(ps, "S0202")
          [] OTHER -> Then(Then(Expression(ps, 0), Ranged), LAMBDA r :
                 CASE Sees(r.ps, ",") -> ArrayItems(AdvancePrefix(r.ps), Append(items, r.n))
                   [] Sees(r.ps, "]") -> Parsed(Append(items, r.n), r.ps)
                   [] r.ps.token.type \in {")", "}", ":"} -> Fail(r.ps, "S0202")
                   [] OTHER -> Fail(r.ps, "S0204"))

\* The expressions of a block, and the arguments of a call.
RECURSIVE BlockItems(_, _), Arguments(_, _)
BlockItems(ps, items) ==
    CASE Sees(ps, ")") -> Parsed(items, ps)
      [] Sees(ps, "eof") -> Fail(ps, "S0203")
      [] OTHER -> Then(Expression(ps, 0), LAMBDA r :
             CASE Sees(r.ps, ";") -> BlockItems(AdvancePrefix(r.ps), Append(items, r.n))
               [] Sees(r.ps, ")") -> Parsed(Append(items, r.n), r.ps)
               [] Sees(r.ps, "eof") -> Fail(r.ps, "S0203")
               [] OTHER -> Fail(r.ps, "S0202"))
Arguments(ps, args) ==
    CASE Sees(ps, ")") -> Parsed(args, ps)
      [] Sees(ps, "eof") -> Fail(ps, "S0203")
      [] OTHER -> Then(Expression(ps, 0), LAMBDA r :
             CASE Sees(r.ps, ",") -> Arguments(AdvancePrefix(r.ps), Append(args, r.n))
               [] Sees(r.ps, ")") -> Parsed(Append(args, r.n), r.ps)
               [] Sees(r.ps, "eof") -> Fail(r.ps, "S0203")
               [] OTHER -> Fail(r.ps, "S0202"))

\* The pairs of an object constructor or of a group, with the closing brace.
RECURSIVE ObjectPairs(_, _)
ObjectPairs(ps, pairs) ==
    CASE Sees(ps, "}") -> Parsed(pairs, AdvanceInfix(ps))
      [] Sees(ps, "eof") -> Fail(ps, "S0202")
      [] OTHER -> Then(Expression(ps, 0), LAMBDA key :
            Then(Consume(key.ps, ":", FALSE), LAMBDA colon :
            Then(Expression(colon.ps, 0), LAMBDA val :
                ObjectPairs(IF Sees(val.ps, ",") THEN AdvancePrefix(val.ps) ELSE val.ps,
                            pairs \o <<key.n, val.n>>))))

\* function($v, ...)<signature>{ body }, the parenthesis being current.
RECURSIVE Parameters(_, _), SignatureText(_, _, _)
Parameters(ps, params) ==
    CASE ps.err # "" -> Fail(ps, ps.err)
      [] Sees(ps, ")") -> Parsed(params, ps)
      [] ~Sees(ps, "variable") -> Fail(ps, "S0208")
      [] OTHER -> LET next == Advance(ps) IN
            Parameters(IF Sees(next, ",") THEN AdvancePrefix(next) ELSE next,
                       Append(params, Node("Variable", ps.token.v, <<>>, ps.token.pos)))
SignatureText(ps, depth, text) ==
    CASE ps.err # "" -> Fail(ps, ps.err)
      [] depth = 0 -> Parsed(text, ps)
      [] Sees(ps, "eof") -> Fail(ps, "S0202")
      [] OTHER -> SignatureText(Advance(ps),
                      depth + (CASE Sees(ps, "<") -> 1 [] Sees(ps, ">") -> -1 [] OTHER -> 0),
                      Append(text, ps.token.v))
CheckedSignature(sig) ==
    LET code == ParseSignature(Inside(sig.n)).code
    IN  IF code = "" THEN sig ELSE Fail(sig.ps, code)
ParseLambda(ps, pos) ==
    Then(Parameters(AdvancePrefix(ps), <<>>), LAMBDA params :
    Then(Consume(params.ps, ")", FALSE), LAMBDA r :
    Then(IF Sees(r.ps, "<") THEN SignatureText(Advance(r.ps), 1, <<"<">>)
         ELSE Parsed(<<>>, r.ps), LAMBDA sig :
    Then(CheckedSignature(sig), LAMBDA checked :
    Then(Consume(checked.ps, "{", FALSE), LAMBDA open :
    Then(Expression(open.ps, 0), LAMBDA body :
    Then(Consume(body.ps, "}", TRUE), LAMBDA close :
        Parsed([Node("Lambda", "", <<body.n>>, pos) EXCEPT
                   !.words = params.n, !.sig = sig.n], close.ps))))))))

\* |pattern|update,delete|, each part read above the power of the bar.
ParseTransform(ps, pos) ==
    Then(Expression(AdvancePrefix(ps), 20), LAMBDA pattern :
    Then(Consume(pattern.ps, "|", FALSE), LAMBDA bar :
    Then(Expression(bar.ps, 20), LAMBDA update :
    Then(IF Sees(update.ps, ",")
         THEN Then(Expression(AdvancePrefix(update.ps), 20), LAMBDA d : Parsed(<<d.n>>, d.ps))
         ELSE Parsed(<<>>, update.ps), LAMBDA delete :
    Then(Consume(delete.ps, "|", TRUE), LAMBDA close :
        Parsed(Node("Transform", "", <<pattern.n, update.n>> \o delete.n, pos), close.ps))))))

\* ^(<a, >b), ascending unless marked; the commas are optional.
RECURSIVE SortTerms(_, _, _)
SortTerms(ps, terms, directions) ==
    CASE ps.err # "" -> Fail(ps, ps.err)
      [] Sees(ps, ")") -> Parsed([Node("Sort", "", terms, 0) EXCEPT !.words = directions],
                                 AdvanceInfix(ps))
      [] Sees(ps, "eof") -> Fail(ps, "S0202")
      [] OTHER ->
            LET marked == Sees(ps, "<") \/ Sees(ps, ">") IN
            Then(Expression(IF marked THEN AdvancePrefix(ps) ELSE ps, 0), LAMBDA r :
                SortTerms(IF Sees(r.ps, ",") THEN AdvancePrefix(r.ps) ELSE r.ps,
                          Append(terms, r.n),
                          Append(directions, IF Sees(ps, ">") THEN ">" ELSE "<")))
ParseSort(left, ps, pos) ==
    Then(Consume(Advance(ps), "(", FALSE), LAMBDA open :
    Then(SortTerms(open.ps, <<>>, <<>>), LAMBDA r :
        Parsed([r.n EXCEPT !.kids = <<left>> \o @, !.pos = pos], r.ps)))

\* -x: the sign of a number literal is folded into it.
Negated(n, pos) ==
    IF n.k = "NumberLit"
    THEN [n EXCEPT !.v = IF @ = "-" THEN "" ELSE "-"]
    ELSE Node("Negate", "-", <<n>>, pos)

\* The tokens that are a whole operand: the next one is in infix position.
Operand(token) ==
    CASE token.type \in {"name"} \cup Keywords -> Node("Name", token.v, <<>>, token.pos)
      [] token.type = "variable" -> Node("Variable", token.v, <<>>, token.pos)
      [] token.type = "string" -> Node("StringLit", token.v, <<>>, token.pos)
      [] token.type = "number" ->
             [Node("NumberLit", "", <<>>, token.pos) EXCEPT !.words = token.words]
      [] token.type = "value" -> Node("ValueLit", token.v, <<>>, token.pos)
      [] token.type = "regex" ->
             [Node("Regex", "", <<>>, token.pos) EXCEPT !.words = token.words]
      [] token.type = "*" -> Node("Wildcard", "*", <<>>, token.pos)
      [] token.type = "**" -> Node("Descendant", "**", <<>>, token.pos)
      [] token.type = "%" -> Node("Parent", "%", <<>>, token.pos)
      [] token.type = "?" -> Node("Placeholder", "?", <<>>, token.pos)
OperandTypes == {"name", "variable", "string", "number", "value", "regex",
                 "*", "**", "%", "?"} \cup Keywords

\* The current token opens an expression.
Nud(ps) ==
    LET token == ps.token
        prefix == AdvancePrefix(ps)
        Closed(kind, r) == Parsed(Node(kind, "", r.n, token.pos), AdvanceInfix(r.ps))
    IN  IF ps.err # "" THEN Fail(ps, ps.err)
        ELSE CASE token.type \in OperandTypes ->
                    LET next == AdvanceInfix(ps) IN
                    IF token.type = "name" /\ token.v = "function" /\ Sees(next, "(")
                    THEN ParseLambda(next, token.pos)
                    ELSE Parsed(Operand(token), next)
               [] token.type = "-" -> Then(Expression(prefix, 70), LAMBDA r :
                    Parsed(Negated(r.n, token.pos), r.ps))
               [] token.type = "[" -> Then(ArrayItems(prefix, <<>>), LAMBDA r :
                    Closed("ArrayCons", r))
               [] token.type = "{" -> Then(ObjectPairs(prefix, <<>>), LAMBDA r :
                    Parsed(Node("ObjCons", "", r.n, token.pos), r.ps))
               [] token.type = "(" -> Then(BlockItems(prefix, <<>>), LAMBDA r :
                    Closed("Block", r))
               [] token.type \in {"|", "~"} -> ParseTransform(ps, token.pos)
               [] token.type = "eof" -> Fail(ps, "S0201")
               [] OTHER -> Fail(ps, "S0211")

\* The operators whose right operand may not be missing, and the others,
\* each with the power its right operand is read at.
Strict == [op \in {"=", "!=", "<", ">", "<=", ">="} |-> 40]
          @@ [op \in {"+", "-", "&"} |-> 50] @@ [op \in {"*", "/", "%", "**"} |-> 60]
Lenient == [op \in {"."} |-> 74] @@ [op \in {"~>"} |-> 44] @@ [op \in {"in"} |-> 40]
           @@ [op \in {"and"} |-> 30] @@ [op \in {"or"} |-> 25]
           @@ [op \in {"?:", "??", "|"} |-> 19]

BinaryLed(left, ps, power) ==
    Then(Expression(AdvancePrefix(ps), power), LAMBDA r :
        Parsed(Node("Binary", ps.token.v, <<left, r.n>>, ps.token.pos), r.ps))
StrictLed(left, ps) ==
    IF Sees(AdvancePrefix(ps), "eof") THEN Fail(ps, "S0207")
    ELSE BinaryLed(left, ps, Strict[ps.token.type])

\* A call, partial if one of its arguments is left out.
CallLed(left, ps) ==
    Then(Arguments(AdvancePrefix(ps), <<>>), LAMBDA r :
        Parsed(Node(IF \E i \in DOMAIN r.n : r.n[i].k = "Placeholder"
                    THEN "Partial" ELSE "Function",
                    "", <<left>> \o r.n, ps.token.pos), AdvanceInfix(r.ps)))

\* [] is a suffix, [x] a subscript; neither may follow a group.
SubscriptLed(left, ps) ==
    LET inside == AdvancePrefix(ps) IN
    CASE HasGroup(left) -> Fail(ps, "S0209")
      [] ~HasGroup(left) /\ Sees(inside, "]") -> Parsed(SetKeepArray(left), AdvanceInfix(inside))
      [] OTHER -> Then(Expression(inside, 0), LAMBDA r :
            Then(Consume(r.ps, "]", TRUE), LAMBDA close :
                Parsed(Node("Binary", "[", <<left, r.n>>, ps.token.pos), close.ps)))

GroupLed(left, ps) ==
    IF HasGroup(left) THEN Fail(ps, "S0210")
    ELSE Then(ObjectPairs(AdvancePrefix(ps), <<>>), LAMBDA r :
            Parsed(SetGroup(left, r.n, ps.token.pos), r.ps))

\* @$v and #$v
BindingLed(left, ps) ==
    LET next == Advance(ps)
        name == next.token.v
    IN  IF ~Sees(next, "variable") THEN Fail(next, "S0214")
        ELSE Parsed(IF Sees(ps, "@") THEN SetFocus(left, name) ELSE SetIndex(left, name),
                    AdvanceInfix(next))
FocusLed(left, ps) ==
    CASE IsBinary(left, "[") -> Fail(ps, "S0215")
      [] left.k = "Sort" -> Fail(ps, "S0216")
      [] OTHER -> BindingLed(left, ps)

ConditionLed(left, ps) ==
    Then(Expression(AdvancePrefix(ps), 0), LAMBDA then :
        IF ~Sees(then.ps, ":")
        THEN Parsed(Node("Condition", "", <<left, then.n>>, ps.token.pos), then.ps)
        ELSE Then(Expression(AdvancePrefix(then.ps), 0), LAMBDA else :
                Parsed(Node("Condition", "", <<left, then.n, else.n>>, ps.token.pos), else.ps)))

AssignLed(left, ps) ==
    IF left.k # "Variable" THEN Fail(ps, "S0212")
    ELSE Then(Expression(AdvancePrefix(ps), 9), LAMBDA r :
            Parsed(Node("Bind", "", <<left, r.n>>, ps.token.pos), r.ps))

\* The current token follows the operand `left`.
Led(left, ps) ==
    LET type == ps.token.type IN
    CASE type \in DOMAIN Strict -> StrictLed(left, ps)
      [] type \in DOMAIN Lenient -> BinaryLed(left, ps, Lenient[type])
      [] type = "(" -> CallLed(left, ps)
      [] type = "[" -> SubscriptLed(left, ps)
      [] type = "{" -> GroupLed(left, ps)
      [] type = "@" -> FocusLed(left, ps)
      [] type = "#" -> BindingLed(left, ps)
      [] type = "?" -> ConditionLed(left, ps)
      [] type = ":=" -> AssignLed(left, ps)
      [] type = "^" -> ParseSort(left, ps, ps.token.pos)
      [] OTHER -> Fail(ps, "S0201")

\* Parser::parse: the whole source is one expression, or nothing.
Parse(src) ==
    LET ps == Advance([src |-> src, at |-> 1, token |-> Eof, infix |-> FALSE,
                       depth |-> 0, err |-> ""])
    IN  IF Sees(ps, "eof") THEN Parsed(NoNode, ps)
        ELSE Then(Expression(ps, 0), LAMBDA r :
                IF Sees(r.ps, "eof") THEN r ELSE Fail(r.ps, "S0201"))
=============================================================================

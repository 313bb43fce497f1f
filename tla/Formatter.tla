------------------------------ MODULE Formatter ------------------------------
(***************************************************************************)
(* The formatter (formatter.rs).  A node is laid out as a sequence of      *)
(* items: lexemes, nodes to lay out in turn, and the dots of a path.  Line *)
(* breaks and spaces are left out but for the one that keeps two numbers   *)
(* apart; the formatter writes no parenthesis that is not a Block, so the  *)
(* text must read back by itself.                                          *)
(***************************************************************************)
EXTENDS Process

\* The number of steps above which a path takes one line per step.
BreakThreshold == 3
\* Stands in the output for what has no spelling.
Unwritable == "(no spelling)"

Lit(text) == [text |-> text]
Sub(n) == [node |-> n]
\* The dot after step n, padded if what follows would weld to it.
DotAfter(n) == [dot |-> n]
Lits(texts) == [i \in DOMAIN texts |-> Lit(texts[i])]

\* Items separated by a lexeme.
Separated(parts, sep) ==
    FlattenSeq([i \in DOMAIN parts |->
        IF i = 1 THEN parts[i] ELSE <<Lit(sep)>> \o parts[i]])
List(open, nodes, sep, close) ==
    <<Lit(open)>> \o Separated([i \in DOMAIN nodes |-> <<Sub(nodes[i])>>], sep)
                  \o <<Lit(close)>>
Pairs(flat) ==
    <<Lit("{")>>
    \o Separated([i \in 1 .. (Len(flat) \div 2) |->
                     <<Sub(flat[2 * i - 1]), Lit(":"), Sub(flat[2 * i])>>], ",")
    \o <<Lit("}")>>

\* The decorations, in their canonical order.
Suffix(n) == IF n.keep THEN Lits(<<"[", "]">>) ELSE <<>>
Variable(v) == CASE v = "" -> "$" [] v = "$" -> "$$" [] OTHER -> "$" \o v
\* Mutant: one of the two bindings is written.
BindingsFirst(n) ==
    IF n.focus # <<>> THEN Lits(<<"@", Variable(n.focus[1])>>)
    ELSE IF n.index = <<>> THEN <<>> ELSE Lits(<<"#", Variable(n.index[1])>>)
Bindings(n) ==
    (IF n.focus = <<>> THEN <<>> ELSE Lits(<<"@", Variable(n.focus[1])>>))
    \o (IF n.index = <<>> THEN <<>> ELSE Lits(<<"#", Variable(n.index[1])>>))
Group(group) == IF group = <<>> THEN <<>> ELSE Pairs(group[1])

\* name_spelling: a reserved word has to be quoted.
NameSpelling(v) ==
    IF \E q \in DOMAIN Quoted : Quoted[q] = v
    THEN CHOOSE q \in DOMAIN Quoted : Quoted[q] = v ELSE v

\* A leading minus reads its operand below the power of the dot.
StepAbsorbsDot(n) ==
    \/ n.k = "Negate" /\ n.group = <<>>
    \/ n.k = "NumberLit" /\ n.v = "-"

\* The steps that the group of the path has to follow: none, or one.
Anchors(n) == {i \in 1 .. (Len(n.kids) - 1) : StepAbsorbsDot(n.kids[i])}

PathLayout(n) ==
    LET group == Group(n.group)
        broken == Len(n.kids) > BreakThreshold
        Joint(i) == CASE i = 1 -> <<>>
                      [] i > 1 /\ broken -> <<Lit(" . ")>>
                      [] i > 1 /\ ~broken /\ i - 1 \in Anchors(n) -> <<Lit(".")>>
                      [] OTHER -> <<DotAfter(n.kids[i - 1])>>
        Step(i) == Joint(i) \o <<Sub(n.kids[i])>>
                   \o (IF i \in Anchors(n) THEN group ELSE <<>>)
    IN  IF Cardinality(Anchors(n)) > Len(n.group) THEN <<Lit(Unwritable)>>
        ELSE FlattenSeq([i \in DOMAIN n.kids |-> Step(i)])
             \o (IF Anchors(n) = {} THEN group ELSE <<>>)

\* The nodes that are one token, but for the sign of a number.
Atom(n) ==
    CASE n.k = "Name" -> <<Lit(NameSpelling(n.v))>>
      [] n.k = "StringLit" -> <<Lit("\"" \o n.v \o "\"")>>
      [] n.k = "NumberLit" -> (IF n.v = "-" THEN <<Lit("-")>> ELSE <<>>) \o Lits(n.words)
      [] n.k = "Variable" -> <<Lit(Variable(n.v))>>
      [] n.k = "Regex" -> <<Lit("/")>> \o Lits(n.words) \o <<Lit("/")>>
      [] OTHER -> <<Lit(n.v)>>
Atoms == {"Name", "StringLit", "NumberLit", "Variable", "Regex", "ValueLit",
          "Wildcard", "Descendant", "Parent", "Placeholder"}

BinaryLayout(n) ==
    IF n.v = "[" THEN <<Sub(n.kids[1]), Lit("["), Sub(n.kids[2]), Lit("]")>>
    ELSE <<Sub(n.kids[1]), Lit(n.v), Sub(n.kids[2])>>
\* What may be missing at the end of a node, after a lexeme of its own.
Optional(n, i, lexeme) == IF Len(n.kids) < i THEN <<>> ELSE <<Lit(lexeme), Sub(n.kids[i])>>
ConditionLayout(n) ==
    <<Sub(n.kids[1]), Lit("?"), Sub(n.kids[2])>> \o Optional(n, 3, ":")
LambdaLayout(n) ==
    <<Lit("function")>> \o List("(", n.words, ",", ")") \o Lits(n.sig)
    \o <<Lit("{"), Sub(n.kids[1]), Lit("}")>>
TransformLayout(n) ==
    <<Lit("|"), Sub(n.kids[1]), Lit("|"), Sub(n.kids[2])>> \o Optional(n, 3, ",") \o <<Lit("|")>>
SortLayout(n) ==
    <<Sub(n.kids[1]), Lit("^"), Lit("(")>>
    \o Separated([i \in DOMAIN n.words |-> <<Lit(n.words[i]), Sub(n.kids[i + 1])>>], ",")
    \o <<Lit(")")>>

\* The text of a node, without its decorations.
Body(n) ==
    CASE n.k \in Atoms -> Atom(n)
      [] n.k = "Binary" -> BinaryLayout(n)
      [] n.k = "Negate" -> <<Lit("-"), Sub(n.kids[1])>>
      [] n.k = "ArrayCons" -> List("[", n.kids, ",", "]")
      [] n.k = "ObjCons" -> Pairs(n.kids)
      [] n.k = "Block" -> List("(", n.kids, ";", ")")
      [] n.k = "Condition" -> ConditionLayout(n)
      [] n.k = "Bind" -> <<Sub(n.kids[1]), Lit(":="), Sub(n.kids[2])>>
      [] n.k \in {"Function", "Partial"} ->
            <<Sub(n.kids[1])>> \o List("(", Tail(n.kids), ",", ")")
      [] n.k = "Lambda" -> LambdaLayout(n)
      [] n.k = "Transform" -> TransformLayout(n)
      [] n.k = "Sort" -> SortLayout(n)
      [] n.k = "Grouped" -> <<Sub(n.kids[1])>>

Layout(n) ==
    CASE n.k = "None" -> <<>>
      [] n.k = "Path" -> PathLayout(n)
      [] OTHER -> Body(n) \o Suffix(n) \o Bindings(n) \o Group(n.group)

-----------------------------------------------------------------------------
(* Emission: the output, and the places of the comments not yet written *)

RECURSIVE Emit(_, _), EmitItems(_, _)

\* Mutant: the comments before a node are written after it.
EmitThenComments(n, comments) ==
    LET before == SelectSeq(comments, LAMBDA c : c < n.pos)
        r == EmitItems(Layout(n), SubSeq(comments, Len(before) + 1, Len(comments)))
    IN  [r EXCEPT !.out = @ \o [i \in DOMAIN before |-> Comment]]
\* emit_comments_before, then the node.
Emit(n, comments) ==
    LET before == SelectSeq(comments, LAMBDA c : c < n.pos)
        r == EmitItems(Layout(n), SubSeq(comments, Len(before) + 1, Len(comments)))
    IN  [r EXCEPT !.out = [i \in DOMAIN before |-> Comment] \o @]

EmitItems(items, comments) ==
    IF items = <<>> THEN [out |-> <<>>, comments |-> comments]
    ELSE LET item == Head(items)
             here == IF "node" \in DOMAIN item THEN Emit(item.node, comments)
                     ELSE [out |-> <<>>, comments |-> comments]
             rest == EmitItems(Tail(items), here.comments)
             \* dot_needs_padding reads the text that was written after it.
             welds == "dot" \in DOMAIN item /\ item.dot.k = "NumberLit"
                      /\ Head(rest.out) \in Digits
         IN  [out |-> (CASE "text" \in DOMAIN item -> <<item.text>>
                         [] "node" \in DOMAIN item -> here.out
                         [] OTHER -> <<IF welds THEN " . " ELSE ".">>) \o rest.out,
              comments |-> rest.comments]

\* extract_comments: none hides inside a token here.
Comments(src) == SetToSortSeq({i \in DOMAIN src : src[i] = Comment}, <)

\* format, of a tree and its comments: Unwritable in it stands for the error.
Formatted(tree, comments) ==
    LET r == Emit(tree, comments)
    IN  r.out \o [i \in DOMAIN r.comments |-> Comment]
Format(src) == Formatted(Compile(src), Comments(src))
=============================================================================

----------------------------- MODULE Expressions -----------------------------
(***************************************************************************)
(* The evaluation of a node (evaluator/mod.rs and evaluator/binary.rs):    *)
(* what each kind of node does with the values of its parts.  A binding    *)
(* (:=) is made in the scope of the block it stands in; one inside a       *)
(* branch, an operand or an argument is left out.                          *)
(***************************************************************************)
EXTENDS HigherOrder

\* The names of $a := $b := ...
RECURSIVE AssignedNames(_)
AssignedNames(n) ==
    IF n.k = "Bind" THEN <<n.kids[1].v>> \o AssignedNames(n.kids[2]) ELSE <<>>
\* A block is a scope of its own and answers with its last expression.
EvalBlock(n, input, env) ==
    LET Do(at, kid) ==
            LET v == Ev(kid, input, at.env) IN
            IF IsError(at.v) THEN at
            ELSE [v |-> v, env |-> FoldLeft(LAMBDA e, name : Bind(e, name, v),
                                            at.env, AssignedNames(kid))]
    IN  FoldLeft(Do, [v |-> Undefined, env |-> Child(env)], n.kids).v

EvalCondition(n, input, env) ==
    AndThen(Ev(n.kids[1], input, env), LAMBDA c : AndThen(ToBoolean(c), LAMBDA holds :
        IF holds.boolean THEN Ev(n.kids[2], input, env)
        ELSE IF Len(n.kids) = 3 THEN Ev(n.kids[3], input, env) ELSE Undefined))

-----------------------------------------------------------------------------
(* Operators *)

\* eval_concat_chain: each operand is cast before the next is evaluated.
EvalConcatChain(n, input, env) ==
    LET operands == ConcatOperands(n)
        Cast(i) == AndThen(EvalOperand(operands[i], input, env), LAMBDA v :
                       WithToken(Stringify(v), "&"))
    IN  AndThenAll([i \in DOMAIN operands |-> Cast(i)], LAMBDA texts :
            Text(FoldLeft(LAMBDA text, v : text \o v.string, "", texts)))

\* eval_boolean_op: all but the left operand is blamed on the operator.
EvalBooleanOp(n, input, env) ==
    AndThen(EvalOperand(n.kids[1], input, env), LAMBDA left :
        WithToken(AndThen(ToBoolean(left), LAMBDA l :
            IF l.boolean = (n.v = "or") THEN l
            ELSE AndThen(EvalOperand(n.kids[2], input, env), LAMBDA right : ToBoolean(right))),
            n.v))

\* ?: and ??.  The right side takes the place of the node in the loop of
\* eval_inner, so its value is not collapsed; eval_binary, which would do
\* so, is not reached with these operators.
EvalDefault(n, input, env) ==
    AndThen(EvalOperand(n.kids[1], input, env), LAMBDA left :
        LET present == IF n.v = "??" THEN Boolean(left # Undefined) ELSE ToBoolean(left) IN
        AndThen(present, LAMBDA p : IF p.boolean THEN left ELSE Ev(n.kids[2], input, env)))

EvalBinary(n, input, env) ==
    CASE n.v = "[" -> EvalSubscriptBinary(n, input, env)
      [] n.v = "&" -> EvalConcatChain(n, input, env)
      [] n.v \in {"and", "or"} -> EvalBooleanOp(n, input, env)
      [] n.v \in {"?:", "??"} -> EvalDefault(n, input, env)
      [] n.v = "~>" -> AndThen(EvalOperand(n.kids[1], input, env), LAMBDA piped :
                           EvalChain(n.kids[2], piped, input, env))
      [] OTHER -> AndThenAll(EvalOperands(n.kids, input, env), LAMBDA v :
                      ApplyBinaryOp(n.v, v[1], v[2]))

-----------------------------------------------------------------------------
(* Constructors *)

EvalNegate(n, input, env) ==
    AndThen(EvalOperand(n.kids[1], input, env), LAMBDA v :
        CASE v = Undefined -> Undefined
          [] IsInfinite(v) -> WithToken(Error("D1001"), "-")
          [] IsFinite(v) -> OfHalves(-Halves(v))
          [] OTHER -> WithToken(Error("D1002"), "-"))

\* An array is spliced unless it is written as one.
EvalArrayCons(n, input, env) ==
    AndThenAll(EvalOperands(n.kids, input, env), LAMBDA values :
        Array(FlattenSeq([i \in DOMAIN values |->
            IF n.kids[i].k = "ArrayCons" THEN <<values[i]>> ELSE Items(values[i])])))

EvalObjCons(n, input, env) ==
    EachPair(n.kids, LAMBDA object, key, val :
        AndThen(EvalOperand(key, input, env), LAMBDA k :
            IF k = Undefined THEN Object(object)
            ELSE IF ~IsText(k) THEN Error("T1003")
            ELSE IF k.string \in DOMAIN object THEN Error("D1009")
            ELSE AndThen(EvalOperand(val, input, env), LAMBDA v : Entered(object, k.string, v))))

EvalRegex(n) == Object(("pattern" :> Text(n.words[1])) @@ ("flags" :> Text("")))

-----------------------------------------------------------------------------
Literals == {"StringLit", "NumberLit", "ValueLit"}
EvalUngrouped(n, input, env) ==
    CASE n.k \in Literals -> LiteralOf(n)[1]
      [] n.k = "Variable" -> EvalVariable(n.v, input, env)
      [] n.k = "Name" -> EvalName(n.v, input)
      [] n.k = "Wildcard" -> EvalWildcard(input)
      [] n.k = "Descendant" -> Collapsed(EvalDescendantStep(input))
      [] n.k = "Regex" -> EvalRegex(n)
      [] n.k = "Parent" -> EvalParent(env)
      [] n.k = "Placeholder" -> Undefined
      [] n.k = "Block" -> EvalBlock(n, input, env)
      [] n.k = "Condition" -> EvalCondition(n, input, env)
      [] n.k = "Path" -> EvalPath(n, input, env)
      [] n.k = "Function" -> EvalFunction(n, input, env)
      [] n.k = "Binary" -> EvalBinary(n, input, env)
      [] n.k = "Negate" -> EvalNegate(n, input, env)
      [] n.k = "ArrayCons" -> EvalArrayCons(n, input, env)
      [] n.k = "ObjCons" -> EvalObjCons(n, input, env)
      [] n.k = "Grouped" -> Ev(n.kids[1], input, env)
      [] n.k = "Bind" -> Ev(n.kids[2], input, env)
      [] n.k = "Lambda" -> EvalLambda(n, input, env)
      [] n.k = "Partial" -> EvalPartial(n, input, env)
      [] n.k = "Sort" -> EvalSort(n, input, env)
      [] n.k = "Transform" -> EvalTransform(n, env)

\* eval_inner
EvalNode(n, input, env) ==
    IF n.group # <<>> /\ ~(n.k = "Path" /\ HasTupleStep(n))
    THEN EvalGroupBy(n, EvalUngrouped(n, input, env), env)
    ELSE EvalUngrouped(n, input, env)
=============================================================================

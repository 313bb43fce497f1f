----------------------------- MODULE LiftedLambda -----------------------------
(***************************************************************************)
(* The lifts (stdlib/hof_fast.rs): a lambda whose body has one of a few    *)
(* shapes is not called for each item, and neither is a call that does     *)
(* nothing but read fields; what they would answer is computed at once.    *)
(* The lifts are off where the tests of the code turn them off, here in    *)
(* the scope that Unlifted makes.                                          *)
(***************************************************************************)
EXTENDS Library

LiftSwitch == "%lifts"
Unlifted(env) == Bind(env, LiftSwitch, Boolean(FALSE))
Lifts(env) == Lookup(env, LiftSwitch) = Undefined

Comparable == {"<", ">", "<=", ">=", "=", "!="}
Computable == {"+", "-", "*", "/", "%"}

\* get_field
GetField(item, field) == EvalName(field, item)

-----------------------------------------------------------------------------
(* Analysis.  What may not be there is none or one. *)

IsParam(n, param) == n.k = "Variable" /\ n.v = param
\* extract_param_field: the field that $param.field reads.
ParamField(n, param) ==
    IF /\ n.k = "Path" /\ ~n.keep /\ n.group = <<>> /\ Len(n.kids) = 2
       /\ IsParam(n.kids[1], param)
       /\ PlainName(n.kids[2]) /\ ~n.kids[2].keep
    THEN <<n.kids[2].v>> ELSE <<>>

\* A null or a boolean on the left of an order fails before a missing field
\* is looked at.
IsMirrorableLiteral(op, literal) ==
    op \in {"=", "!="} \/ IsNumber(literal) \/ IsText(literal)
FlipRelational(op) ==
    CASE op = ">" -> "<" [] op = "<" -> ">" [] op = ">=" -> "<=" [] op = "<=" -> ">="
      [] OTHER -> op

\* A field compared with a literal, which is put on its right.
PredicateClause(n, param) ==
    IF n.k # "Binary" \/ n.v \notin Comparable \cup Computable THEN <<>>
    ELSE LET Direct == {<<f, l>> \in ToSet(ParamField(n.kids[1], param))
                                     \X ToSet(LiteralOf(n.kids[2])) : TRUE}
             Reversed == {<<f, l>> \in ToSet(ParamField(n.kids[2], param))
                                       \X ToSet(LiteralOf(n.kids[1])) :
                             n.v \in Comparable /\ IsMirrorableLiteral(n.v, l)}
         IN  SetToSeq({[field |-> p[1], op |-> n.v, literal |-> p[2], written |-> n.v] : p \in Direct}
                      \cup {[field |-> p[1], op |-> FlipRelational(n.v), literal |-> p[2],
                             written |-> n.v] : p \in Reversed})

RECURSIVE ClauseNodes(_, _)
\* The operands of one combiner, however it is nested.
ClauseNodes(n, combiner) ==
    IF IsBinary(n, combiner)
    THEN ClauseNodes(n.kids[1], combiner) \o ClauseNodes(n.kids[2], combiner) ELSE <<n>>
CompoundPredicate(n, param) ==
    LET clauses == [i \in DOMAIN ClauseNodes(n, n.v) |->
                       PredicateClause(ClauseNodes(n, n.v)[i], param)]
    IN  IF n.v \in {"and", "or"} /\ \A i \in DOMAIN clauses : clauses[i] # <<>>
        THEN <<[shape |-> "CompoundPredicate", clauses |-> FlattenSeq(clauses),
                combiner |-> n.v]>> ELSE <<>>

RECURSIVE UnwrapParenBlock(_)
UnwrapParenBlock(n) ==
    IF n.k = "Block" /\ Len(n.kids) = 1 /\ n.focus \o n.index = <<>> /\ ~n.keep
       /\ n.kids[1].k # "Bind"
    THEN UnwrapParenBlock(n.kids[1]) ELSE n

\* $prev op $curr.field, and $prev op ($curr.field1 op $curr.field2).
ReduceAccum(n, params) ==
    LET inner == UnwrapParenBlock(n.kids[2])
        FieldsOf(m) == <<ParamField(m.kids[1], params[2]), ParamField(m.kids[2], params[2])>>
    IN  IF Len(params) < 2 \/ n.v \notin Computable \/ ~IsParam(n.kids[1], params[1]) THEN <<>>
        ELSE IF ParamField(n.kids[2], params[2]) # <<>>
        THEN <<[shape |-> "ReduceAccum", op |-> n.v,
                field |-> ParamField(n.kids[2], params[2])[1]]>>
        ELSE IF inner.k = "Binary" /\ inner.v \in Computable /\ <<>> \notin ToSet(FieldsOf(inner))
        THEN <<[shape |-> "ReduceCompoundAccum", outer |-> n.v, inner |-> inner.v,
                fields |-> FlattenSeq(FieldsOf(inner))]>>
        ELSE <<>>

\* Mutant: the two sides may be of different fields.
SortComparatorAnyFields(n, params) ==
    IF Len(params) = 2 /\ n.v \in Comparable
       /\ ParamField(n.kids[1], params[1]) # <<>> /\ ParamField(n.kids[2], params[2]) # <<>>
    THEN <<[shape |-> "SortComparator", op |-> n.v, field |-> ParamField(n.kids[1], params[1])[1]]>>
    ELSE <<>>
SortComparator(n, params) ==
    IF Len(params) = 2 /\ n.v \in Comparable
       /\ ParamField(n.kids[1], params[1]) # <<>>
       /\ ParamField(n.kids[1], params[1]) = ParamField(n.kids[2], params[2])
    THEN <<[shape |-> "SortComparator", op |-> n.v, field |-> ParamField(n.kids[1], params[1])[1]]>>
    ELSE <<>>

TwoFieldPredicate(n, param) ==
    LET fields == ParamField(n.kids[1], param) \o ParamField(n.kids[2], param) IN
    IF n.v \in Comparable \cup Computable /\ Len(fields) = 2
    THEN <<[shape |-> "TwoFieldPredicate", op |-> n.v, fields |-> fields]>> ELSE <<>>
FieldPredicate(n, param) ==
    LET clause == PredicateClause(n, param) IN
    IF clause = <<>> THEN <<>> ELSE <<[shape |-> "FieldPredicate", clause |-> clause[1]]>>

\* The start and the length of a $substring, written as numbers and cut to
\* whole ones; a length before that is none.
Extent(literals) ==
    IF /\ Len(literals) \in 1 .. 2 /\ \A i \in DOMAIN literals : literals[i].k = "NumberLit"
       /\ Len(literals) = 2 => Halves(NumberOf(literals[2])) >= 0
    THEN <<[i \in DOMAIN literals |-> Number(Scale(NumberOf(literals[i])))]>> ELSE <<>>
\* classify_template_operand: a text, a field, or a builtin on a field, which
\* is known by its name alone.
TemplatePiece(n, param) ==
    LET called == IF n.k = "Function" /\ n.kids[1].k = "Variable" THEN n.kids[1].v ELSE ""
        args == Tail(n.kids)
        field == IF called = "" THEN ParamField(n, param)
                 ELSE IF args = <<>> THEN <<>> ELSE ParamField(args[1], param)
        rest == CASE called \in {"string", "lowercase", "uppercase"} /\ Len(args) = 1 -> <<<<>>>>
                  [] called = "substring" /\ args # <<>> -> Extent(Tail(args))
                  [] OTHER -> <<>>
    IN  IF n.k = "StringLit" THEN <<[piece |-> "text", text |-> n.v]>>
        ELSE IF field = <<>> THEN <<>>
        ELSE IF called = "" THEN <<[piece |-> "field", field |-> field[1]]>>
        ELSE IF rest = <<>> THEN <<>>
        ELSE <<[piece |-> called, field |-> field[1], rest |-> rest[1]]>>
ConcatTemplate(n, param) ==
    LET pieces == [i \in DOMAIN ConcatOperands(n) |-> TemplatePiece(ConcatOperands(n)[i], param)] IN
    IF n.v = "&" /\ \A i \in DOMAIN pieces : pieces[i] # <<>>
    THEN <<[shape |-> "ConcatTemplate", pieces |-> FlattenSeq(pieces)]>> ELSE <<>>

\* analyze_lambda and analyze_binary: the shapes in the order they are tried.
AnalyzeLambda(params, body) ==
    LET field == IF params = <<>> THEN <<>> ELSE ParamField(body, params[1])
        shapes == IF params = <<>> THEN <<>>
                  ELSE ConcatTemplate(body, params[1]) \o SortComparator(body, params)
                       \o ReduceAccum(body, params) \o CompoundPredicate(body, params[1])
                       \o FieldPredicate(body, params[1]) \o TwoFieldPredicate(body, params[1])
    IN  CASE body.k = "Binary" -> SubSeq(shapes, 1, Min({1, Len(shapes)}))
          [] body.k = "Path" /\ field # <<>> -> <<[shape |-> "FieldAccess", field |-> field[1]]>>
          [] OTHER -> <<>>

\* try_fast_lambda: a lambda with a signature is called.
FastLambda(f) ==
    IF IsLambda(f) /\ Lifts(f.lambda.closure) /\ f.lambda.signature = <<>>
    THEN AnalyzeLambda(f.lambda.params, f.lambda.body) ELSE <<>>
HasShape(lifted, shapes) == lifted # <<>> /\ lifted[1].shape \in shapes

-----------------------------------------------------------------------------
(* Execution *)

\* Mutant: what fails is named for the operator the clause was turned into.
EvalClauseFlipped(item, c) == ApplyBinaryOp(c.op, GetField(item, c.field), c.literal)
\* A clause is evaluated the way round it was written.
EvalClause(item, c) ==
    IF c.op = c.written THEN ApplyBinaryOp(c.op, GetField(item, c.field), c.literal)
    ELSE ApplyBinaryOp(c.written, c.literal, GetField(item, c.field))

RECURSIVE EvalCompoundPredicate(_, _, _)
\* Mutant: a clause after the first keeps its own token.
EvalCompoundUnnamed(item, s, i) ==
    IF i > Len(s.clauses) THEN Boolean(s.combiner = "and")
    ELSE AndThen(EvalClause(item, s.clauses[i]), LAMBDA v :
         AndThen(WithToken(ToBoolean(v), s.combiner), LAMBDA b :
            IF b.boolean = (s.combiner = "or") THEN b ELSE EvalCompoundPredicate(item, s, i + 1)))
EvalCompoundPredicate(item, s, i) ==
    IF i > Len(s.clauses) THEN Boolean(s.combiner = "and")
    ELSE LET v == EvalClause(item, s.clauses[i]) IN
         AndThen(IF i = 1 THEN v ELSE WithToken(v, s.combiner), LAMBDA ok :
         AndThen(WithToken(ToBoolean(v), s.combiner), LAMBDA b :
            IF b.boolean = (s.combiner = "or") THEN b ELSE EvalCompoundPredicate(item, s, i + 1)))

\* A field is read, then the operator applied.
EvalTwoFields(item, op, fields) ==
    ApplyBinaryOp(op, GetField(item, fields[1]), GetField(item, fields[2]))

PredicateShapes == {"FieldPredicate", "TwoFieldPredicate", "CompoundPredicate"}
EvalPredicate(item, s) ==
    CASE s.shape = "FieldPredicate" -> EvalClause(item, s.clause)
      [] s.shape = "TwoFieldPredicate" -> EvalTwoFields(item, s.op, s.fields)
      [] s.shape = "CompoundPredicate" -> EvalCompoundPredicate(item, s, 1)

ReduceShapes == {"ReduceAccum", "ReduceCompoundAccum"}
EvalAccum(acc, item, s) ==
    IF s.shape = "ReduceAccum" THEN ApplyBinaryOp(s.op, acc, GetField(item, s.field))
    ELSE AndThen(EvalTwoFields(item, s.inner, s.fields), LAMBDA v : ApplyBinaryOp(s.outer, acc, v))

\* What a piece contributes to the text.
EvalPiece(item, p) ==
    IF p.piece = "text" THEN Text(p.text)
    ELSE LET v == GetField(item, p.field) IN
         CASE p.piece = "field" -> WithToken(Stringify(v), "&")
           [] p.piece = "string" -> OrToken(Stringify(v), "string")
           [] OTHER -> OrToken(CallLibrary(p.piece, <<v>> \o p.rest, Undefined), p.piece)
EvalConcatTemplate(item, s) ==
    LET each == [i \in DOMAIN s.pieces |-> EvalPiece(item, s.pieces[i])] IN
    AndThenAll(each, LAMBDA pieces : Text(FoldLeft(LAMBDA text, v :
        IF IsText(v) THEN text \o v.string ELSE text, "", pieces)))

-----------------------------------------------------------------------------
(* Calls of any function on fields and literals *)

CallArg(n, param) ==
    CASE LiteralOf(n) # <<>> -> [constant |-> LiteralOf(n)[1]]
      [] param # <<>> /\ ParamField(n, param[1]) # <<>> -> [field |-> ParamField(n, param[1])[1]]
      [] param = <<>> /\ PlainName(n) /\ ~n.keep -> [field |-> n.v]
      [] OTHER -> [expr |-> TRUE]

\* Mutant: a radix is cut to a whole number and not rounded.
TryPrepareCutting(name, args) ==
    LET given == Len(args) >= 2 /\ "constant" \in DOMAIN args[2]
        second == IF given THEN args[2].constant ELSE Undefined
    IN  CASE name = "round" /\ Len(args) = 1 -> <<[scale |-> 0]>>
          [] name = "round" /\ given /\ IsNumber(second) -> <<[scale |-> Scale(second)]>>
          [] name = "contains" /\ given /\ IsText(second) -> <<[needle |-> second]>>
          [] name = "formatNumber" /\ given /\ Len(args) = 2 /\ IsPicture(second) ->
                <<[picture |-> second]>>
          [] name = "formatBase" /\ given /\ IsNumber(second) /\ Scale(second) \in 2 .. 36 ->
                <<[radix |-> Number(Scale(second))]>>
          [] OTHER -> <<>>
\* try_prepare: what a builtin makes of a constant argument, made once.
TryPrepare(name, args) ==
    LET given == Len(args) >= 2 /\ "constant" \in DOMAIN args[2]
        second == IF given THEN args[2].constant ELSE Undefined
        Radix == BankersRound(second, 0)
    IN  CASE name = "round" /\ Len(args) = 1 -> <<[scale |-> 0]>>
          [] name = "round" /\ given /\ IsNumber(second) -> <<[scale |-> Scale(second)]>>
          [] name = "contains" /\ given /\ IsText(second) -> <<[needle |-> second]>>
          [] name = "formatNumber" /\ given /\ Len(args) = 2 /\ IsPicture(second) ->
                <<[picture |-> second]>>
          [] name = "formatBase" /\ given /\ IsNumber(second) /\ IsRadix(Radix) ->
                <<[radix |-> Radix]>>
          [] OTHER -> <<>>

\* What is prepared is for the builtin that the library has by the name.
\* A lambda that would be given the item, or no value for a parameter, is
\* called, as the two places where a call is lifted differ in that.
AnalyzeMappedCall(n, param, env) ==
    LET call == IF n.k = "Block" /\ Len(n.kids) = 1 THEN n.kids[1] ELSE n
        f == Lookup(env, call.kids[1].v)
        args == [i \in DOMAIN Tail(call.kids) |-> CallArg(Tail(call.kids)[i], param)]
        prepared == IF f = [builtin |-> call.kids[1].v] THEN TryPrepare(f.builtin, args) ELSE <<>>
    IN  IF /\ Lifts(env)
           /\ call.k = "Function" /\ call.group = <<>> /\ call.kids[1].k = "Variable"
           /\ IsFunction(f)
           /\ IsLambda(f) => Len(f.lambda.params) <= Len(args)
           /\ \E i \in DOMAIN args : "field" \in DOMAIN args[i]
           /\ \A i \in DOMAIN args : "expr" \notin DOMAIN args[i]
        THEN <<[func |-> f, template |-> args, prepared |-> prepared,
                token |-> call.kids[1].v]>> ELSE <<>>

\* exec_prepared: an answer, or none for a value of another type.
ExecPrepared(prepared, v) ==
    CASE "scale" \in DOMAIN prepared /\ IsNumber(v) -> <<BankersRound(v, prepared.scale)>>
      [] "needle" \in DOMAIN prepared /\ IsText(v) ->
            <<Boolean(OccursIn(prepared.needle.string, v.string))>>
      [] "radix" \in DOMAIN prepared /\ IsNumber(v) -> <<FnFormatBase(<<v, prepared.radix>>)>>
      [] "picture" \in DOMAIN prepared /\ IsNumber(v) /\ IsFinite(v) ->
            <<InPicture(v, prepared.picture, Undefined)>>
      [] OTHER -> <<>>

ExecMappedCall(mc, item, env) ==
    LET args == [i \in DOMAIN mc.template |->
            IF "field" \in DOMAIN mc.template[i] THEN GetField(item, mc.template[i].field)
            ELSE mc.template[i].constant]
        early == IF mc.prepared # <<>> /\ "field" \in DOMAIN mc.template[1]
                 THEN ExecPrepared(mc.prepared[1], args[1]) ELSE <<>>
        checked == CheckedArgs(mc.func, args)
        result == IF early # <<>> THEN early[1]
                  ELSE IF IsArray(checked) THEN CallFunction(mc.func, checked.array, item, env)
                  ELSE checked
    IN  OrToken(result, mc.token)
===============================================================================

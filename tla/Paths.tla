-------------------------------- MODULE Paths --------------------------------
(***************************************************************************)
(* The steps of a path, and a path of ordinary steps (evaluator/path.rs):  *)
(* each step is taken from the values the one before it led to.  A path    *)
(* that binds a variable at a step or goes back to a parent is walked as a *)
(* stream of tuples instead: a value, and a scope that remembers how it    *)
(* was reached.                                                            *)
(***************************************************************************)
EXTENDS LiftedLambda

\* A call as a step: a lambda with too few arguments gets the item first.
EvalFunctionStep(step, item, env) ==
    LET procedure == step.kids[1]
        name == CallSiteName(procedure)
    IN  AndThen(Ev(procedure, item, env), LAMBDA f :
            IF ~IsFunction(f) THEN OrNamed(Error("T1006"), name)
            ELSE AndThenAll(EvalOperands(Tail(step.kids), item, env), LAMBDA given :
                LET args == IF IsLambda(f) /\ Len(given) < Len(f.lambda.params)
                            THEN <<item>> \o given ELSE given
                    checked == CheckedArgs(f, args)
                IN  OrNamed(IF IsArray(checked) THEN CallFunction(f, checked.array, item, env)
                            ELSE checked, name)))
StepFrom(step, item, env) ==
    IF step.k = "Function" THEN EvalFunctionStep(step, item, env) ELSE Ev(step, item, env)

\* What the items answered, an array being spliced unless it is kept whole.
Gathered(results, whole, keep) ==
    AndThenAll(results, LAMBDA answers :
        LET found == SelectSeq(answers, LAMBDA v : v # Undefined)
            all == IF whole THEN found
                   ELSE FlattenSeq([i \in DOMAIN found |->
                       IF IsArray(found[i]) THEN found[i].array ELSE Spliced(found[i])])
        IN  IF whole /\ keep /\ all # <<>> THEN Array(all) ELSE IntoValue(all, FALSE))

\* The steps that see an array as it is, whatever came before them.
TakesAll == {"Name", "Wildcard", "Variable", "StringLit", "ValueLit", "Sort"}
\* mapped: whether the value came out of a step, as an array of answers.
EvalPathStep(step, input, env, mapped, keep) ==
    LET whole == step.k = "ArrayCons"
        lifted == IF whole THEN <<>> ELSE AnalyzeMappedCall(step, <<>>, env)
        Answer(item) == IF lifted # <<>> THEN ExecMappedCall(lifted[1], item, env)
                        ELSE StepFrom(step, item, env)
    IN  IF step.k = "NumberLit" THEN Error("S0213")
        ELSE IF step.k = "Descendant" THEN EvalDescendantStep(input)
        ELSE IF \/ step.k \in TakesAll
                \/ ~mapped /\ (step.k \in {"Block", "ArrayCons"} \/ IsBinary(step, "["))
        THEN Ev(step, input, env)
        ELSE IF IsArray(input)
        THEN Gathered([i \in DOMAIN input.array |-> Answer(input.array[i])], whole, keep)
        ELSE StepFrom(step, input, env)

\* The [] of a step is honoured at the end of the path only.
Unkept(v) == IF IsSequence(v) THEN [v EXCEPT !.keep = FALSE] ELSE v
\* An empty array that a mapped step answers with is no value.
EvalPathSimple(n, input, env) ==
    LET Take(at, i) ==
            LET r == Unkept(EvalPathStep(n.kids[i], Collapsed(at.v), env, at.mapped, n.keep))
                none == /\ r = Array(<<>>) /\ at.mapped
                        /\ n.kids[i].k \notin {"Name", "StringLit"}
            IN  IF IsError(at.v) \/ (i > 1 /\ Collapsed(at.v) = Undefined) THEN at
                ELSE [v |-> IF none THEN Undefined ELSE r,
                      mapped |-> IsArray(r) \/ IsSequence(r)]
        end == FoldLeft(Take, [v |-> input, mapped |-> FALSE], [i \in DOMAIN n.kids |-> i])
    IN  IF n.keep THEN MarkKeepSingleton(end.v) ELSE end.v

-----------------------------------------------------------------------------
(* Tuples *)

Tuple(v, env) == [value |-> v, env |-> env]
Stream(tuples) == [tuples |-> tuples]
\* Each tuple replaced by those it leads to, unless one of them fails.
EachTuple(tuples, LeadsTo(_)) ==
    AndThenAll([i \in DOMAIN tuples |-> LeadsTo(tuples[i])], LAMBDA streams :
        Stream(FlattenSeq([i \in DOMAIN streams |-> streams[i].tuples])))

\* path_has_tuple_step
HasTupleStep(n) == \E i \in DOMAIN n.kids : BindsIndex(n.kids[i]) \/ RefersToParent(n.kids[i])

\* get_step_bindings: the # and the @ of a step, or of what it filters.
StepBindings(step) ==
    LET filtered == IsBinary(step, "[") /\ step.kids[1].k \in {"Name", "Variable", "Sort", "Binary"}
        Inherited(own, inner) == IF own = <<>> /\ filtered THEN inner ELSE own
    IN  IF step.k \notin BindsStep THEN [index |-> <<>>, focus |-> <<>>]
        ELSE [index |-> Inherited(step.index, step.kids[1].index),
              focus |-> Inherited(step.focus, step.kids[1].focus)]

\* Mutant: the value that was reached is the context after a join too.
SuccessorsMoved(val, env, result, binds, parented) ==
    LET items == Items(Collapsed(result))
        scope == IF parented THEN Bind(Child(env), ParentBinding, val) ELSE Child(env)
        flagged == IF parented /\ binds.focus # <<>>
                   THEN Bind(scope, JoinFlag, Boolean(TRUE)) ELSE scope
    IN  Stream([j \in DOMAIN items |->
            Tuple(items[j],
                  BindAll(BindAll(flagged, binds.index, Number(j - 1)), binds.focus, items[j]))])
\* One tuple for each item of a result.  A join keeps the value as it is.
Successors(val, env, result, binds, parented) ==
    LET items == Items(Collapsed(result))
        scope == IF parented THEN Bind(Child(env), ParentBinding, val) ELSE Child(env)
        flagged == IF parented /\ binds.focus # <<>>
                   THEN Bind(scope, JoinFlag, Boolean(TRUE)) ELSE scope
    IN  Stream([j \in DOMAIN items |->
            Tuple(IF binds.focus # <<>> THEN val ELSE items[j],
                  BindAll(BindAll(flagged, binds.index, Number(j - 1)), binds.focus, items[j]))])

\* The step of a path inside another, from one tuple.
Walked(step, tuple) ==
    LET val == Collapsed(tuple.value) IN
    IF val = Undefined THEN Stream(<<>>)
    ELSE AndThen(EvalPathStep(step, val, tuple.env, FALSE, FALSE), LAMBDA result :
            Successors(val, tuple.env, result, StepBindings(step), TRUE))
ExpandPathTuple(steps, tuples) ==
    FoldLeft(LAMBDA stream, step : AndThen(stream, LAMBDA s :
                 EachTuple(s.tuples, LAMBDA t : Walked(step, t))),
             Stream(tuples), steps)
=============================================================================

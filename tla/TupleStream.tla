----------------------------- MODULE TupleStream -----------------------------
(***************************************************************************)
(* Paths that remember (evaluator/path.rs): a step with @ or # binds a     *)
(* variable for each of its items, a step with @ does not move (a join),   *)
(* and % goes back to the value a step was taken from.                     *)
(***************************************************************************)
EXTENDS Sorting

-----------------------------------------------------------------------------
(* Back to parents *)

RECURSIVE BeforeJoins(_, _)
\* A scope outside of the joins that were made from the same value.  A value
\* of the model has no identity, so equal containers are one here; the code
\* asks for the same allocation (value_ptr_eq).
BeforeJoins(env, parent) ==
    IF IsBound(env, JoinFlag) /\ Lookup(env, ParentBinding) = parent
    THEN BeforeJoins(EnclosingOr(Binders(env, ParentBinding)[1]), parent) ELSE env
\* From a group, a parent that is not there is no tuple.
ParentTuples(tuple, overJoins) ==
    LET binders == Binders(tuple.env, ParentBinding)
        parent == Lookup(tuple.env, ParentBinding)
        around == EnclosingOr(binders[1])
    IN  IF parent \notin {Null, Undefined}
        THEN Stream(<<Tuple(parent, IF overJoins /\ IsBound(binders[1], JoinFlag)
                                    THEN BeforeJoins(around, parent) ELSE around)>>)
        ELSE IF binders # <<>> /\ IsBound(binders[1], ParentShadow) THEN Stream(<<>>)
        ELSE ParentOutOfContext

\* The tuples a predicate is true of; a number is true, not a position.
Where(tuples, found) ==
    AndThenAll([i \in DOMAIN tuples |-> AndThen(found[i], LAMBDA v : ToBoolean(v))],
        LAMBDA tests : LET kept == SetToSortSeq({i \in DOMAIN tests : tests[i].boolean}, <)
                       IN  Stream([k \in DOMAIN kept |-> tuples[kept[k]]]))

\* Mutant: a number selects by its truth.
FilterTuplesByTruth(n, tuples) ==
    Where(tuples, [i \in DOMAIN tuples |-> EvalOperand(n, tuples[i].value, tuples[i].env)])
\* filter_tuple_ctxs: positions are of the whole stream.
FilterTuples(n, tuples) ==
    LET Held(i, test) ==
            LET list == IsIndexList(test)
                position == NumericIndex(test)
                positions == IF list = Boolean(TRUE) THEN test.array ELSE <<test>>
            IN  AndThenAll(<<test, list, position>>, LAMBDA ok :
                    IF list = Boolean(TRUE) \/ position # Undefined
                    THEN Boolean(\E p \in DOMAIN positions : PlaceOf(positions[p], Len(tuples)) = i)
                    ELSE ToBoolean(test))
    IN  AndThenAll([i \in DOMAIN tuples |->
                       Held(i, EvalOperand(n, tuples[i].value, tuples[i].env))], LAMBDA held :
            LET kept == SetToSortSeq({i \in DOMAIN held : held[i].boolean}, <)
            IN  Stream([k \in DOMAIN kept |-> tuples[kept[k]]]))

\* %[...]
EvalTupleParentPredStep(predicate, tuples) ==
    AndThen(EachTuple(tuples, LAMBDA t : ParentTuples(t, FALSE)), LAMBDA parents :
        FilterTuples(predicate, parents.tuples))

-----------------------------------------------------------------------------
(* Steps with a predicate *)

IsPathBlock(n) == n.k = "Block" /\ Len(n.kids) = 1 /\ n.kids[1].k = "Path"
\* (...)[...], the predicate having a %.
EvalTupleBlockPredStep(block, predicate, tuples) ==
    LET WalkedBlock(t) == IF IsPathBlock(block) THEN ExpandPathTuple(block.kids[1].kids, <<t>>)
                          ELSE Stream(<<>>)
        Evaluated(t) == AndThen(Ev(block, t.value, t.env), LAMBDA v :
            Stream([i \in DOMAIN Items(v) |-> Tuple(Items(v)[i], t.env)]))
        Asked(found) ==
            Where(found, [j \in DOMAIN found |-> Ev(predicate, found[j].value, found[j].env)])
    IN  EachTuple(tuples, LAMBDA t :
            AndThen(WalkedBlock(t), LAMBDA walked :
            AndThen(IF walked.tuples # <<>> THEN walked ELSE Evaluated(t), LAMBDA found :
                Asked(found.tuples))))

\* name@$v[...]: the predicate is asked of the item, in the scope of the join.
EvalJoinFilter(name, predicate, tuples) ==
    EachTuple(tuples, LAMBDA t :
        LET val == Collapsed(t.value) IN
        IF val = Undefined THEN Stream(<<>>)
        ELSE AndThen(EvalPathStep(name, val, t.env, FALSE, FALSE), LAMBDA result :
                LET joined == Successors(val, t.env, result,
                                         [index |-> <<>>, focus |-> name.focus], TRUE).tuples
                    numbered == [j \in DOMAIN joined |->
                        [joined[j] EXCEPT !.env = BindAll(@, name.index, Number(j - 1))]]
                    Asked(u) == Ev(predicate, Lookup(u.env, name.focus[1]), u.env)
                IN  Where(numbered, [j \in DOMAIN numbered |-> Asked(numbered[j])])))
\* name@$v[...]#$w
EvalTupleJoinStep(step, tuples) ==
    AndThen(EvalJoinFilter(step.kids[1], step.kids[2], tuples), LAMBDA s :
        Stream([k \in DOMAIN s.tuples |->
            [s.tuples[k] EXCEPT !.env = BindAll(@, step.index, Number(k - 1))]]))
\* name@$v[...][n]: the second predicate is asked of the first tuple, and if
\* it is a number it is the one tuple that is kept.
EvalTupleCompoundJoin(step, tuples) ==
    LET inner == step.kids[1] IN
    AndThen(EvalJoinFilter(inner.kids[1], inner.kids[2], tuples), LAMBDA s :
        IF s.tuples = <<>> THEN s
        ELSE AndThen(Ev(step.kids[2], s.tuples[1].value, s.tuples[1].env), LAMBDA v :
                LET place == PlaceOf(Number(Truncated(Halves(v), 2)), Len(s.tuples)) IN
                IF ~IsNumber(v) THEN s
                ELSE Stream(IF place \in DOMAIN s.tuples THEN <<s.tuples[place]>> ELSE <<>>)))

-----------------------------------------------------------------------------
(* Steps *)

\* eval_path_step_no_group: the group of a step waits for the end.
StepUngrouped(step, val, env, keep) ==
    IF step.k = "Name" /\ step.group # <<>> THEN EvalName(step.v, val)
    ELSE IF step.k = "Variable" /\ step.group # <<>> THEN EvalVariable(step.v, val, env)
    ELSE EvalPathStep(step, val, env, FALSE, keep)
\* A path that starts at $ or $$ has no parent there.
EvalTupleGeneralStep(step, first, tuples, keep) ==
    EachTuple(tuples, LAMBDA t :
        LET val == Collapsed(t.value)
            parented == ~(first /\ step.k = "Variable" /\ step.v \in {"", "$"})
        IN  IF ~first /\ val = Undefined THEN Stream(<<>>)
            ELSE AndThen(StepUngrouped(step, val, t.env, keep), LAMBDA result :
                    Successors(val, t.env, result, StepBindings(step), parented)))

IsJoin(n) == n.k = "Name" /\ n.focus # <<>>
EvalTupleStep(step, first, tuples, keep) ==
    LET filtered == IF IsBinary(step, "[") THEN step.kids[1] ELSE step IN
    IF step.k = "Parent" THEN EachTuple(tuples, LAMBDA t : ParentTuples(t, TRUE))
    ELSE IF IsPathBlock(step) THEN ExpandPathTuple(step.kids[1].kids, tuples)
    ELSE IF ~IsBinary(step, "[") THEN EvalTupleGeneralStep(step, first, tuples, keep)
    ELSE CASE filtered.k = "Parent" -> EvalTupleParentPredStep(step.kids[2], tuples)
           [] filtered.k = "Block" /\ RefersToParent(step.kids[2]) ->
                 EvalTupleBlockPredStep(filtered, step.kids[2], tuples)
           [] IsJoin(filtered) -> EvalTupleJoinStep(step, tuples)
           [] IsBinary(filtered, "[") /\ IsJoin(filtered.kids[1]) ->
                 EvalTupleCompoundJoin(step, tuples)
           [] OTHER -> EvalTupleGeneralStep(step, first, tuples, keep)

\* A sort as a step: all the tuples are sorted together.
EvalTupleSortStep(n, tuples) ==
    LET operand == n.kids[1]
        Leads(t) == IF operand.k = "Path" THEN ExpandPathTuple(operand.kids, <<t>>)
                    ELSE AndThen(Ev(operand, t.value, t.env), LAMBDA result :
                             Successors(t.value, t.env, result, StepBindings(operand), TRUE))
    IN  AndThen(IF operand.k = "Variable" THEN Stream(tuples) ELSE EachTuple(tuples, Leads),
            LAMBDA s : AndThen(SortTuples(n, s.tuples), LAMBDA sorted : Stream(sorted.array)))

-----------------------------------------------------------------------------
CollectTupleResults(tuples, keep) ==
    LET all == FlattenSeq([i \in DOMAIN tuples |-> Spliced(tuples[i].value)])
    IN  IF keep /\ all # <<>> THEN Sequence(all, TRUE) ELSE IntoValue(all, FALSE)

\* A group of a step is the group of the path.  A step that leads nowhere
\* ends the path; a sort does not.
EvalPathTuple(n, input, env) ==
    LET grouped == SelectSeq(n.kids, LAMBDA s :
                       s.k \in {"Name", "Variable", "Function"} /\ s.group # <<>>)
        group == IF grouped # <<>> THEN grouped[1].group ELSE n.group
        Take(stream, i) ==
            LET step == n.kids[i]
                next == IF step.k = "Sort" THEN EvalTupleSortStep(step, stream.tuples)
                        ELSE EvalTupleStep(step, i = 1, stream.tuples, n.keep)
            IN  IF "tuples" \notin DOMAIN stream THEN stream
                ELSE IF step.k # "Sort" /\ next = Stream(<<>>) THEN Undefined ELSE next
        end == FoldLeft(Take, Stream(<<Tuple(input, env)>>), [i \in DOMAIN n.kids |-> i])
    IN  IF "tuples" \notin DOMAIN end THEN end
        ELSE IF group # <<>> THEN EvalTupleGroup(group[1], end.tuples)
        ELSE CollectTupleResults(end.tuples, n.keep)

EvalPath(n, input, env) ==
    IF HasTupleStep(n) THEN EvalPathTuple(n, input, env) ELSE EvalPathSimple(n, input, env)
=============================================================================

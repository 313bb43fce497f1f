------------------------------- MODULE Sorting -------------------------------
(***************************************************************************)
(* Sorting by comparisons that may fail (try_sort.rs), and the ^(...) of   *)
(* an expression (evaluator/mod.rs).  TrySort.tla models the merges one    *)
(* comparison at a time; here they are a function of the items.            *)
(***************************************************************************)
EXTENDS Grouping

\* try_sort_by: runs are merged in pairs, from runs of one item, until one
\* is left.  The right run goes first only if it is less: order[i, j]
\* is how item i compares with item j.
TrySortBy(items, order) ==
    LET RECURSIVE Merge(_, _), Passes(_)
        Merge(l, r) ==
            IF l = <<>> \/ r = <<>> THEN Array(l \o r)
            ELSE AndThen(order[Head(r), Head(l)], LAMBDA o :
                    IF o.number < 0
                    THEN AndThen(Merge(l, Tail(r)), LAMBDA m : Array(<<Head(r)>> \o m.array))
                    ELSE AndThen(Merge(Tail(l), r), LAMBDA m : Array(<<Head(l)>> \o m.array)))
        Passes(runs) ==
            IF Len(runs) < 2 THEN Array(FlattenSeq(runs))
            ELSE AndThenAll([i \in 1 .. (Len(runs) + 1) \div 2 |->
                                IF 2 * i <= Len(runs) THEN Merge(runs[2 * i - 1], runs[2 * i])
                                ELSE Array(runs[2 * i - 1])],
                            LAMBDA merged : Passes([i \in DOMAIN merged |-> merged[i].array]))
    IN  AndThen(Passes([i \in DOMAIN items |-> <<i>>]), LAMBDA sorted :
            Array([k \in DOMAIN items |-> items[sorted.array[k]]]))

\* Mutant: the direction of a term is forgotten.
CompareAscending(directions, keys, others) ==
    FoldLeft(LAMBDA order, i :
        IF order # Number(0) THEN order
        ELSE AndThenAll(<<keys[i], others[i]>>, LAMBDA pair : CompareOrder(pair[1], pair[2])),
        Number(0), [i \in DOMAIN directions |-> i])
\* The terms in turn, until one tells the two apart; the keys after it are
\* not looked at.
CompareTerms(directions, keys, others) ==
    FoldLeft(LAMBDA order, i :
        IF order # Number(0) THEN order
        ELSE AndThenAll(<<keys[i], others[i]>>, LAMBDA pair :
                AndThen(CompareOrder(pair[1], pair[2]), LAMBDA o :
                    Number(IF directions[i] = ">" THEN -o.number ELSE o.number))),
        Number(0), [i \in DOMAIN directions |-> i])
\* The items sorted by their keys, one for each term.
SortByKeys(n, items, keys) ==
    TrySortBy(items, [i, j \in DOMAIN items |-> CompareTerms(n.words, keys[i], keys[j])])
\* compare_sort_terms: a term is evaluated on each item, in its own scope.
SortTuples(n, tuples) ==
    SortByKeys(n, tuples, [i \in DOMAIN tuples |-> [t \in DOMAIN n.words |->
        EvalOperand(n.kids[t + 1], tuples[i].value, tuples[i].env)]])

SortedSequence(arr) == IF Len(arr) = 1 THEN Sequence(arr, FALSE) ELSE Array(arr)
\* sort_evaluated_items: terms that are names are read as fields at once.
SortEvaluatedItems(n, arr, env) ==
    LET simple == Lifts(env) /\ \A term \in ToSet(Tail(n.kids)) : term.k = "Name"
        sorted == IF simple
                  THEN SortByKeys(n, arr, [i \in DOMAIN arr |-> [t \in DOMAIN n.words |->
                           GetField(arr[i], n.kids[t + 1].v)]])
                  ELSE AndThen(SortTuples(n, [i \in DOMAIN arr |-> Tuple(arr[i], env)]),
                           LAMBDA s : Array([i \in DOMAIN s.array |-> s.array[i].value]))
    IN  IF arr = <<>> THEN Undefined
        ELSE AndThen(sorted, LAMBDA s : SortedSequence(s.array))

RECURSIVE SortOperandNavigates(_)
SortOperandNavigates(n) ==
    n.k \in {"Name", "Wildcard"} \/ (IsBinary(n, "[") /\ SortOperandNavigates(n.kids[1]))
\* build_sort_ctxs: what is sorted, with the way to its parents.
SortContexts(operand, input, env) ==
    IF operand.k = "Path" THEN ExpandPathTuple(operand.kids, <<Tuple(input, env)>>)
    ELSE IF SortOperandNavigates(operand)
    THEN ExpandPathTuple(<<operand>>, <<Tuple(input, env)>>)
    ELSE AndThen(Ev(operand, input, env), LAMBDA v :
            Stream([i \in DOMAIN Items(v) |-> Tuple(Items(v)[i], env)]))
EvalSortWithParents(n, input, env) ==
    AndThen(SortContexts(n.kids[1], input, env), LAMBDA s :
        AndThen(SortTuples(n, s.tuples), LAMBDA sorted :
            LET all == FlattenSeq([i \in DOMAIN sorted.array |-> Spliced(sorted.array[i].value)])
            IN  IF all = <<>> THEN Undefined ELSE SortedSequence(all)))

EvalSort(n, input, env) ==
    LET operand == n.kids[1]
        pathKeeps == operand.k = "Path" /\ operand.keep
        MarkedIf(keeps, v) == IF keeps THEN MarkKeepSingleton(v) ELSE v
    IN  IF \E term \in ToSet(Tail(n.kids)) : RefersToParent(term)
        THEN MarkedIf(pathKeeps, EvalSortWithParents(n, input, env))
        ELSE AndThen(Ev(operand, input, env), LAMBDA v :
                LET arr == IF IsSequence(v) THEN v.sequence ELSE Items(v)
                IN  MarkedIf(pathKeeps \/ (IsSequence(v) /\ v.keep),
                             SortEvaluatedItems(n, arr, env)))
=============================================================================

----------------------------- MODULE HigherOrder -----------------------------
(***************************************************************************)
(* The builtins that take functions (stdlib/hof.rs).  Each of them tries   *)
(* the lifts it knows before it calls the function for every item.         *)
(***************************************************************************)
EXTENDS TupleStream

\* Mutant: the sequence of a callback is put into the array as it is.
EmbeddedRaw(v) == v
\* embed_callback_result
Embedded(v) == IF IsSequence(v) THEN Array(v.sequence) ELSE v
\* hof_args: a lambda gets as many as it has parameters for, up to three.
HofArgs(f, item, second, third) ==
    LET arity == IF IsLambda(f) THEN Len(f.lambda.params) ELSE 1
    IN  SubSeq(<<item, second, third>>, 1, Min({arity, 3}))
\* What a function answers for each item of an array, and its place in it.
CallOnItems(f, items, env) ==
    [i \in DOMAIN items |->
        CallFunction(f, HofArgs(f, items[i], Number(i - 1), Array(items)), items[i], env)]
\* The items that a test is true of.
Chosen(items, tests) ==
    AndThenAll([i \in DOMAIN items |-> AndThen(tests[i], LAMBDA v : ToBoolean(v))],
        LAMBDA held : LET places == SetToSortSeq({i \in DOMAIN held : held[i].boolean}, <)
                      IN  Array([p \in DOMAIN places |-> items[places[p]]]))

FnMap(args, env) ==
    LET f == args[2]
        lifted == FastLambda(f)
        call == IF IsLambda(f) /\ f.lambda.params # <<>>
                THEN AnalyzeMappedCall(f.lambda.body, <<f.lambda.params[1]>>, f.lambda.closure)
                ELSE <<>>
        items == Items(args[1])
        Answer(item) ==
            IF HasShape(lifted, {"FieldAccess"}) THEN GetField(item, lifted[1].field)
            ELSE IF HasShape(lifted, {"ConcatTemplate"}) THEN EvalConcatTemplate(item, lifted[1])
            ELSE ExecMappedCall(call[1], item, f.lambda.closure)
        results == IF HasShape(lifted, {"FieldAccess", "ConcatTemplate"}) \/ call # <<>>
                   THEN [i \in DOMAIN items |-> Answer(items[i])] ELSE CallOnItems(f, items, env)
    IN  IF Len(args) < 2 THEN Error("T0410")
        ELSE IF args[1] = Undefined THEN Undefined
        ELSE IF ~IsFunction(f) THEN Error("T0410")
        ELSE AndThenAll(results, LAMBDA answers :
                LET found == SelectSeq(answers, LAMBDA v : v # Undefined)
                IN  Sequence([i \in DOMAIN found |-> Embedded(found[i])], FALSE))

FnFilter(args, env) ==
    LET f == args[2]
        lifted == FastLambda(f)
        items == Items(args[1])
        tests == IF HasShape(lifted, PredicateShapes)
                 THEN [i \in DOMAIN items |-> EvalPredicate(items[i], lifted[1])]
                 ELSE CallOnItems(f, items, env)
    IN  IF Len(args) < 2 THEN Error("T0410")
        ELSE IF args[1] = Undefined THEN Undefined
        ELSE IF ~IsFunction(f) THEN Error("T0410")
        ELSE AndThen(Chosen(items, tests), LAMBDA kept : Sequence(kept.array, FALSE))

\* Without an initial value the first item is it.
FnReduce(args, env) ==
    LET f == args[2]
        lifted == FastLambda(f)
        items == Items(args[1])
        start == IF Len(args) > 2 THEN 1 ELSE 2
        count == IF IsLambda(f) THEN Len(f.lambda.params) ELSE 2
        ArgsOf(acc, i) == SubSeq(<<acc, items[i], Number(i - 1), Array(items)>>, 1, Min({count, 4}))
        Fold(acc, i) ==
            AndThen(acc, LAMBDA v :
                IF HasShape(lifted, ReduceShapes) THEN EvalAccum(v, items[i], lifted[1])
                ELSE Collapsed(CallFunction(f, ArgsOf(v, i), items[i], env)))
    IN  IF Len(args) < 2 THEN Error("T0410")
        ELSE IF args[1] = Undefined THEN Undefined
        ELSE IF ~IsFunction(f) THEN Error("T0410")
        ELSE IF count < 2 THEN Error("D3050")
        ELSE IF items = <<>> THEN IF Len(args) > 2 THEN args[3] ELSE Undefined
        ELSE FoldLeft(Fold, IF Len(args) > 2 THEN args[3] ELSE items[1],
                      [k \in 1 .. Len(items) - start + 1 |-> start + k - 1])

\* What a function answers for each field of an object.
CallOnFields(f, obj, env) ==
    [i \in DOMAIN Keys(obj) |->
        LET v == obj.object[Keys(obj)[i]]
        IN  CallFunction(f, HofArgs(f, v, Text(Keys(obj)[i]), obj), v, env)]
\* The object and the function, the first of them the focus if left out.
OfFocus(args) == Len(args) = 1 /\ IsFunction(args[1])
ObjectArgs(args, focus) == IF OfFocus(args) THEN <<focus>> \o args ELSE args
FnEach(args, focus, env) ==
    LET given == IF Len(args) = 1 /\ ~OfFocus(args) THEN Append(args, focus)
                 ELSE ObjectArgs(args, focus)
        obj == given[1]
    IN  IF args = <<>> THEN Error("T0410")
        ELSE IF obj = Undefined THEN Undefined
        ELSE IF ~IsObject(obj) THEN Error(IF OfFocus(args) THEN "T0411" ELSE "T0410")
        ELSE IF ~IsFunction(given[2]) THEN Error("T0410")
        ELSE AndThenAll(CallOnFields(given[2], obj, env), LAMBDA answers :
                LET found == SelectSeq(answers, LAMBDA v : v # Undefined)
                IN  Sequence([i \in DOMAIN found |-> Embedded(found[i])], FALSE))
FnSift(args, focus, env) ==
    LET given == ObjectArgs(args, focus)
        obj == given[1]
    IN  IF args = <<>> \/ (Len(args) = 1 /\ ~OfFocus(args)) THEN Error("T0410")
        ELSE IF obj = Undefined THEN Undefined
        ELSE IF ~IsFunction(given[2]) THEN Error("T0410")
        ELSE IF ~IsObject(obj) THEN Error(IF OfFocus(args) THEN "T0411" ELSE "T0410")
        ELSE AndThen(Chosen(Keys(obj), CallOnFields(given[2], obj, env)), LAMBDA kept :
                IF kept.array = <<>> THEN Undefined
                ELSE Object([k \in ToSet(kept.array) |-> obj.object[k]]))

\* A comparator says that its first argument goes after its second.
FnSort(args, focus, env) ==
    LET given == ObjectArgs(args, focus)
        items == Items(given[1])
        f == given[2]
        lifted == FastLambda(f)
        After(left, right) ==
            IF HasShape(lifted, {"SortComparator"})
            THEN ApplyBinaryOp(lifted[1].op, GetField(left, lifted[1].field),
                               GetField(right, lifted[1].field))
            ELSE CallFunction(f, <<left, right>>, right, env)
        ByFunction(right, left) ==
            AndThen(After(left, right), LAMBDA v : AndThen(ToBoolean(v), LAMBDA swap :
                Number(IF swap.boolean THEN -1 ELSE 0)))
        ByValue(right, left) ==
            LET order == CompareOrder(right, left)
            IN  IF IsError(order) THEN Error("D3070") ELSE order
    IN  IF args = <<>> \/ (Len(args) > 1 /\ ~IsFunction(args[2])) THEN Error("T0410")
        ELSE IF given[1] = Undefined THEN Undefined
        ELSE IF Len(items) < 2 THEN Array(items)
        ELSE TrySortBy(items, [i, j \in DOMAIN items |->
                 IF Len(given) = 1 THEN ByValue(items[i], items[j])
                 ELSE ByFunction(items[i], items[j])])

FnSingle(args, env) ==
    LET f == args[2]
        lifted == FastLambda(f)
        items == Items(args[1])
        tests == IF Len(args) = 1 THEN [i \in DOMAIN items |-> Boolean(TRUE)]
                 ELSE IF HasShape(lifted, {"FieldPredicate", "CompoundPredicate"})
                 THEN [i \in DOMAIN items |-> EvalPredicate(items[i], lifted[1])]
                 ELSE CallOnItems(f, items, env)
        \* The second item that is found ends the search.
        FoundBy(i) == {j \in 1 .. i : ToBoolean(tests[j]) = Boolean(TRUE)}
        upTo == Min({i \in DOMAIN items : Cardinality(FoundBy(i)) = 2} \cup {Len(items)})
    IN  IF args = <<>> THEN Error("T0410")
        ELSE IF args[1] = Undefined THEN Undefined
        ELSE IF Len(args) > 1 /\ ~IsFunction(f) THEN Error("T0410")
        ELSE AndThen(Chosen(SubSeq(items, 1, upTo), tests), LAMBDA kept :
                IF Len(kept.array) = 1 THEN kept.array[1]
                ELSE Error(IF kept.array = <<>> THEN "D3139" ELSE "D3138"))

HigherOrderFunctions == {"map", "filter", "reduce", "each", "sift", "sort", "single"}
\* register_all: a builtin by its name.
CallBuiltinByName(name, args, focus, env) ==
    CASE name = "map" -> FnMap(args, env)
      [] name = "filter" -> FnFilter(args, env)
      [] name = "reduce" -> FnReduce(args, env)
      [] name = "each" -> FnEach(args, focus, env)
      [] name = "sift" -> FnSift(args, focus, env)
      [] name = "sort" -> FnSort(args, focus, env)
      [] name = "single" -> FnSingle(args, env)
      [] name \in LibraryFunctions -> CallLibrary(name, args, focus)
=============================================================================

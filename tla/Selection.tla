------------------------------ MODULE Selection ------------------------------
(***************************************************************************)
(* What an expression takes out of its input: a name, the fields *, the    *)
(* descendants ** (evaluator/mod.rs), and the predicates and positions of  *)
(* lhs[rhs] (evaluator/subscript.rs).                                      *)
(***************************************************************************)
EXTENDS Scopes

\* What appending a value to a sequence adds to it.
Spliced(v) == CASE v = Undefined -> <<>>
                [] IsSequence(v) -> v.sequence
                [] OTHER -> <<v>>

\* Of Evaluator.tla, what is not about the values of one set of documents.
Core == INSTANCE Evaluator WITH Value <- {}, Height <- <<>>

RECURSIVE EvalName(_, _)
\* A name, in a value or in every item of an array.
EvalName(name, v) ==
    CASE IsSequence(v) -> EvalName(name, Collapsed(v))
      [] IsObject(v) -> FieldOf(v, name)
      [] IsArray(v) -> Core!MappedOver([i \in DOMAIN v.array |-> EvalName(name, v.array[i])])
      [] OTHER -> Undefined

RECURSIVE EvalWildcard(_)
\* The fields of an object, with what is in arrays; in an array, those of
\* its objects, and its other items.
EvalWildcard(v) ==
    CASE IsObject(v) ->
            IntoValue(FlattenSeq([i \in DOMAIN Keys(v) |-> Items(v.object[Keys(v)[i]])]), FALSE)
      [] IsArray(v) ->
            IntoValue(FlattenSeq([i \in DOMAIN v.array |->
                IF IsObject(v.array[i]) THEN Spliced(EvalWildcard(v.array[i]))
                ELSE <<v.array[i]>>]), FALSE)
      [] OTHER -> Undefined

RECURSIVE CollectDescendants(_)
\* Every value inside, arrays being transparent as fields of an object.
CollectDescendants(v) ==
    LET WithBelow(s) == FlattenSeq([i \in DOMAIN s |-> <<s[i]>> \o CollectDescendants(s[i])])
    IN  CASE IsArray(v) -> WithBelow(v.array)
          [] IsObject(v) -> FlattenSeq([i \in DOMAIN Keys(v) |->
                                LET field == v.object[Keys(v)[i]] IN WithBelow(Items(field))])
          [] OTHER -> <<>>

\* A value and its descendants; of an array, the descendants only.
EvalDescendantStep(input) ==
    LET found == (IF IsArray(input) \/ input = Undefined THEN <<>> ELSE <<input>>)
                 \o CollectDescendants(input)
    IN  IF found = <<>> THEN Undefined ELSE Sequence(found, FALSE)

-----------------------------------------------------------------------------
\* The item at a position, if there is one.
At(arr, v) ==
    LET place == PlaceOf(v, Len(arr))
    IN  IF place \in DOMAIN arr THEN arr[place] ELSE Undefined

\* select_by_indices: the items at the positions, in the order of the array.
SelectByIndices(arr, indices, keep) ==
    LET places == SortSeq([i \in DOMAIN indices |-> PlaceOf(indices[i], Len(arr))], <)
        inside == SelectSeq(places, LAMBDA p : p \in DOMAIN arr)
    IN  IntoValue([i \in DOMAIN inside |-> arr[inside[i]]], keep)

\* A list of positions: an error, or whether it is one.
IsIndexList(v) ==
    IF IsArray(v) /\ v.array # <<>> THEN AllNumericIndices(v.array) ELSE Boolean(FALSE)

\* The scope of a predicate: % is the value the operand was taken from.
FilterScope(n, input, env, index) ==
    IF index # <<>> \/ RefersToParent(n) THEN Bind(Child(env), ParentBinding, input) ELSE env

\* A predicate that is an operator with a boolean answer is never a position.
CouldBeNumeric(n) ==
    ~(n.k = "Binary" /\ n.v \in Relations \cup {"=", "!=", "and", "or", "in"})

\* The predicate asked of each item, until one answers with a number: that
\* is a position in the whole array.
RECURSIVE FilterFrom(_, _, _, _, _)
FilterFrom(i, n, arr, env, index) ==
    IF i > Len(arr) THEN Array(<<>>)
    ELSE LET test == EvalOperand(n, arr[i], BindAll(env, index, Number(i - 1)))
             position == NumericIndex(test)
             truth == ToBoolean(test)
             rest == FilterFrom(i + 1, n, arr, env, index)
         IN  CASE IsError(test) -> test
               [] IsError(position) -> position
               [] IsNumber(position) -> [decided |-> At(arr, position)]
               [] OTHER -> IF IsError(truth) THEN truth
                           ELSE IF truth.boolean /\ IsArray(rest)
                           THEN Array(<<arr[i]>> \o rest.array) ELSE rest
Filtered(n, arr, env, index) ==
    LET r == FilterFrom(1, n, arr, env, index)
    IN  CASE "decided" \in DOMAIN r -> r.decided
          [] IsArray(r) -> IntoValue(r.array, FALSE)
          [] OTHER -> r

\* eval_subscript on an array: the predicate is tried on the first item, and
\* if it answers with positions nothing else is asked.
EvalSubscriptArray(n, arr, input, env, index, keep) ==
    LET scope == FilterScope(n, input, env, index)
        probe == IF arr # <<>> /\ CouldBeNumeric(n)
                 THEN EvalOperand(n, arr[1], scope) ELSE Undefined
        list == IsIndexList(probe)
        position == NumericIndex(probe)
    IN  CASE IsError(probe) -> Filtered(n, arr, scope, index)
          [] IsError(list) -> list
          [] IsError(position) -> position
          [] list = Boolean(TRUE) -> SelectByIndices(arr, probe.array, keep)
          [] IsNumber(position) -> At(arr, position)
          [] OTHER -> Filtered(n, arr, scope, index)

\* eval_subscript_single: a value is the array of itself.
EvalSubscriptSingle(n, left, input, env, keep) ==
    LET test == EvalOperand(n, left, FilterScope(n, input, env, <<>>))
        list == IsIndexList(test)
        position == NumericIndex(test)
        truth == ToBoolean(test)
    IN  CASE IsError(test) -> test
          [] IsError(list) -> list
          [] IsError(position) -> position
          [] list = Boolean(TRUE) ->
                IF left = Undefined THEN Undefined
                ELSE SelectByIndices(<<left>>, test.array, keep)
          [] IsNumber(position) -> At(<<left>>, position)
          [] OTHER -> IF IsError(truth) THEN truth
                      ELSE IF truth.boolean THEN left ELSE Undefined

\* eval_subscript_binary.  Of a ** the value it starts from is an item too.
EvalSubscriptBinary(n, input, env) ==
    LET lhs == n.kids[1]
        left == IF lhs.k = "Descendant"
                THEN IntoValue((IF input = Undefined THEN <<>> ELSE <<input>>)
                               \o CollectDescendants(input), FALSE)
                ELSE Ev(lhs, input, env)
        index == IF lhs.k \in {"Name", "Variable", "Binary", "Sort"} THEN lhs.index ELSE <<>>
        keep == HasKeepArray(n)
        arr == IF IsSequence(left) THEN left.sequence
               ELSE IF IsArray(left) THEN left.array ELSE <<left>>
        result == IF IsArray(left) \/ IsSequence(left) \/ index # <<>>
                  THEN EvalSubscriptArray(n.kids[2], arr, input, env, index, keep)
                  ELSE EvalSubscriptSingle(n.kids[2], left, input, env, keep)
    IN  IF IsError(left) THEN left
        ELSE IF keep THEN MarkKeepSingleton(result) ELSE result
=============================================================================

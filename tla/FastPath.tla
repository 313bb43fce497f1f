-------------------------------- MODULE FastPath --------------------------------
(***************************************************************************)
(* The fast paths (fast_path.rs) and the entry points that try them        *)
(* (EntryPoints).  Compilation classifies an expression; an evaluation     *)
(* first offers the input to the class's own evaluator, which answers or   *)
(* defers, and runs the general evaluator when it defers.  A pure path is  *)
(* also tried on the tape of a document that is still text.  The property  *)
(* of all this is that nobody can tell: every answer is the one of the     *)
(* general evaluator.                                                      *)
(***************************************************************************)
EXTENDS Evaluator

CONSTANTS Exprs,       \* the expressions compiled
          Documents    \* the documents they are evaluated on

VARIABLES expr,        \* the compiled expression
          input,       \* the document
          bound,       \* the builtins the caller's bindings shadow
          phase,       \* "called", "parsed", "deferred" or "done"
          answer       \* the result, once done

Deferred == [deferred |-> TRUE]

\* A scalar has a key that tells it from every other.
IsScalar(v) == IsText(v) \/ IsNumber(v) \/ IsBoolean(v) \/ v = Null

\* The expressions: the {...} and [] postfixes bind to a path, a call, the name
\* that is called or an array constructor, never to a literal or a comparison.
IsListed(s) == Len(s) \in Nat /\ DOMAIN s = 1 .. Len(s)
IsPath(e) == /\ e.kind = "path" /\ e.postfix \in {"none", "keep", "group"}
             /\ e.segments \in Seq(STRING) \ {<<>>}
IsOperand(e) == \/ IsPath(e)
                \/ /\ e.kind = "literal" /\ e.postfix = "none"
                   /\ IsScalar(e.value) /\ IsJson(e.value)
IsArgument(e) == \/ IsOperand(e)
                 \/ /\ e.kind = "array" /\ e.postfix \in {"none", "keep", "group"}
                    /\ IsListed(e.expressions)
                    /\ \A i \in DOMAIN e.expressions : IsOperand(e.expressions[i])
ASSUME ExpressionsAreShallow ==
    \A e \in Exprs :
        \/ IsPath(e)
        \/ /\ e.kind = "binary" /\ e.postfix = "none" /\ e.op \in {"Eq", "Ne"}
           /\ IsArgument(e.lhs) /\ IsArgument(e.rhs)
        \/ /\ e.kind = "function" /\ {e.postfix, e.procedure} \subseteq {"none", "keep", "group"}
           /\ IsListed(e.arguments) /\ e.arguments # <<>>
           /\ \A i \in DOMAIN e.arguments : IsArgument(e.arguments[i])
ASSUME DocumentsAreValues == Documents \subseteq Value

--------------------------------------------------------------------------------
(* Classification, at compile time *)

CollectsPurePath(e) == e.kind = "path" /\ e.postfix = "none"

FastKinds == Aggregates \cup StringKinds \cup NumericKinds
             \cup {"exists", "string", "boolean", "number", "not", "type", "keys",
                   "values", "count", "reverse", "distinct", "shuffle", "flatten"}

\* A mutation of UnwrapsArrayConstructor: every builtin does.
UnwrapsForAll(name) == TRUE

\* $f([path]) may be read as $f(path) by the aggregates only.
UnwrapsArrayConstructor(name) == name \in Aggregates \cup {"count"}

InnerArgument(e) ==
    LET arg == e.arguments[1]
    IN  IF arg.kind = "array" /\ Len(arg.expressions) = 1 /\ UnwrapsArrayConstructor(e.name)
        THEN arg.expressions[1]
        ELSE arg

TriesComparison(e) ==
    /\ e.kind = "binary"
    /\ CollectsPurePath(e.lhs)
    /\ e.rhs.kind = "literal"

\* Of the postfixes of a call and of the name it calls, the call's alone are
\* looked at.
TriesFunction(e) ==
    /\ e.kind = "function" /\ e.postfix = "none"
    /\ e.name \in FastKinds
    /\ Len(e.arguments) = IF e.name = "contains" THEN 2 ELSE 1
    /\ e.name = "contains" => /\ e.arguments[2].kind = "literal"
                              /\ IsText(e.arguments[2].value)
    /\ CollectsPurePath(InnerArgument(e))

FastClass(e) == CASE CollectsPurePath(e) -> "PurePath"
                  [] TriesComparison(e) -> "Comparison"
                  [] TriesFunction(e) -> "Function"
                  [] OTHER -> "None"

--------------------------------------------------------------------------------
(* Walking a path *)

\* What one more result adds to the items collected over an array.
Collect(found, r) ==
    CASE r = Undefined -> found
      [] IsArray(r) -> [any |-> TRUE, items |-> found.items \o r.array]
      [] OTHER -> [any |-> TRUE, items |-> Append(found.items, r)]
Nothing == [any |-> FALSE, items |-> <<>>]

\* The items over an array, collapsed.
Collected(results) ==
    LET all == FoldLeft(Collect, Nothing, results)
    IN  IF all.items = <<>>
        THEN IF all.any THEN Array(<<>>) ELSE Undefined
        ELSE IntoValue(all.items, FALSE)

StepIn(inside, segment, v) ==
    CASE IsObject(v) -> FieldOf(v, segment)
      [] IsArray(v) -> Collected([i \in DOMAIN v.array |-> inside[v.array[i]]])
      [] OTHER -> Undefined
PathStep(segment, v) ==
    LET inside[u \in Value] == StepIn(inside, segment, u) IN StepIn(inside, segment, v)

EvalPurePath(segments, v) == FoldLeft(LAMBDA u, s : PathStep(s, u), v, segments)

\* The nodes the tape walk holds between two steps: none, one, or many that
\* were collected and belong to no array of the document.
NoNode == [none |-> TRUE]
One(node) == [one |-> node]
Many(nodes) == [many |-> nodes]

\* A mutation of CollectNodes: an array found in a field is not flattened.
CollectNodesWhole(found, step) ==
    CASE step = NoNode -> found
      [] "one" \in DOMAIN step -> [any |-> TRUE, items |-> Append(found.items, step.one)]
      [] OTHER -> [any |-> TRUE, items |-> found.items \o step.many]

CollectNodes(found, step) ==
    CASE step = NoNode -> found
      [] "one" \in DOMAIN step -> Collect(found, step.one)
      [] OTHER -> [any |-> TRUE, items |-> found.items \o step.many]

TapeStepOver(steps) ==
    LET all == FoldLeft(CollectNodes, Nothing, steps)
    IN  CASE all.items = <<>> /\ ~all.any -> NoNode
          [] Len(all.items) = 1 -> One(all.items[1])
          [] OTHER -> Many(all.items)

TapeIn(inside, segment, node) ==
    CASE IsObject(node) -> IF segment \in DOMAIN node.object
                           THEN One(node.object[segment]) ELSE NoNode
      [] IsArray(node) -> TapeStepOver([i \in DOMAIN node.array |-> inside[node.array[i]]])
      [] OTHER -> NoNode
TapePathStep(segment, node) ==
    LET inside[u \in Value] == TapeIn(inside, segment, u) IN TapeIn(inside, segment, node)

TapeNext(cur, segment) ==
    CASE cur = NoNode -> NoNode
      [] "one" \in DOMAIN cur -> TapePathStep(segment, cur.one)
      [] OTHER -> TapeStepOver([i \in DOMAIN cur.many |-> TapePathStep(segment, cur.many[i])])

TapeWalk(root, segments) ==
    LET last == FoldLeft(TapeNext, One(root), segments)
    IN  CASE last = NoNode -> Undefined
          [] "one" \in DOMAIN last -> last.one
          [] OTHER -> Array(last.many)

EvalTapePath(e, v) == IF FastClass(e) = "PurePath" THEN TapeWalk(v, e.segments) ELSE Deferred

--------------------------------------------------------------------------------
(* Counting and folding without building the result *)

Count(n, found) == [n |-> n, found |-> found]
IsCount(c) == c # Deferred
AddCount(c, d) == IF Deferred \in {c, d} THEN Deferred
                  ELSE Count(c.n + d.n, c.found \/ d.found)

\* A mutation of CountLeaf: an empty array is not found.
CountLeafByNumber(v) ==
    CASE v = Undefined -> Count(0, FALSE)
      [] IsArray(v) -> Count(Len(v.array), v.array # <<>>)
      [] OTHER -> Count(1, TRUE)

\* What the last name of the path holds.
CountLeaf(v) ==
    CASE v = Undefined -> Count(0, FALSE)
      [] IsArray(v) -> Count(Len(v.array), TRUE)
      [] OTHER -> Count(1, TRUE)

\* A leaf inside an array defers when it holds an array itself.
CountLeafInArray(v) ==
    IF IsArray(v) /\ \E i \in DOMAIN v.array : IsArray(v.array[i])
    THEN Deferred
    ELSE CountLeaf(v)

\* The walks that build nothing go down one name at a time: rest is what the
\* names after this one give for each value, and last says there is none.
Reached == Value \cup {Undefined}

\* One item of an array on the way.
CountOne(rest, name, last, item) ==
    CASE IsObject(item) /\ last -> CountLeafInArray(FieldOf(item, name))
      [] IsObject(item) /\ ~last -> rest[FieldOf(item, name)]
      [] IsArray(item) -> Deferred
      [] OTHER -> Count(0, FALSE)

CountIn(rest, name, last, v) ==
    CASE IsObject(v) -> rest[FieldOf(v, name)]
      [] IsArray(v) -> FoldLeft(AddCount, Count(0, FALSE),
                           [i \in DOMAIN v.array |-> CountOne(rest, name, last, v.array[i])])
      [] OTHER -> Count(0, FALSE)

CountPurePath(segments, v) ==
    LET end == Len(segments) + 1
        from[k \in 1 .. end] == [u \in Reached |->
            IF k = end THEN CountLeaf(u)
            ELSE CountIn(from[k + 1], segments[k], k + 1 = end, u)]
    IN  from[1][v]

\* The leaves a fold visits, and whether no array lay inside an array.
Leaves(clean, values) == [clean |-> clean, values |-> values]
JoinLeaves(l, m) == Leaves(l.clean /\ m.clean, l.values \o m.values)
LeavesOf(v) == Leaves(TRUE, Items(v))

FoldOne(rest, name, item) ==
    CASE IsObject(item) -> rest[FieldOf(item, name)]
      [] IsArray(item) -> Leaves(FALSE, <<>>)
      [] OTHER -> Leaves(TRUE, <<>>)

FoldIn(rest, name, v) ==
    IF IsArray(v)
    THEN FoldLeft(JoinLeaves, Leaves(TRUE, <<>>),
                  [i \in DOMAIN v.array |-> FoldOne(rest, name, v.array[i])])
    ELSE FoldOne(rest, name, v)

FoldPurePath(segments, v) ==
    LET end == Len(segments) + 1
        from[k \in 1 .. end] == [u \in Reached |->
            IF k = end THEN LeavesOf(u) ELSE FoldIn(from[k + 1], segments[k], u)]
    IN  from[1][v]

--------------------------------------------------------------------------------
(* The evaluators of the classes *)

\* A mutation of FoldAnswers: a sum of nothing is answered.
FoldAnswersEmpty(name, leaves) ==
    /\ leaves.clean
    /\ \A i \in DOMAIN leaves.values : IsNumber(leaves.values[i])

\* $sum defers without leaves, where the others are undefined.
FoldAnswers(name, leaves) ==
    /\ leaves.clean
    /\ \A i \in DOMAIN leaves.values : IsNumber(leaves.values[i])
    /\ name = "sum" => leaves.values # <<>>

EvalAggregate(name, segments, v) ==
    LET leaves  == FoldPurePath(segments, v)
        numbers == [i \in DOMAIN leaves.values |-> leaves.values[i].number]
    IN  IF ~FoldAnswers(name, leaves) THEN Deferred
        ELSE IF name # "sum" /\ numbers = <<>> THEN Undefined
        ELSE CASE name = "sum" -> Number(FoldLeft(Plus, 0, numbers))
               [] name = "max" -> Number(MaxOf(numbers))
               [] name = "min" -> Number(MinOf(numbers))
               [] name = "average" -> Quotient(FoldLeft(Plus, 0, numbers), Len(numbers))

\* The number of values and whether there is one, exact where it defers.
EvalCount(segments, v) ==
    LET c == CountPurePath(segments, v)
    IN  IF IsCount(c) THEN Number(c.n) ELSE FnCount(EvalPurePath(segments, v))
EvalExists(segments, v) ==
    LET c == CountPurePath(segments, v)
    IN  Boolean(IF IsCount(c) THEN c.found ELSE EvalPurePath(segments, v) # Undefined)

\* A mutation of EvalComparison: undefined differs from everything.
EvalComparisonUndefinedDiffers(op, lhs, rhs) ==
    IF IsArray(lhs) THEN Deferred ELSE Boolean(DeepEqual(lhs, rhs) <=> op = "Eq")

\* An array on the left is left to the general evaluator.
EvalComparison(op, lhs, rhs) ==
    CASE lhs = Undefined -> Boolean(FALSE)
      [] IsArray(lhs) -> Deferred
      [] OTHER -> Boolean(DeepEqual(lhs, rhs) <=> op = "Eq")

\* A defined value under the other builtins, each of which answers for the
\* variants it is simple for and defers the rest, the errors among them.
ApplyFunc(name, v) ==
    CASE name = "type" /\ ~IsInfinite(v) -> FnType(v)
      [] name = "string" /\ IsScalar(v) /\ ~IsInfinite(v) -> FnString(v)
      [] name = "boolean" /\ IsScalar(v) /\ ~IsInfinite(v) -> ToBoolean(v)
      [] name = "not" /\ ~IsError(ToBoolean(v)) -> Boolean(~ToBoolean(v).boolean)
      [] name = "number" /\ (IsNumber(v) \/ IsBoolean(v)) -> FnNumber(v)
      [] name = "number" /\ IsText(v) /\ v.string \in DOMAIN Decimal ->
            Number(Decimal[v.string])
      [] name \in StringKinds /\ IsText(v) -> Primitive(name, v)
      [] name \in NumericKinds /\ IsNumber(v) /\ (name = "sqrt" => v.number >= 0) ->
            Primitive(name, v)
      [] name = "keys" /\ IsObject(v) -> IntoValue(KeyTexts(v), FALSE)
      [] name = "values" /\ IsObject(v) -> Array(FieldValues(v))
      [] name = "reverse" /\ IsArray(v) -> Array(Reverse(v.array))
      [] name = "shuffle" /\ IsArray(v) -> Primitive("shuffle", v.array)
      [] name = "flatten" /\ IsArray(v) -> Array(FlattenRecursive(v.array))
      [] name = "distinct" /\ IsArray(v) /\ \A i \in DOMAIN v.array : IsScalar(v.array[i]) ->
            Array(FoldLeft(LAMBDA kept, item :
                               IF item \in ToSet(kept) THEN kept ELSE Append(kept, item),
                           <<>>, v.array))
      [] OTHER -> Deferred

EvalFunction(name, segments, v) ==
    CASE name = "count" -> EvalCount(segments, v)
      [] name = "exists" -> EvalExists(segments, v)
      [] name \in Aggregates -> EvalAggregate(name, segments, v)
      [] OTHER -> LET val == EvalPurePath(segments, v)
                  IN  IF val = Undefined THEN Undefined ELSE ApplyFunc(name, val)

EvalFast(e, v) ==
    LET class == FastClass(e)
    IN  CASE class = "PurePath" -> EvalPurePath(e.segments, v)
          [] class = "Comparison" ->
                EvalComparison(e.op, EvalPurePath(e.lhs.segments, v), e.rhs.value)
          [] class = "Function" -> EvalFunction(e.name, InnerArgument(e).segments, v)
          [] OTHER -> Deferred

--------------------------------------------------------------------------------
(* The entry points *)

\* What an expression calls by a name that a binding may shadow.
Called(e) == IF e.kind = "function" THEN {e.name} ELSE {}

INSTANCE EntryPoints WITH EvalGeneral <- Eval

--------------------------------------------------------------------------------
(* Properties *)

\* Every variable has its type, and what reaches the caller is a value of the
\* public API: no sequence, whose singleton has not been unwrapped, and no
\* mark of a deferral escapes (mod.rs:94-96).
TypeOK ==
    /\ expr.kind \in {"path", "binary", "function"}
    /\ ~IsSequence(input) /\ ~IsError(input)
    /\ bound \subseteq FastKinds
    /\ phase \in {"called", "parsed", "deferred", "done"}
    /\ ~IsSequence(answer) /\ answer # Deferred

\* A dotted path selects the same values, with the same flattening and
\* unwrapping at every level, on the tape of a text, on a parsed value and
\* in the general evaluator; a comparison of a path with a literal, lifted or
\* not, says what the general evaluator says, undefined and arrays included
\* (eval_tape_path, eval_pure_path, eval_comparison).
PathsTransparent == expr.kind \in {"path", "binary"} => Agrees

\* The argument carries a {...} that the unwrapping of [path] forgets.
GroupedArgument(e) ==
    e.kind = "function" /\ e.arguments[1].kind = "array" /\ e.arguments[1].postfix = "group"

\* The name that is called carries a {...}, so that no function is called; the
\* lifted call takes no notice of it.
GroupedProcedure(e) == e.kind = "function" /\ e.procedure = "group"

HasArrayInArray(v) ==
    LET Below(inside, u) ==
            CASE IsArray(u) -> \E i \in DOMAIN u.array :
                                   IsArray(u.array[i]) \/ inside[u.array[i]]
              [] IsObject(u) -> \E k \in DOMAIN u.object : inside[u.object[k]]
              [] OTHER -> FALSE
        inside[u \in Value] == Below(inside, u)
    IN  Below(inside, v)

\* The builtins that fold or count the matches of a path without building
\* them; a count is exact when no array lies directly in an array.
FoldsSafely(e, v) ==
    ~GroupedArgument(e) /\ (e.name = "count" => ~HasArrayInArray(v))

\* A builtin lifted over a path answers as the call does: the sum, extremes,
\* mean and number of what the path selects although nothing is built, the
\* same value, the same error, and the same treatment of undefined, where the
\* name it calls carries no {...}
\* (eval_function, count_pure_path, fold_pure_path, apply_func).
FunctionsTransparent ==
    /\ expr.kind = "function" /\ ~GroupedProcedure(expr)
    /\ expr.name \in Aggregates \cup {"count", "exists"} => FoldsSafely(expr, input)
    => Agrees

\* What count_pure_path says of itself: the shapes a count cannot reproduce
\* are left to full evaluation, so that $count always agrees.
CountsAgree ==
    /\ expr.kind = "function" /\ expr.name = "count"
    /\ ~GroupedArgument(expr) /\ ~GroupedProcedure(expr)
    => Agrees

\* What unwraps_array_constructor says of itself: $f([path]) and $f(path) feed
\* an aggregate the same elements, the argument's own {...} included.
UnwrappedArgumentsAgree == GroupedArgument(expr) /\ ~GroupedProcedure(expr) => Agrees

\* What try_function says of itself: a call with a postfix that the fast path
\* has nowhere to put is not lifted, one behind the called name included.
GroupedNamesAgree == GroupedProcedure(expr) => Agrees
================================================================================

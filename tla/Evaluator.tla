------------------------------- MODULE Evaluator -------------------------------
(***************************************************************************)
(* The general evaluator (evaluator/mod.rs, path.rs, group.rs, binary.rs,  *)
(* functions.rs) and the builtins (stdlib/*.rs) for the expressions the    *)
(* fast paths of FastPath.tla can be tried on: dotted paths, = and !=, and *)
(* calls of builtins, with the [] and {"k": $} postfixes.  An expression   *)
(* is a record with the kind of its AST node.                              *)
(***************************************************************************)
EXTENDS JsonValue

CONSTANTS Value,    \* the values inside the documents, all levels of them
          Height    \* how many levels of values are inside each

\* A document: a scalar, or a container of documents that nest less.
IsJson(v) ==
    \/ v = Null
    \/ IsBoolean(v) /\ v = Boolean(v.boolean) /\ v.boolean \in BOOLEAN
    \/ IsNumber(v) /\ v = Number(v.number) /\ v.number \in Int
    \/ IsText(v) /\ v = Text(v.string) /\ v.string \in STRING
    \/ /\ IsArray(v) /\ v = Array(v.array) /\ v.array \in Seq(Value)
       /\ \A i \in DOMAIN v.array : Height[v.array[i]] < Height[v]
    \/ /\ IsObject(v) /\ v = Object(v.object) /\ DOMAIN v.object \subseteq STRING
       /\ \A k \in DOMAIN v.object :
              v.object[k] \in Value /\ Height[v.object[k]] < Height[v]

ASSUME ValuesAreJson == Height \in [Value -> Nat] /\ \A v \in Value : IsJson(v)

\* In documents, and in the literals they are compared with, nothing is
\* undefined or a NaN, and no function is a value.
DeepEqual(u, v) == u = v

\* A recursion over a value is a recursive function of the values inside: it
\* gives what they give, from which the level above is computed.
TruthIn(inside, v) ==
    IF IsArray(v) THEN AnyTrue([i \in DOMAIN v.array |-> inside[v.array[i]]]) ELSE Truth(v)
ToBoolean(v) ==
    LET inside[u \in Value] == TruthIn(inside, u) IN TruthIn(inside, v)

\* Every array inside spliced into the one around it.
FlattenRecursive(s) ==
    LET Over(inside, items) == FlattenSeq([i \in DOMAIN items |-> inside[items[i]]])
        inside[u \in Value] == IF IsArray(u) THEN Over(inside, u.array) ELSE <<u>>
    IN  Over(inside, s)

--------------------------------------------------------------------------------
(* Paths *)

\* What a name gives over an array, from what it gives in each item: each
\* array found is flattened by one level, and the results are collapsed.
MappedOver(results) ==
    LET items == FlattenSeq([i \in DOMAIN results |-> Items(results[i])])
    IN  IF items = <<>> /\ \E i \in DOMAIN results : results[i] # Undefined
        THEN Array(<<>>)
        ELSE IntoValue(items, FALSE)

\* One name looked up in a value, or in every item of an array.
NameIn(inside, name, v) ==
    CASE IsObject(v) -> FieldOf(v, name)
      [] IsArray(v) -> MappedOver([i \in DOMAIN v.array |-> inside[v.array[i]]])
      [] OTHER -> Undefined
EvalName(name, v) ==
    LET inside[u \in Value] == NameIn(inside, name, u) IN NameIn(inside, name, v)

\* The steps of a path, one after the other, each on what the last one gave.
EvalPath(segments, keep, input) ==
    LET Step(v, name) == IF v = Undefined THEN Undefined ELSE EvalName(name, v)
        result == FoldLeft(Step, input, segments)
    IN  IF keep THEN MarkKeepSingleton(result) ELSE result

\* The {"k": $} postfix: all items under one key, or no key without items.
EvalGroupBy(result) ==
    LET base == Collapsed(result)
    IN  CASE IsError(base) -> base
          [] base \in {Undefined, Array(<<>>)} -> Object(<<>>)
          [] OTHER -> Object([k \in {"k"} |-> IntoValue(Items(base), FALSE)])

--------------------------------------------------------------------------------
(* Builtins, on an argument that is collapsed *)

\* The a<n> signature of the aggregates: a number is coerced to an array.
NumberArgs(v) ==
    CASE IsNumber(v) -> <<v.number>>
      [] OTHER -> [i \in DOMAIN v.array |-> v.array[i].number]
MatchesNumberArray(v) ==
    \/ IsNumber(v)
    \/ IsArray(v) /\ \A i \in DOMAIN v.array : IsNumber(v.array[i])

MaxOf(numbers) == CHOOSE n \in ToSet(numbers) : \A m \in ToSet(numbers) : n >= m
MinOf(numbers) == CHOOSE n \in ToSet(numbers) : \A m \in ToSet(numbers) : n <= m
SumOf(numbers) == FoldLeft(Plus, 0, numbers)
\* A quotient is kept as the pair that is divided.
Quotient(total, count) == [quotient |-> <<total, count>>]

AggregateOf(name, numbers) ==
    IF name # "sum" /\ numbers = <<>> THEN Undefined
    ELSE CASE name = "sum" -> Number(SumOf(numbers))
           [] name = "max" -> Number(MaxOf(numbers))
           [] name = "min" -> Number(MinOf(numbers))
           [] name = "average" -> Quotient(SumOf(numbers), Len(numbers))

FnAggregate(name, v) ==
    CASE v = Undefined -> Undefined
      [] MatchesNumberArray(v) -> AggregateOf(name, NumberArgs(v))
      [] OTHER -> Error("T0412")

FnCount(v) == Number(CASE v = Undefined -> 0
                       [] IsArray(v) -> Len(v.array)
                       [] OTHER -> 1)

FnExists(v) == Boolean(v # Undefined)

FnType(v) ==
    CASE v = Undefined -> Undefined
      [] IsInfinite(v) -> Error("D1001")
      [] OTHER -> Text(CHOOSE variant \in DOMAIN v : TRUE)

FnString(v) ==
    CASE v = Undefined \/ IsText(v) -> v
      [] IsInfinite(v) -> Error("D3001")
      [] IsNumber(v) -> Primitive("format_float", v)
      [] IsBoolean(v) -> Text(IF v.boolean THEN "true" ELSE "false")
      [] v = Null -> Text("null")
      [] OTHER -> Primitive("stringify", v)

FnBoolean(v) == IF v = Undefined THEN Undefined ELSE ToBoolean(v)

FnNot(v) ==
    LET b == FnBoolean(v)
    IN  IF IsBoolean(b) THEN Boolean(~b.boolean) ELSE b

\* The texts that parse as a number, at once and only after the trimming and
\* the radix prefixes of $number.
Decimal == [s \in {"7"} |-> 7]
Castable == [s \in {"7", "0x7"} |-> 7]

FnNumber(v) ==
    CASE v = Undefined \/ IsNumber(v) -> v
      [] IsBoolean(v) -> Number(IF v.boolean THEN 1 ELSE 0)
      [] IsText(v) /\ v.string \in DOMAIN Castable -> Number(Castable[v.string])
      [] IsText(v) /\ v.string \notin DOMAIN Castable -> Error("D3030")
      [] OTHER -> Error("T0410")

StringKinds == {"lowercase", "uppercase", "trim", "length", "contains"}
NumericKinds == {"abs", "floor", "ceil", "sqrt"}

FnOnText(name, v) ==
    CASE v = Undefined -> Undefined
      [] IsText(v) -> Primitive(name, v)
      [] OTHER -> Error("T0410")

FnOnNumber(name, v) ==
    CASE v = Undefined -> Undefined
      [] IsNumber(v) /\ name = "sqrt" /\ v.number < 0 -> Error("D3060")
      [] IsNumber(v) /\ (name = "sqrt" => v.number >= 0) -> Primitive(name, v)
      [] OTHER -> Error("T0410")

\* Items kept when no item before them is equal.
Distinct(s) ==
    FoldLeft(LAMBDA kept, item :
                 IF \E i \in DOMAIN kept : DeepEqual(kept[i], item)
                 THEN kept ELSE Append(kept, item),
             <<>>, s)

KeyTexts(o) == [i \in DOMAIN Keys(o) |-> Text(Keys(o)[i])]
FieldValues(o) == [i \in DOMAIN Keys(o) |-> o.object[Keys(o)[i]]]
\* What is listed of the objects in an array, one after the other.
OverObjects(Listed(_), items) ==
    FlattenSeq([i \in DOMAIN items |-> IF IsObject(items[i]) THEN Listed(items[i]) ELSE <<>>])

\* $keys leaves its sequence uncollapsed.
FnKeys(v) ==
    CASE v = Undefined -> Undefined
      [] IsObject(v) -> Sequence(KeyTexts(v), FALSE)
      [] IsArray(v) -> Sequence(Distinct(OverObjects(KeyTexts, v.array)), FALSE)
      [] OTHER -> Sequence(<<>>, FALSE)

FnValues(v) ==
    CASE IsObject(v) -> Array(FieldValues(v))
      [] IsArray(v) -> LET all == OverObjects(FieldValues, v.array)
                       IN  IF all = <<>> THEN Undefined ELSE Array(all)
      [] OTHER -> Undefined

FnOnArray(name, v) ==
    LET s == IF IsArray(v) THEN v.array ELSE <<v>>
    IN  IF v = Undefined \/ (~IsArray(v) /\ name \in {"distinct", "flatten"}) THEN v
        ELSE CASE name = "distinct" -> Array(Distinct(s))
               [] name = "flatten" -> Array(FlattenRecursive(s))
               [] name = "reverse" -> Array(Reverse(s))
               [] name = "shuffle" -> Primitive("shuffle", s)

Aggregates == {"sum", "max", "min", "average"}

\* The function a name is bound to: the caller's own when it bound one over
\* the builtin, else the builtin.
CallFunction(name, v, bound) ==
    CASE name \in bound -> Primitive("custom", v)
      [] name \in Aggregates -> FnAggregate(name, v)
      [] name \in StringKinds -> FnOnText(name, v)
      [] name \in NumericKinds -> FnOnNumber(name, v)
      [] name = "count" -> FnCount(v)
      [] name = "exists" -> FnExists(v)
      [] name = "type" -> FnType(v)
      [] name = "string" -> FnString(v)
      [] name = "boolean" -> FnBoolean(v)
      [] name = "not" -> FnNot(v)
      [] name = "number" -> FnNumber(v)
      [] name = "keys" -> FnKeys(v)
      [] name = "values" -> FnValues(v)
      [] OTHER -> FnOnArray(name, v)

--------------------------------------------------------------------------------
(* Expressions *)

\* [e1, ..., en]: what is an array is spliced in, unless it is itself a
\* constructor.
EvalArrayCons(expressions, values) ==
    LET spliced == [i \in DOMAIN values |->
            CASE values[i] = Undefined -> <<>>
              [] IsArray(values[i]) /\ expressions[i].kind # "array" -> values[i].array
              [] OTHER -> <<values[i]>>]
    IN  FirstErrorOr(values, Array(FlattenSeq(spliced)))

\* = and !=: undefined on either side is false, for both of them.
EvalEquality(op, left, right) ==
    IF Undefined \in {left, right} THEN Boolean(FALSE)
    ELSE Boolean(IF op = "Eq" THEN DeepEqual(left, right) ELSE ~DeepEqual(left, right))

\* The [] postfix of a call, which applies to a sequence only.
KeepCall(e, result) ==
    IF e.postfix = "keep" /\ IsSequence(result) THEN MarkKeepSingleton(result) ELSE result

\* The {...} postfix of any expression.
Grouped(e, result) == IF e.postfix = "group" THEN EvalGroupBy(result) ELSE result

\* An expression that a fast path can be tried on nests no deeper than a call
\* or a comparison, of array constructors, of literals and paths.
EvalOperand(e, input) ==
    Grouped(e, IF e.kind = "literal" THEN e.value
               ELSE EvalPath(e.segments, e.postfix = "keep", input))
EvalArgument(e, input) ==
    IF e.kind # "array" THEN EvalOperand(e, input)
    ELSE LET values == [i \in DOMAIN e.expressions |->
                            Collapsed(EvalOperand(e.expressions[i], input))]
         IN  Grouped(e, EvalArrayCons(e.expressions, values))

\* A {...} behind the name makes an object of the function that is called; a
\* [] there does nothing.
EvalCall(e, input, bound) ==
    LET args == [i \in DOMAIN e.arguments |-> Collapsed(EvalArgument(e.arguments[i], input))]
    IN  IF e.procedure = "group" THEN Error("T1006")
        ELSE FirstErrorOr(args, KeepCall(e, CallFunction(e.name, args[1], bound)))
EvalInner(e, input, bound) ==
    CASE e.kind = "binary" ->
            Grouped(e, EvalEquality(e.op, Collapsed(EvalArgument(e.lhs, input)),
                                    Collapsed(EvalArgument(e.rhs, input))))
      [] e.kind = "function" -> Grouped(e, EvalCall(e, input, bound))
      [] OTHER -> EvalArgument(e, input)

\* The boundary of the public API, where a last sequence is collapsed.
Eval(e, input, bound) == Collapsed(EvalInner(e, input, bound))
================================================================================

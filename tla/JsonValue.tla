------------------------------- MODULE JsonValue -------------------------------
(***************************************************************************)
(* The values of the evaluator (value.rs, value/sequence.rs).  A value is  *)
(* a record with one field, named for its variant, so that any two values  *)
(* can be compared.  Numbers are integers and halves, with a value that    *)
(* stands for the infinity a literal such as 1e400 parses to, and NaN; the *)
(* f64 and string primitives that two evaluators call alike are left       *)
(* uninterpreted.  An error is a value too: the code in it, and the token  *)
(* it is attributed to, are what a caller can tell apart.                  *)
(***************************************************************************)
EXTENDS Integers, SequencesExt

Undefined == [undefined |-> TRUE]
Null      == [null |-> TRUE]
Boolean(b) == [boolean |-> b]
Number(n)  == [number |-> n]
Text(s)    == [string |-> s]
Array(s)   == [array |-> s]
Object(f)  == [object |-> f]
Error(code) == [error |-> code]
\* The internal carrier of several results, with its keep-singleton flag.
Sequence(s, keep) == [sequence |-> s, keep |-> keep]

IsArray(v)    == "array" \in DOMAIN v
IsObject(v)   == "object" \in DOMAIN v
IsNumber(v)   == "number" \in DOMAIN v
IsText(v)     == "string" \in DOMAIN v
IsBoolean(v)  == "boolean" \in DOMAIN v
IsSequence(v) == "sequence" \in DOMAIN v
IsError(v)    == "error" \in DOMAIN v
\* A function is a lambda, a builtin, or one made of other functions.
IsFunction(v) ==
    DOMAIN v \cap {"lambda", "builtin", "partial", "composed", "transform"} # {}

Infinity == 10000
IsInfinite(v) == v \in {Number(Infinity), Number(-Infinity)}
NotANumber == [number |-> 0, nan |-> TRUE]
\* The number between n and n + 1.
AndAHalf(n) == [number |-> n, half |-> TRUE]
Plus(m, n) == IF Infinity \in {m, n} THEN Infinity ELSE m + n

\* The result of a primitive that both evaluators call on the same value.
Primitive(name, v) == [primitive |-> name, of |-> v]

FieldOf(v, name) == IF name \in DOMAIN v.object THEN v.object[name] ELSE Undefined

\* The fields of an object in the order they were inserted: any fixed order.
Keys(v) == SetToSeq(DOMAIN v.object)

\* What a value adds to the items collected over an array: an array is
\* flattened by one level.
Items(v) == CASE v = Undefined -> <<>>
              [] IsArray(v) -> v.array
              [] OTHER -> <<v>>

\* A sequence of none is undefined, of one is its item unless flagged.
IntoValue(s, keep) ==
    CASE s = <<>> -> Undefined
      [] Len(s) = 1 /\ ~keep -> s[1]
      [] OTHER -> Array(s)

\* What happens to a sequence where a value is consumed.
Collapsed(v) == IF IsSequence(v) THEN IntoValue(v.sequence, v.keep) ELSE v

\* The effect of the [] postfix: a flag that the next collapse reads.
MarkKeepSingleton(v) ==
    CASE v = Undefined \/ IsArray(v) \/ IsError(v) -> v
      [] IsSequence(v) -> [v EXCEPT !.keep = TRUE]
      [] OTHER -> Sequence(<<v>>, TRUE)

\* The first error among values, or else what they are good for.
FirstErrorOr(values, good) ==
    LET errors == {i \in DOMAIN values : IsError(values[i])}
    IN  IF errors = {} THEN good ELSE values[Min(errors)]

\* The casting to a boolean of what is no container of values, and of an array
\* whose items were cast: an infinity anywhere is D1001.
Truth(v) ==
    CASE IsBoolean(v)  -> v
      [] IsText(v)     -> Boolean(v.string # "")
      [] IsNumber(v)   -> IF IsInfinite(v) THEN Error("D1001")
                          ELSE Boolean(v \notin {Number(0), NotANumber})
      [] IsObject(v)   -> Boolean(DOMAIN v.object # {})
      [] OTHER         -> Boolean(FALSE)
AnyTrue(truths) ==
    FirstErrorOr(truths, Boolean(\E i \in DOMAIN truths : truths[i].boolean))
================================================================================

------------------------------ MODULE Operators ------------------------------
(***************************************************************************)
(* The operators on values (evaluator/binary.rs, and value.rs for the      *)
(* comparisons and the cast to a string).  An operator that fails answers  *)
(* with an error.                                                          *)
(***************************************************************************)
EXTENDS JsonValue

CONSTANTS MaxRangeSize,  \* MAX_RANGE_SIZE, small enough to be met
          TextOrder      \* the texts that are compared, in their order

RECURSIVE EqualsItself(_)
\* Not undefined, a NaN or a function, nor a container of one.
EqualsItself(v) ==
    CASE IsArray(v) -> \A i \in DOMAIN v.array : EqualsItself(v.array[i])
      [] IsObject(v) -> \A k \in DOMAIN v.object : EqualsItself(v.object[k])
      [] OTHER -> v \notin {Undefined, NotANumber} /\ ~IsFunction(v)
DeepEqual(u, v) == EqualsItself(u) /\ u = v

\* The casting of a value to a boolean.
RECURSIVE ToBoolean(_)
ToBoolean(v) ==
    CASE IsSequence(v) -> ToBoolean(Collapsed(v))
      [] IsArray(v) -> AnyTrue([i \in DOMAIN v.array |-> ToBoolean(v.array[i])])
      [] OTHER -> Truth(v)

\* with_token and or_token: who an error is attributed to.
WithToken(r, token) ==
    IF IsError(r) THEN [error |-> r.error, token |-> token] ELSE r
OrToken(r, token) ==
    IF IsError(r) /\ "token" \notin DOMAIN r THEN WithToken(r, token) ELSE r

Arithmetic == {"+", "-", "*", "/", "%", "**"}
Relations == {"<", "<=", ">", ">="}

-----------------------------------------------------------------------------
(* Numbers, counted in halves *)

Halves(v) == 2 * v.number + (IF "half" \in DOMAIN v THEN 1 ELSE 0)
OfHalves(h) == IF h % 2 = 0 THEN Number(h \div 2) ELSE AndAHalf(h \div 2)
IsFinite(v) == IsNumber(v) /\ ~IsInfinite(v) /\ v # NotANumber
IsWhole(v) == IsFinite(v) /\ "half" \notin DOMAIN v
\* The quotient rounded towards zero.
Truncated(m, n) ==
    LET Size(k) == IF k < 0 THEN -k ELSE k
        q == Size(m) \div Size(n)
    IN  IF (m < 0) = (n < 0) THEN q ELSE -q

\* A quotient of finite numbers.
Divided(l, r) ==
    LET a == Halves(l)  b == Halves(r) IN
    CASE b = 0 /\ a = 0 -> NotANumber
      [] b = 0 /\ a # 0 -> Number(IF a > 0 THEN Infinity ELSE -Infinity)
      [] OTHER -> OfHalves(Truncated(2 * a, b))
\* apply_arithmetic_nums: an infinity comes out of a division only.
ApplyArithmeticNums(op, l, r) ==
    LET a == Halves(l)  b == Halves(r) IN
    IF op = "%" /\ r = Number(0) THEN Error("D3001")
    ELSE IF ~(IsFinite(l) /\ IsFinite(r))
    THEN IF op = "/" THEN NotANumber ELSE Error("D1001")
    ELSE CASE op = "+" -> OfHalves(a + b)
           [] op = "-" -> OfHalves(a - b)
           [] op = "*" -> OfHalves((a * b) \div 2)
           [] op = "/" -> Divided(l, r)
           [] op = "%" -> OfHalves(a - b * Truncated(a, b))
           [] op = "**" -> Number(l.number ^ r.number)

\* The operands are typed before undefined is looked at.
ApplyArithmetic(op, l, r) ==
    IF IsNumber(l) /\ IsNumber(r) THEN ApplyArithmeticNums(op, l, r)
    ELSE IF l # Undefined /\ ~IsNumber(l) THEN Error("T2001")
    ELSE IF r # Undefined /\ ~IsNumber(r) THEN Error("T2002")
    ELSE Undefined

ApplyRange(l, r) ==
    IF l # Undefined /\ ~IsNumber(l) THEN Error("T2003")
    ELSE IF r # Undefined /\ ~IsNumber(r) THEN Error("T2004")
    ELSE IF Undefined \in {l, r} THEN Undefined
    ELSE IF ~IsWhole(l) THEN Error("T2003")
    ELSE IF ~IsWhole(r) THEN Error("T2004")
    ELSE IF l.number > r.number THEN Undefined
    ELSE IF r.number - l.number + 1 > MaxRangeSize THEN Error("D2014")
    ELSE Array([i \in 1 .. r.number - l.number + 1 |-> Number(l.number + i - 1)])

\* What a number is as a position: none for a NaN or another value.
NumericIndex(v) ==
    CASE IsInfinite(v) -> Error("D1001")
      [] ~IsInfinite(v) /\ IsFinite(v) -> v
      [] OTHER -> Undefined
\* Mutant: a position is rounded towards zero.
PlaceTowardsZero(v, len) ==
    LET whole == IF v.number < 0 /\ ~IsWhole(v) THEN v.number + 1 ELSE v.number
    IN  IF whole < 0 THEN len + whole + 1 ELSE whole + 1
\* Positions are rounded down and a negative one counts from the end; the
\* result is a place in 1 .. len, or outside.
PlaceOf(v, len) == IF v.number < 0 THEN len + v.number + 1 ELSE v.number + 1
\* all_numeric_indices, which visits every item.
AllNumericIndices(items) ==
    LET each == [i \in DOMAIN items |-> NumericIndex(items[i])]
    IN  FirstErrorOr(each, Boolean(\A i \in DOMAIN each : each[i] # Undefined))

-----------------------------------------------------------------------------
(* Comparisons *)

Rank(s) == CHOOSE i \in DOMAIN TextOrder : TextOrder[i] = s
Holds(op, m, n) ==
    CASE op = "<" -> m < n [] op = "<=" -> m <= n [] op = ">" -> m > n [] op = ">=" -> m >= n

\* One is a text and the other a number.
Mixed(l, r) == {IsText(l) /\ IsNumber(r), IsNumber(l) /\ IsText(r)} # {FALSE}
\* Value::compare: the left operand is typed before undefined is looked at.
Compare(op, l, r) ==
    IF l # Undefined /\ ~IsNumber(l) /\ ~IsText(l) THEN Error("T2010")
    ELSE CASE Undefined \in {l, r} -> Undefined
           [] IsNumber(l) /\ IsNumber(r) ->
                 Boolean(NotANumber \notin {l, r} /\ Holds(op, Halves(l), Halves(r)))
           [] IsText(l) /\ IsText(r) -> Boolean(Holds(op, Rank(l.string), Rank(r.string)))
           [] Mixed(l, r) -> Error("T2009")
           [] OTHER -> Error("T2010")

Sign(m, n) == CASE m < n -> -1 [] m = n -> 0 [] m > n -> 1
\* Value::compare_order: -1, 0 or 1 for the order of two sort keys.
CompareOrder(l, r) ==
    CASE l = Undefined \/ r = Undefined ->
            Number(Sign(IF l = Undefined THEN 1 ELSE 0, IF r = Undefined THEN 1 ELSE 0))
      [] IsNumber(l) /\ IsNumber(r) ->
            Number(IF NotANumber \in {l, r} THEN 0 ELSE Sign(Halves(l), Halves(r)))
      [] IsText(l) /\ IsText(r) -> Number(Sign(Rank(l.string), Rank(r.string)))
      [] Mixed(l, r) -> Error("T2007")
      [] OTHER -> Error("T2008")

ContainedIn(v, arr) ==
    IF IsArray(arr) THEN \E i \in DOMAIN arr.array : DeepEqual(v, arr.array[i])
    ELSE DeepEqual(v, arr)

Equality(op, l, r) ==
    IF Undefined \in {l, r} THEN Boolean(FALSE)
    ELSE Boolean(DeepEqual(l, r) = (op = "="))

-----------------------------------------------------------------------------
(* The cast to a string *)

RECURSIVE ContainsNonFinite(_)
ContainsNonFinite(v) ==
    CASE IsNumber(v) -> ~IsFinite(v)
      [] IsArray(v) -> \E i \in DOMAIN v.array : ContainsNonFinite(v.array[i])
      [] IsObject(v) -> \E k \in DOMAIN v.object : ContainsNonFinite(v.object[k])
      [] OTHER -> FALSE
\* stringify_into.  The JSON of a container is any text of its own.
Stringify(v) ==
    CASE v = Undefined \/ IsFunction(v) -> Text("")
      [] IsText(v) -> v
      [] IsNumber(v) /\ ~IsFinite(v) -> Error("D3001")
      [] IsNumber(v) /\ IsFinite(v) ->
            Text(ToString(v.number) \o (IF IsWhole(v) THEN "" ELSE ".5"))
      [] IsBoolean(v) -> Text(IF v.boolean THEN "true" ELSE "false")
      [] (IsArray(v) \/ IsObject(v)) /\ ContainsNonFinite(v) -> Error("D1001")
      [] OTHER -> Text(ToString(v))

\* The operators that see both of their operands; a failure of the operator
\* itself is attributed to it, one of an operand is not.
ApplyBinaryOp(op, l, r) ==
    CASE op \in Arithmetic -> WithToken(ApplyArithmetic(op, l, r), op)
      [] op \in Relations -> WithToken(Compare(op, l, r), op)
      [] op \in {"=", "!="} -> Equality(op, l, r)
      [] op = "in" -> Boolean(ContainedIn(l, r))
      [] op = ".." -> WithToken(ApplyRange(l, r), op)
      [] OTHER -> Error("D3001")
=============================================================================

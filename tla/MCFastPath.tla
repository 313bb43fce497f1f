------------------------------- MODULE MCFastPath -------------------------------
EXTENDS FastPath

Path(segments, postfix) == [kind |-> "path", segments |-> segments, postfix |-> postfix]
Literal(v) == [kind |-> "literal", value |-> v, postfix |-> "none"]
Bracketed(e, postfix) == [kind |-> "array", expressions |-> <<e>>, postfix |-> postfix]
Equality(op, lhs, rhs) ==
    [kind |-> "binary", op |-> op, lhs |-> lhs, rhs |-> rhs, postfix |-> "none"]
Call(name, args, postfix) ==
    [kind |-> "function", name |-> name, arguments |-> args, postfix |-> postfix,
     procedure |-> "none"]

Segments == {<<"a">>, <<"a", "b">>, <<"a", "b", "a">>}
Paths == {Path(s, "none") : s \in Segments}

PathExprs == {Path(s, p) : s \in Segments, p \in {"none", "keep", "group"}}

EqualityExprs ==
    {Equality(op, Path(s, p), r) :
        op \in {"Eq", "Ne"}, s \in Segments, p \in {"none", "keep"},
        r \in {Literal(Number(1)), Literal(Null), Path(<<"a">>, "none")}}

SecondArgument(name) == IF name = "contains" THEN <<Literal(Text("x"))>> ELSE <<>>

CallExprs == {Call(f, <<arg>> \o SecondArgument(f), "none") :
                f \in FastKinds, arg \in Paths \cup {Bracketed(p, "none") : p \in Paths}}
PostfixedCallExprs ==
    {Call(f, <<Path(<<"a">>, "none")>>, p) : f \in {"keys", "sum"}, p \in {"keep", "group"}}
\* Postfixes behind the name that is called: $sum[](a), $sum{"k": $}(a).
PostfixedNameExprs ==
    {[Call(f, <<Path(<<"a">>, "none")>>, "none") EXCEPT !.procedure = p] :
        f \in {"keys", "sum"}, p \in {"keep", "group"}}
GroupedCallExprs ==
    {Call(f, <<Bracketed(Path(<<"a">>, "none"), "group")>>, "none") :
        f \in Aggregates \cup {"count", "type"}}

AllExprs == PathExprs \cup EqualityExprs \cup CallExprs \cup PostfixedCallExprs
            \cup PostfixedNameExprs \cup GroupedCallExprs
CountExprs == {e \in CallExprs : e.name = "count"}

--------------------------------------------------------------------------------
(* Documents: a field a, whose value may be an object with a field b, an      *)
(* array of up to two of them, or an array of arrays; and arrays of such      *)
(* documents.                                                                 *)

UpTo2(S) == {Array(s) : s \in SeqOf(S, 2)}
Field(name, S) == {Object([k \in {name} |-> v]) : v \in S}
Empty == Object(<<>>)
N == Number(1)

Scalars == {Number(1), Number(-1), Number(Infinity), Text(""), Text("7"), Text("0x7"),
            Boolean(TRUE), Null}

\* All scalars, alone and in pairs, as the value of a.
Flat == Scalars \cup UpTo2(Scalars)

\* The value of b: a number, an object, or an array of numbers, arrays, objects.
Leaf == {N} \cup Field("a", {N, Array(<<>>), Array(<<Array(<<N, N>>)>>)})
Bs == Leaf \cup UpTo2(Leaf \cup {Array(<<>>), Array(<<N, N>>)})
FewBs == {N, Array(<<>>), Array(<<N>>), Array(<<Array(<<N, N>>)>>)} \cup Field("a", {N})

\* An item under a: no object, one without b, one with it.
ItemsOfA == {N, Empty, Array(<<>>)} \cup Field("b", FewBs)
As == Field("b", Bs) \cup ItemsOfA \cup UpTo2(ItemsOfA) \cup {Array(<<Array(<<i>>)>>) : i \in ItemsOfA}

Documented == Field("a", ItemsOfA \cup {Array(<<i>>) : i \in ItemsOfA})
Roots == {Null, Empty} \cup Field("a", As \cup Flat) \cup Field("b", {N})
         \cup UpTo2({Empty, N, Array(<<Empty>>)} \cup Documented)

\* All values inside the documents, seven containers deep at most, and how many
\* levels are inside each.  The constants take the names of what TLC computes
\* once: it evaluates the definition given to a constant at every use.
Within(v) == CASE IsArray(v) -> ToSet(v.array)
               [] IsObject(v) -> Range(v.object)
               [] OTHER -> {}
Contents == FoldLeft(LAMBDA S, level : S \cup UNION {Within(v) : v \in S},
                     Roots, [level \in 1 .. 8 |-> level])
AllValues == Contents
Heights[v \in Contents] == 1 + Max({-1} \cup {Heights[u] : u \in Within(v)})
AllHeights == Heights
================================================================================

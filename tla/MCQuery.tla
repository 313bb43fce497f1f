------------------------------- MODULE MCQuery -------------------------------
(***************************************************************************)
(* The dialects TLC asks questions in: tests and comparators that have a   *)
(* lifted shape or nearly one, calls as steps, sorts, filters, joins,      *)
(* groups, and values inside values.                                       *)
(***************************************************************************)
EXTENDS Query

N(n) == Number(n)
O(f) == Object(f)
MCTextOrder == <<"", "s", "x", "y">>

\* Fields that are missing, or of any type.
Motley == Array(<<O(("n" :> N(1)) @@ ("k" :> Text("x"))), O("n" :> Text("s")),
                 O(("n" :> Array(<<N(1), N(2)>>)) @@ ("k" :> Null)),
                 O(("n" :> Boolean(FALSE)) @@ ("k" :> N(0))), N(1)>>)
\* Fields that are numbers, with ties.
Rows == Array(<<O(("n" :> N(1)) @@ ("k" :> N(2)) @@ ("i" :> N(1))),
                O(("n" :> N(2)) @@ ("k" :> N(2)) @@ ("i" :> N(2))),
                O(("n" :> N(0)) @@ ("k" :> N(1)) @@ ("i" :> N(3))),
                O(("n" :> N(1)) @@ ("i" :> N(4)))>>)
\* Numbers that $round and $formatBase round to the even one of two.
Halved == Array(<<O(("n" :> AndAHalf(2)) @@ ("k" :> AndAHalf(-4))), O(("n" :> N(15)) @@ ("k" :> O("minus-sign" :> Text("y")))),
                  O(("n" :> N(25)) @@ ("k" :> AndAHalf(3)))>>)
\* Texts of several lengths, and none.
Texts == Array(<<O("k" :> Text("xyx")), O("k" :> Text("s")), O("n" :> N(1))>>)
\* Keys that are texts, rows in rows, and an array in an array.
Named == Array(<<O(("n" :> N(1)) @@ ("k" :> Text("x"))), O(("n" :> N(2)) @@ ("k" :> Text("y"))),
                 O(("n" :> Array(<<N(0), N(3)>>)) @@ ("k" :> Text("x")))>>)
Deep == Array(<<O("r" :> Rows), O(("r" :> O("n" :> N(5))) @@ ("n" :> N(7)))>>)
Nested == Array(<<Array(<<N(1), N(2)>>), Array(<<O("n" :> Array(<<N(3)>>))>>), Array(<<>>)>>)

OfRow(name) == <<name, "(", "r", ",", "function", "(", "$v", ")", "{", "a", "}", ")">>
OfTwo(name) == <<name, "(", "r", ",", "function", "(", "$v", ",", "$w", ")", "{", "a", "}", ")">>

MCOpenings ==
    [tests |-> {OfRow("$map"), OfRow("$filter"), OfRow("$single"),
                <<"$filter", "(", "r", ",", "function", "(", "$v", ")",
                  "{", "$v", ".", "n", "=", "1", "and", "a", "}", ")">>},
     folds |-> {OfTwo("$sort"), OfTwo("$reduce")},
     texts |-> {<<"$map", "(", "r", ",", "function", "(", "$v", ")",
                  "{", "$substring", "(", "a", ",", "a", ")", "&", "a", "}", ")">>,
                <<"$map", "(", "r", ",", "function", "(", "$v", ")",
                  "{", "\"s\"", "&", "$substring", "(", "$v", ".", "k", ",", "a", ",", "a", ")", "}", ")">>},
     calls |-> {<<"r", ".", "a">>, <<"$map", "(", "r", ",", "function", "(", "$v", ")", "{", "a", "}", ")">>},
     sorts |-> {<<"r", "^", "(", "a", ")">>, <<"r", "^", "(", ">", "a", ")">>,
                <<"r", "^", "(", "a", ",", ">", "a", ")">>, <<"o", ".", "r", "^", "(", "a", ")">>},
     filters |-> {<<"r", "[", "a", "]">>, <<"o", "[", "a", "]">>},
     parents |-> {<<"r", ".", "n", ".", "%", "[", "a", "]">>},
     joins |-> {<<"a", ".", "a">>},
     groups |-> {<<"r", "{", "k", ":", "a", "}">>, <<"r", "#", "$i", "{", "k", ":", "a", "}">>,
                 <<"r", "@", "$v", ".", "r", "{", "k", ":", "a", "}">>, <<"r", "{", "a", ":", "n", "}">>},
     values |-> {<<"a">>, OfRow("$map")}]
Predicates ==
    {<<"0">>, <<"1">>, <<"1", ".", "5">>, <<"-", "a">>, <<"[", "a", ",", "a", "]">>, <<"n">>,
     <<"a", ">", "a">>, <<"a", "/", "a">>, <<"null">>, <<"a", "and", "a">>, <<"[", "a", "..", "a", "]">>}
MCPhrases ==
    [tests |-> {<<"a", ">", "a">>, <<"a", "=", "a">>, <<"a", "and", "a">>, <<"a", "&", "a">>,
                <<"$v", ".", "n">>, <<"$v", ".", "k">>, <<"0">>, <<"null">>, <<"\"s\"">>, <<"(", "a", ")">>},
     folds |-> {<<"a", ">", "a">>, <<"a", "-", "a">>, <<"$v">>, <<"$v", ".", "n">>, <<"$w", ".", "n">>,
                <<"$w", ".", "k">>, <<"(", "a", ")">>},
     texts |-> {<<"$v", ".", "k">>, <<"$string", "(", "a", ")">>, <<"$substring", "(", "a", ")">>, <<"\"s\"">>,
                <<"3">>, <<"1", ".", "5">>, <<"-", "1", ".", "5">>},
     calls |-> {<<"$uppercase", "(", "a", ")">>, <<"$uppercase", "(", "a", ",", "a", ")">>, <<"$sum", "(", "a", ")">>,
                <<"$contains", "(", "a", ",", "a", ")">>, <<"$round", "(", "a", ")">>,
                <<"$round", "(", "a", ",", "a", ")">>, <<"$formatBase", "(", "a", ",", "a", ")">>,
                <<"$formatNumber", "(", "a", ",", "a", ")">>, <<"$formatNumber", "(", "n", ",", "a", ",", "a", ")">>,
                <<"\"0\"">>,
                <<"$v", ".", "n">>, <<"n">>, <<"k">>, <<"-", "1">>, <<"3", ".", "5">>, <<"\"s\"">>},
     sorts |-> {<<"n">>, <<"k">>, <<"-", "a">>, <<"(", "a", ")">>, <<"%", ".", "a">>, <<"a", "+", "a">>},
     filters |-> Predicates, parents |-> Predicates,
     joins |-> {<<"r", "@", "$v">>, <<"r", "#", "$i">>, <<"r">>, <<"n">>, <<"$v">>, <<"$i">>, <<"a", ".", "a">>,
                <<"r", "@", "$w", "[", "a", "]">>, <<"$w", ".", "n", "=", "$v", ".", "n">>},
     groups |-> {<<"n">>, <<"$i">>, <<"$v">>, <<"a", ".", "a">>, <<"k">>, <<"(", "a", ")">>},
     values |-> {<<"r">>, <<"[", "a", ",", "a", "]">>, <<"a", ".", "a">>, <<"a", "[", "]">>, <<"a", "??", "a">>, <<"a", "?:", "a">>, <<"*">>, <<"**">>,
                 <<"$map", "(", "a", ",", "function", "(", "$v", ")", "{", "a", "}", ")">>, <<"$v">>, <<"n">>,
                 <<"a", "[", "0", "]">>, <<"{", "\"s\"", ":", "a", "}">>, <<"$">>}]
MCDocuments ==
    [tests |-> {O("r" :> Motley), O("r" :> Rows)},
     folds |-> {O("r" :> Motley), O("r" :> Rows)},
     texts |-> {O("r" :> Texts), O("r" :> Motley)},
     calls |-> {O("r" :> Motley), O("r" :> Halved)},
     sorts |-> {O(("r" :> Rows) @@ ("o" :> Deep)), O("r" :> Named)},
     filters |-> {O(("r" :> Rows) @@ ("o" :> O("n" :> N(1)))), O(("r" :> Nested) @@ ("o" :> N(0)))},
     parents |-> {O("r" :> Rows)},
     joins |-> {O("r" :> Rows), O("r" :> Deep)},
     groups |-> {O("r" :> Named)},
     values |-> {O("r" :> Nested), O("r" :> Deep)}]

RECURSIVE Containers(_)
\* The containers of a value, each of them once for each place it is in.
Containers(v) ==
    LET parts == CASE IsArray(v) -> v.array
                   [] IsObject(v) -> [i \in DOMAIN Keys(v) |-> v.object[Keys(v)[i]]]
                   [] OTHER -> <<>>
        inside == FlattenSeq([i \in DOMAIN parts |-> Containers(parts[i])])
    IN  IF IsArray(v) \/ IsObject(v) THEN <<v>> \o inside ELSE inside
\* No two of them are equal where a parent is asked for: to be equal is to be
\* the same one there (path.rs, value_ptr_eq).
ASSUME EqualIsSame ==
    \A d \in {"parents", "joins", "groups"} : \A v \in MCDocuments[d] : IsInjective(Containers(v))

MCMaxEdits == [d \in DOMAIN MCOpenings |-> IF d \in {"joins", "groups", "folds"} THEN 4 ELSE 3]

\* Chains, and blocks as steps that bind.
ChainOpenings == [chains |-> {<<"a", "~>", name, "(", "a", ")">> :
                                  name \in {"$keys", "$count", "$sum", "$uppercase"}}]
ChainPhrases == [chains |-> {<<"0">>, <<"\"s\"">>, <<"[", "a", "]">>, <<"a", "~>", "$count", "(", ")">>}]
ChainDocuments == [chains |-> {O("n" :> N(1))}]
ChainMaxEdits == [chains |-> 3]
BlockOpenings == [blocks |-> {<<"(", "a", ")", "#", "$i", ".", "$i">>}]
BlockPhrases == [blocks |-> {<<"r">>, <<"n">>, <<"a", ".", "a">>, <<"(", "a", ")">>}]
BlockDocuments == [blocks |-> {O("r" :> Rows)}]
BlockMaxEdits == [blocks |-> 3]
=============================================================================

------------------------------ MODULE MCSyntax ------------------------------
(***************************************************************************)
(* The dialects TLC writes in.  "steps" composes paths and               *)
(* their decorations, "numbers" the literals that a dot or a minus welds,  *)
(* "operators" the precedences, "lambdas" bodies and tail positions, and   *)
(* "remarks" the places of comments.                                       *)
(***************************************************************************)
EXTENDS Syntax

MCDialects ==
    [steps |-> {<<"a", ".", "a">>, <<"a", "[", "]">>, <<"a", "[", "a", "]">>,
                <<"a", "{", "a", ":", "a", "}">>, <<"a", "@", "$v">>, <<"a", "#", "$w">>,
                <<"(", "a", ")">>, <<"a", "^", "(", ">", "a", ")">>, <<"*">>, <<"%">>,
                <<"\"s\"">>, <<"-", "a">>, <<"**">>},
     numbers |-> {<<"0">>, <<"a", " . ", "a">>, <<"a", ".", "a">>, <<"-", "a">>,
                  <<"a", "{", "a", ":", "a", "}">>, <<"a", "[", "a", "]">>},
     operators |-> {<<"a", "=", "a">>, <<"a", "+", "a">>, <<"a", "/", "a">>, <<"/", "r", "/">>,
                    <<"a", "~>", "a">>, <<"a", "and", "a">>, <<"and">>, <<"a", "?", "a", ":", "a">>,
                    <<"a", "?", "a">>, <<"-", "a">>, <<"(", "a", ";", "a", ")">>, <<"(", ")">>,
                    <<"$v", ":=", "a">>, <<"[", "a", "..", "a", "]">>, <<"[", "a", ",", "a", "]">>,
                    <<"a", "??", "a">>, <<"|", "a", "|", "a", "|">>, <<"a", "|", "a">>,
                    <<"{", "a", ":", "a", "}">>, <<"a", "(", "a", ")">>, <<"a", "(", "?", ",", "a", ")">>,
                    <<"?">>, <<"a", ".", "a">>, <<"a", "^", "(", "a", ")">>, <<"true">>},
     lambdas |-> {<<"function", "(", "$v", ")", "{", "a", "}">>,
                  <<"function", "(", ")", "<", "n", ">", "{", "a", "}">>,
                  <<"a", "(", "a", ")">>, <<"a", "?", "a", ":", "a">>, <<"(", "a", ";", "a", ")">>,
                  <<"a", "{", "a", ":", "a", "}">>, <<"$">>, <<"quoted function">>, <<"%">>,
                  <<"$v", ":=", "a">>, <<"|", "a", "|", "a", ",", "a", "|">>},
     remarks |-> {<<"a", ".", "a">>, <<"a", "+", "a">>, <<"(", "a", ";", "a", ")">>,
                  <<"a", "[", "a", "]">>, <<"a", "(", "a", ")">>, <<"-", "a">>, <<"0">>,
                  <<"a", "{", "a", ":", "a", "}">>, <<"a", "?", "a", ":", "a">>,
                  <<"function", "(", "$v", ")", "{", "a", "}">>, <<"a", "^", "(", "a", ")">>}]
MCMaxComments == [d \in DOMAIN MCDialects |-> IF d = "remarks" THEN 2 ELSE 0]
MCMaxEdits == [d \in DOMAIN MCDialects |->
                  CASE d = "numbers" -> 4 [] d \in {"steps", "lambdas"} -> 3 [] OTHER -> 2]
=============================================================================

----------------------------- MODULE MCTrySort -----------------------------
(* TrySort with a missing key, two numbers, a NaN, a string, a null and a *)
(* key that a term fails on. *)
EXTENDS TrySort

Key(kind, rank) == [kind |-> kind, rank |-> rank]

MCKeys == {Key("undefined", 0), Key("number", 1), Key("number", 2),
           Key("nan", 0), Key("string", 1), Key("other", 0), Key("failing", 0)}

\* One term in either direction, and two that disagree.
MCDirections == {<<FALSE>>, <<TRUE>>, <<TRUE, FALSE>>}
=============================================================================

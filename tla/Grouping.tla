------------------------------- MODULE Grouping -------------------------------
(***************************************************************************)
(* Groups (evaluator/group.rs): the {...} after an expression sorts the    *)
(* items of its value, or the tuples of its stream, by keys, and answers   *)
(* with an object of one value for each key.                               *)
(***************************************************************************)
EXTENDS Paths

\* The members with the same key, in the order of their first members.
Groups(members, keys) ==
    LET wrong == {i \in DOMAIN keys : keys[i] # Undefined /\ ~IsText(keys[i])}
        firsts == SetToSortSeq({i \in DOMAIN keys : /\ IsText(keys[i])
                                    /\ \A j \in 1 .. i - 1 : keys[j] # keys[i]}, <)
        With(key) == SetToSortSeq({i \in DOMAIN keys : keys[i] = key}, <)
    IN  IF wrong # {}
        THEN LET key == keys[Min(wrong)] IN IF IsError(key) THEN key ELSE Error("T1003")
        ELSE [groups |-> [g \in DOMAIN firsts |->
                [key |-> keys[firsts[g]].string, first |-> firsts[g] - 1,
                 members |-> LET places == With(keys[firsts[g]])
                             IN  [m \in DOMAIN places |-> members[places[m]]]]]]

\* Each pair of the group in order, adding its keys to the object.
EachPair(pairs, Add(_, _, _)) ==
    FoldLeft(LAMBDA done, p : AndThen(done, LAMBDA obj : Add(obj.object, pairs[2 * p - 1], pairs[2 * p])),
             Object(<<>>), [p \in 1 .. Len(pairs) \div 2 |-> p])
PairsReferToParent(pairs) == \E i \in DOMAIN pairs : RefersToParent(pairs[i])
Entered(object, key, v) == IF v = Undefined THEN Object(object) ELSE Object((key :> v) @@ object)
\* One member is the value itself.
OneOrArray(values) == IF Len(values) = 1 THEN values[1] ELSE Array(values)

-----------------------------------------------------------------------------
(* The items of a value *)

GroupKey(key, item, env) ==
    IF PlainName(key) THEN IF IsObject(item) THEN FieldOf(item, key.v) ELSE Undefined
    ELSE Ev(key, item, env)

\* $index and $key are there for a value that uses them.
EvalGroupValue(val, input, group, env) ==
    IF UsesGroupBindings(val)
    THEN Ev(val, input, Bind(Bind(Child(env), "index", Number(group.first)),
                             "key", Text(group.key)))
    ELSE IF PlainName(val) THEN EvalName(val.v, input) ELSE Ev(val, input, env)
ValueKept(val) ==
    /\ val.k \in {"Name", "Binary", "Variable", "Function", "Sort", "Negate", "ArrayCons",
                  "ObjCons", "Path"}
    /\ val.keep
\* A key that has a value already is refused.
AddGroup(object, group, val, env) ==
    LET result == EvalGroupValue(val, OneOrArray(group.members), group, env) IN
    IF group.key \in DOMAIN object THEN Error("D1009")
    ELSE AndThen(IF ValueKept(val) THEN MarkKeepSingleton(result) ELSE result, LAMBDA v :
            Entered(object, group.key, Collapsed(v)))
\* The object of the groups of a value; of no value, those of undefined.
EvalGroupBy(n, base, env) ==
    LET pairs == n.group[1]
        scope == IF PairsReferToParent(pairs) THEN ShadowParent(env) ELSE env
        v == Collapsed(base)
        items == IF v \in {Undefined, Array(<<>>)} THEN <<Undefined>> ELSE Items(v)
        AddPair(object, key, val) ==
            AndThen(Groups(items, [i \in DOMAIN items |-> GroupKey(key, items[i], scope)]), LAMBDA found :
                FoldLeft(LAMBDA done, g : AndThen(done, LAMBDA o : AddGroup(o.object, g, val, scope)),
                         Object(object), found.groups))
    IN  AndThen(base, LAMBDA ok : EachPair(pairs, AddPair))

-----------------------------------------------------------------------------
(* The tuples of a stream *)

RECURSIVE PathNames(_)
\* The names bound in the scopes that a path has made.
PathNames(env) ==
    IF ~IsBound(env, ParentBinding) THEN {}
    ELSE DOMAIN env.vars \cup (IF env.up = <<>> THEN {} ELSE PathNames(env.up[1]))

\* Mutant: the first scope stands for all of them.
MergeFirstEnv(envs) == envs[1]
\* One scope for a group: a variable that differs is an array of its values.
MergeGroupEnvs(envs) ==
    LET names == UNION {PathNames(envs[i]) : i \in DOMAIN envs}
        Own == {ParentBinding, JoinFlag}
        bound == {name \in names : name \in Own => Binders(envs[1], name) # <<>>}
        ValuesOf(name) ==
            LET binding == SelectSeq(envs, LAMBDA env : Binders(env, name) # <<>>)
            IN  [i \in DOMAIN binding |-> Lookup(binding[i], name)]
        Same(values) == \A i \in 1 .. Len(values) - 1 : DeepEqual(values[i], values[i + 1])
        Merged(name) ==
            LET values == ValuesOf(name) IN
            IF name \in Own THEN Lookup(envs[1], name)
            ELSE IF Same(values) THEN values[1] ELSE Array(values)
    IN  [vars |-> [name \in bound |-> Merged(name)],
         up |-> IF envs[1].up = <<>> THEN <<RootScope>> ELSE envs[1].up]

\* Here the last of several pairs with the same key wins.
EvalTupleGroup(pairs, tuples) ==
    LET Scope(env) == IF PairsReferToParent(pairs) THEN ShadowParent(env) ELSE env
        KeysOf(key) == [i \in DOMAIN tuples |-> Ev(key, tuples[i].value, Scope(tuples[i].env))]
        ValueOf(val, members) ==
            LET values == [i \in DOMAIN members |-> members[i].value]
                env == IF Len(members) = 1 THEN members[1].env
                       ELSE MergeGroupEnvs([i \in DOMAIN members |-> members[i].env])
            IN  Ev(val, OneOrArray(values), Scope(env))
        AddPair(object, key, val) ==
            AndThen(Groups(tuples, KeysOf(key)), LAMBDA found :
                FoldLeft(LAMBDA done, g : AndThen(done, LAMBDA o :
                             AndThen(ValueOf(val, g.members), LAMBDA v :
                                 Entered(o.object, g.key, Collapsed(v)))),
                         Object(object), found.groups))
    IN  EachPair(pairs, AddPair)
=============================================================================

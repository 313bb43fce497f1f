-------------------------------- MODULE Calls --------------------------------
(***************************************************************************)
(* Calls of functions (evaluator/functions.rs, evaluator/signature.rs, and *)
(* the ~> of evaluator/mod.rs).  A function is a lambda with the scope it  *)
(* was written in, a builtin, a partial application or a composition.  A   *)
(* scope is a value here, so a lambda does not see what is bound after it. *)
(* CallMachine.tla models how deep and how long calls may go.              *)
(***************************************************************************)
EXTENDS Transforms

\* The library: a name, the arguments, the focus and the scope of the call.
CONSTANT Builtin(_, _, _, _)

IsLambda(v) == "lambda" \in DOMAIN v
\* call_site_name: who the errors of a call are attributed to.
CallSiteName(n) ==
    LET named == IF n.k = "Path" THEN n.kids[1] ELSE n
    IN  IF named.k \in {"Variable", "Name"} THEN named.v ELSE ""
OrNamed(r, name) == IF name = "" THEN r ELSE OrToken(r, name)

-----------------------------------------------------------------------------
(* Signatures *)

TypeMatches(v, t) ==
    CASE t = "x" -> TRUE
      [] t = "j" -> ~IsFunction(v)
      [] t = "f" -> IsFunction(v)
      [] t = "n" -> IsNumber(v)
      [] t = "s" -> IsText(v)
      [] t = "b" -> IsBoolean(v)
      [] t = "a" -> IsArray(v)
      [] t = "o" -> IsObject(v)
      [] t = "l" -> v \in {Undefined, Null}
MatchesTypes(v, types) == \E t \in types : TypeMatches(v, t)

NeedsSingletonCoercion(spec, v) ==
    /\ "a" \in spec.types /\ v # Undefined /\ ~IsArray(v)
    /\ spec.content = "" \/ TypeMatches(v, spec.content)

ValidateOneArg(spec, v) ==
    LET typed == spec.content # "" IN
    CASE ~MatchesTypes(v, spec.types) -> Error(IF typed THEN "T0412" ELSE "T0410")
      [] OTHER -> IF typed /\ IsArray(v)
                        /\ \E i \in DOMAIN v.array : ~TypeMatches(v.array[i], spec.content)
                  THEN Error("T0412") ELSE v

\* The first parameter that takes all the arguments left.
FirstVariadic(specs) == Min({Len(specs) + 1} \cup {i \in DOMAIN specs : specs[i].variadic})
ValidateCallArgs(specs, args) ==
    LET v == FirstVariadic(specs)
        known == IF v <= Len(specs) THEN Len(args) ELSE Min({Len(args), Len(specs)})
        missing == {i \in DOMAIN specs \ {v} : i > v \/ i > Len(args)}
    IN  AndThenAll([i \in 1 .. known |-> ValidateOneArg(specs[Min({i, v})], args[i])], LAMBDA s :
            IF Len(args) > known \/ \E i \in missing : ~specs[i].optional
            THEN Error("T0410") ELSE Array(args))

\* The arguments a function is entered with, an error, or undefined when an
\* undefined argument makes the call undefined.
ProcessCallArgs(specs, args) ==
    LET fixed == {i \in DOMAIN specs \cap DOMAIN args : i < FirstVariadic(specs)}
        coerced == [i \in DOMAIN args |->
            IF i \in fixed /\ NeedsSingletonCoercion(specs[i], args[i])
            THEN Array(<<args[i]>>) ELSE args[i]]
    IN  IF \E i \in fixed : args[i] = Undefined /\ ~MatchesTypes(Undefined, specs[i].types)
        THEN Undefined ELSE ValidateCallArgs(specs, coerced)

\* The builtins that are registered with a signature.
BuiltinSignatures ==
    ("string" :> <<"x", "?", "b", "?">>) @@ ("uppercase" :> <<"s", "?">>)
    @@ ("lowercase" :> <<"s", "?">>) @@ ("boolean" :> <<"x", "?">>)
    @@ [name \in {"sum", "max", "min", "average"} |-> <<"a", "<", "n", ">">>]
\* A call that is written as one checks the arguments of such a builtin.
CheckedArgs(f, args) ==
    IF "builtin" \in DOMAIN f /\ f.builtin \in DOMAIN BuiltinSignatures
    THEN ProcessCallArgs(ParseSignature(BuiltinSignatures[f.builtin]).v, args)
    ELSE Array(args)

-----------------------------------------------------------------------------
(* Functions as values *)

EvalLambda(n, input, env) ==
    [lambda |-> [params |-> [i \in DOMAIN n.words |-> n.words[i].v], body |-> n.kids[1],
                 signature |-> IF n.sig = <<>> THEN <<>> ELSE <<ParseSignature(Inside(n.sig)).v>>,
                 closure |-> env, focus |-> input]]

EvalPartial(n, input, env) ==
    LET procedure == n.kids[1]
        written == CallSiteName(procedure)
        unknown == procedure.k = "Name"
        places == Tail(n.kids)
    IN  AndThen(Ev(procedure, input, env), LAMBDA f :
            CASE f = Undefined /\ unknown ->
                    WithToken(Error(IF Binders(env, procedure.v) # <<>> THEN "T1007" ELSE "T1008"),
                              procedure.v)
              [] (f # Undefined \/ ~unknown) /\ ~IsFunction(f) -> OrNamed(Error("T1008"), written)
              [] OTHER -> AndThenAll(EvalOperands(places, input, env), LAMBDA bound :
                    [partial |-> [of |-> f, bound |-> bound, env |-> env,
                        holes |-> [i \in DOMAIN places |-> places[i].k = "Placeholder"]]]))

\* The holes filled from the left, as far as the arguments go.
FilledArgs(p, args) ==
    LET HolesUpTo(i) == Cardinality({j \in 1 .. i : p.holes[j]})
    IN  [i \in DOMAIN p.bound |->
            IF p.holes[i] /\ HolesUpTo(i) <= Len(args) THEN args[HolesUpTo(i)] ELSE p.bound[i]]

-----------------------------------------------------------------------------
(* Calls *)

\* The parameters, which are undefined where there is no argument.
BoundParams(env, params, args) ==
    FoldLeft(LAMBDA e, i : Bind(e, params[i], IF i \in DOMAIN args THEN args[i] ELSE Undefined),
             env, [i \in DOMAIN params |-> i])

\* The body answers with a value; a call in tail position with a sequence too.
CallLambda(l, args, focus) ==
    LET checked == IF l.signature = <<>> THEN Array(args) ELSE ProcessCallArgs(l.signature[1], args)
        inside == BoundParams(Child(l.closure), l.params, checked.array)
        here == IF l.params = <<>> /\ checked.array = <<>> THEN l.focus ELSE focus
        result == Ev(l.body, here, inside)
    IN  IF ~IsArray(checked) THEN checked
        ELSE IF BodyIsTailCall(l.body) THEN result ELSE Collapsed(result)

RECURSIVE CallFunction(_, _, _, _)
CallFunction(f, args, focus, env) ==
    CASE IsLambda(f) -> CallLambda(f.lambda, args, focus)
      [] "transform" \in DOMAIN f -> Transform(f.transform, args)
      [] "builtin" \in DOMAIN f -> Builtin(f.builtin, args, focus, env)
      [] "partial" \in DOMAIN f ->
            CallFunction(f.partial.of, FilledArgs(f.partial, args), focus, f.partial.env)
      [] "composed" \in DOMAIN f ->
            AndThen(CallFunction(f.composed.inner, args, focus, f.composed.env), LAMBDA v :
                CallFunction(f.composed.outer, <<Collapsed(v)>>, focus, f.composed.env))

KeepIf(asked, result) == IF asked /\ IsSequence(result) THEN MarkKeepSingleton(result) ELSE result

\* What a callee that is no function fails with.
NotCallable(procedure, f, env) ==
    IF f = Undefined /\ procedure.k = "Name" /\ IsFunction(Lookup(env, procedure.v))
    THEN WithToken(Error("T1005"), procedure.v)
    ELSE OrNamed(Error("T1006"), CallSiteName(procedure))

\* A callee that is a % out of place is no function.
Callee(procedure, input, env) ==
    LET f == Ev(procedure, input, env)
    IN  IF IsError(f) /\ f.error = "S0217" THEN Undefined ELSE f
\* The [] of a call that a lambda answers with is not looked at, if a lambda
\* is called.
EvalFunction(n, input, env) ==
    LET procedure == n.kids[1]
        name == CallSiteName(procedure)
    IN  AndThen(Callee(procedure, input, env), LAMBDA f :
            IF ~IsFunction(f) THEN NotCallable(procedure, f, env)
            ELSE AndThenAll(EvalOperands(Tail(n.kids), input, env), LAMBDA args :
                LET checked == CheckedArgs(f, args)
                    result == IF IsArray(checked)
                              THEN CallFunction(f, checked.array, input, env) ELSE checked
                IN  KeepIf(n.keep /\ ~(n.thunk /\ IsLambda(f)), OrNamed(result, name))))

-----------------------------------------------------------------------------
(* ~> *)

\* The stages of a chain that leans to the right.
RECURSIVE ChainStages(_)
ChainStages(n) ==
    IF IsBinary(n, "~>") THEN <<n.kids[1]>> \o ChainStages(n.kids[2]) ELSE <<n>>

\* A regular expression is an object, and its pattern a text to be found.
IsRegex(v) == IsObject(v) /\ "pattern" \in DOMAIN v.object
ApplyRegexChain(piped, regex) ==
    LET text == piped.string
        size == Len(regex.object["pattern"].string)
        found == {i \in 0 .. Len(text) - size :
                     SubSeq(text, i + 1, i + size) = regex.object["pattern"].string}
        end == Min(found) + size
    IN  IF ~IsText(piped) \/ found = {} THEN Undefined
        ELSE Object(("match" :> Text(SubSeq(text, Min(found) + 1, end)))
                    @@ ("start" :> Number(Min(found))) @@ ("end" :> Number(end))
                    @@ ("groups" :> Array(<<>>)))
\* A call gets the piped value before its arguments; another function is
\* called with it, or composed with it if it is one.
EvalChainStage(n, piped, input, env) ==
    AndThen(Ev(IF n.k = "Function" THEN n.kids[1] ELSE n, input, env), LAMBDA f :
        CASE n.k = "Function" /\ ~IsFunction(f) ->
                OrNamed(Error("T1006"), CallSiteName(n.kids[1]))
          [] n.k = "Function" /\ IsFunction(f) ->
                AndThenAll(EvalOperands(Tail(n.kids), input, env), LAMBDA args :
                    LET result == OrNamed(CallFunction(f, <<piped>> \o args, input, env),
                                          CallSiteName(n.kids[1]))
                    IN  IF n.keep THEN KeepIf(TRUE, result) ELSE Collapsed(result))
          [] n.k # "Function" /\ IsRegex(f) -> ApplyRegexChain(piped, f)
          [] n.k # "Function" /\ IsFunction(f) ->
                IF IsFunction(piped)
                THEN [composed |-> [inner |-> piped, outer |-> f, env |-> env]]
                ELSE Collapsed(CallFunction(f, <<piped>>, input, env))
          [] OTHER -> Error("T2006"))

\* Every stage runs, whatever the one before it answered.
EvalChain(n, piped, input, env) ==
    FoldLeft(LAMBDA v, stage : AndThen(v, LAMBDA ok : EvalChainStage(stage, ok, input, env)),
             piped, ChainStages(n))
=============================================================================

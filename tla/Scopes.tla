-------------------------------- MODULE Scopes --------------------------------
(***************************************************************************)
(* What the parts of the interpreter share: the evaluator they call back   *)
(* into, which is a parameter here, and the scopes it is called in.  A     *)
(* scope is a record of its variables and of the scope around it;          *)
(* Environment.tla models how the code finds a variable, this one only     *)
(* what it finds.                                                          *)
(***************************************************************************)
EXTENDS Operators, Process

\* eval_inner: the node, the input, the scope.
CONSTANT Ev(_, _, _)

EvalOperand(n, input, env) == Collapsed(Ev(n, input, env))

\* The ? of the language of the code, for a value and for several in order.
AndThen(v, Rest(_)) == IF IsError(v) THEN v ELSE Rest(v)
AndThenAll(values, Rest(_)) ==
    IF \E i \in DOMAIN values : IsError(values[i]) THEN FirstErrorOr(values, Undefined)
    ELSE Rest(values)
EvalOperands(nodes, input, env) ==
    [i \in DOMAIN nodes |-> EvalOperand(nodes[i], input, env)]

NoVariables == [x \in {} |-> x]
RootScope == [vars |-> NoVariables, up |-> <<>>]
Child(env) == [vars |-> NoVariables, up |-> <<env>>]
Bind(env, name, v) == [env EXCEPT !.vars = (name :> v) @@ @]
\* Bound if the name is there, none or one.
BindAll(env, names, v) == IF names = <<>> THEN env ELSE Bind(env, names[1], v)
IsBound(env, name) == name \in DOMAIN env.vars
EnclosingOr(env) == IF env.up = <<>> THEN env ELSE env.up[1]

RECURSIVE Binders(_, _)
\* lookup_with_env: the nearest scope that binds the name, none or one.
Binders(env, name) ==
    CASE IsBound(env, name) -> <<env>>
      [] ~IsBound(env, name) /\ env.up = <<>> -> <<>>
      [] OTHER -> Binders(env.up[1], name)
Lookup(env, name) ==
    LET found == Binders(env, name)
    IN  IF found = <<>> THEN Undefined ELSE found[1].vars[name]

\* The bindings the evaluator keeps for itself.
ParentBinding == "%%"
JoinFlag == "%%j"
ParentShadow == "%%g"

\* A % in a pair of a group finds nothing, instead of failing.
ShadowParent(env) ==
    Bind(Bind(Child(env), ParentBinding, Undefined), ParentShadow, Boolean(TRUE))
ParentOutOfContext == Error("S0217")
\* Evaluation of a %.
EvalParent(env) ==
    LET binders == Binders(env, ParentBinding)
        value == Lookup(env, ParentBinding)
    IN  CASE value \notin {Undefined, Null} -> value
          [] value = Undefined /\ binders # <<>> /\ IsBound(binders[1], ParentShadow) -> Undefined
          [] OTHER -> ParentOutOfContext

RefersToParent(n) == "parent_ref" \in StaticFlags(n)
BindsIndex(n) == "index_binding" \in StaticFlags(n)
UsesGroupBindings(n) == "group_bindings" \in StaticFlags(n)

-----------------------------------------------------------------------------
(* What the lifts and the groups recognise in a node *)

PlainName(n) == n.k = "Name" /\ n.group \o n.focus \o n.index = <<>>

\* The digits of a number, and the half that can be written after a dot.
DigitValue == [d \in {"0", "1", "2", "3"} |-> CHOOSE i \in 0 .. 3 : ToString(i) = d]
NumberOf(n) ==
    LET size == IF Len(n.words) = 3 THEN AndAHalf(DigitValue[n.words[1]])
                ELSE Number(DigitValue[n.words[1]])
    IN  IF n.v = "-" THEN OfHalves(-Halves(size)) ELSE size
ValueLits == ("true" :> Boolean(TRUE)) @@ ("false" :> Boolean(FALSE)) @@ ("null" :> Null)
\* extract_literal: the value of a literal, none or one.
LiteralOf(n) ==
    CASE n.k = "StringLit" -> <<Text(n.v)>>
      [] n.k = "NumberLit" -> <<NumberOf(n)>>
      [] n.k = "ValueLit" -> <<ValueLits[n.v]>>
      [] OTHER -> <<>>

RECURSIVE ConcatOperands(_)
\* The operands of a chain of &, which leans to the left.
ConcatOperands(n) ==
    IF IsBinary(n, "&") THEN Append(ConcatOperands(n.kids[1]), n.kids[2]) ELSE <<n>>

EvalVariable(name, input, env) == IF name = "" THEN input ELSE Lookup(env, name)
=============================================================================

----------------------------- MODULE EntryPoints -----------------------------
(***************************************************************************)
(* The entry points of a compiled expression (expression.rs): each tries   *)
(* the fast evaluators that may answer for it and runs the general one     *)
(* when they defer.  What the evaluators answer is not this module's       *)
(* business; FastPath instantiates it with those of fast_path.rs.          *)
(***************************************************************************)
CONSTANTS Exprs,              \* the expressions compiled
          Documents,          \* the documents they are evaluated on
          Undefined, Null,
          Deferred,           \* what a fast evaluator that has no answer gives
          Called(_),          \* the builtins an expression calls by their names
          FastClass(_),       \* how compilation classified it
          EvalTapePath(_, _), \* the evaluator on the tape of a text,
          EvalFast(_, _),     \* the one of the class, on a value,
          EvalGeneral(_, _, _) \* and the general one, with bindings

VARIABLES expr,        \* the compiled expression
          input,       \* the document
          bound,       \* the builtins the caller's bindings shadow
          phase,       \* "called", "parsed", "deferred" or "done"
          answer       \* the result, once done

vars == <<expr, input, bound, phase, answer>>

\* A mutation of EvalFastWithBindings: every class is tried.
EvalFastAlways(e, v) == EvalFast(e, v)

\* A function is looked up by its name, which the bindings may shadow.
EvalFastWithBindings(e, v) ==
    IF FastClass(e) = "Function" THEN Deferred ELSE EvalFast(e, v)

Init ==
    /\ expr \in Exprs
    /\ input \in Documents
    /\ bound = {}
    /\ phase = "called"
    /\ answer = Undefined

\* Done with the answer of a fast path, or deferred to the general evaluator.
Settle(lifted, otherwise) ==
    IF lifted = Deferred
    THEN phase' = otherwise /\ UNCHANGED answer
    ELSE phase' = "done" /\ answer' = lifted

\* evaluate and evaluate_bytes: the document null is no input at all; any
\* other is walked on the tape, and parsed when the tape has no answer.
EvaluateText ==
    /\ phase = "called"
    /\ \/ /\ input = Null
          /\ input' = Undefined /\ phase' = "parsed"
          /\ UNCHANGED answer
       \/ /\ input # Null
          /\ Settle(EvalTapePath(expr, input), "parsed")
          /\ UNCHANGED input
    /\ UNCHANGED <<expr, bound>>

\* evaluate_value, evaluate_with_cancel: under the plain environment.
EvaluateValue ==
    /\ phase \in {"called", "parsed"}
    /\ Settle(EvalFast(expr, input), "deferred")
    /\ UNCHANGED <<expr, input, bound>>

\* evaluate_with_custom_funcs, evaluate_with_vars, evaluate_with_env: the
\* caller may have bound a function over the builtin that is called.
EvaluateBound ==
    /\ phase = "called"
    /\ bound' \in SUBSET Called(expr)
    /\ Settle(EvalFastWithBindings(expr, input), "deferred")
    /\ UNCHANGED <<expr, input>>

EvaluateGeneral ==
    /\ phase = "deferred"
    /\ phase' = "done" /\ answer' = EvalGeneral(expr, input, bound)
    /\ UNCHANGED <<expr, input, bound>>

Next == EvaluateText \/ EvaluateValue \/ EvaluateBound \/ EvaluateGeneral

Spec == Init /\ [][Next]_vars

\* What calls a builtin by its name has the class of functions, or no fast
\* evaluator answers for it: what the classification owes the entry points.
CallsAreFunctions ==
    \A e \in Exprs : Called(e) # {} =>
        FastClass(e) = "Function" \/ \A v \in Documents : EvalFast(e, v) = Deferred

-----------------------------------------------------------------------------
\* The answer is the general evaluator's.
Agrees == phase = "done" => answer = EvalGeneral(expr, input, bound)

\* A function the caller bound over a builtin is the one that is called: no
\* fast evaluator, to which the name is the builtin's, answers instead
\* (eval_fast_with_bindings).
BindingsWin == bound # {} => Agrees

\* Do the fast evaluators agree with the general one on e and v, where they
\* answer at all?
Faithful(e, v) == {EvalTapePath(e, v), EvalFast(e, v)} \subseteq {Deferred, EvalGeneral(e, v, {})}

\* That is all the entry points need: whichever is used and whatever the
\* caller bound, an expression whose evaluators are faithful has the general
\* evaluator's answer (expression.rs).
EntriesTransparent == Faithful(expr, input) => Agrees
=============================================================================

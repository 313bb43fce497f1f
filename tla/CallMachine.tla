----------------------------- MODULE CallMachine -----------------------------
(***************************************************************************)
(* Function calls during one evaluation: the trampoline of call_function   *)
(* (evaluator/functions.rs), $eval (stdlib/eval_fn.rs), the callbacks of   *)
(* higher-order builtins, the two counters of CallCounter and the          *)
(* cancellation flag another thread may raise at any moment.               *)
(*                                                                         *)
(* The expression is any expression: at every point the code that runs may *)
(* call a lambda, in tail position or not, call a builtin, call $eval,     *)
(* fail or return.  `left' is what remains of a finite piece of code (or   *)
(* of an array a builtin loops over).  Values are not modelled; an outcome *)
(* is "value", an error code ("error" for any other error) or "tail", the  *)
(* TailCall sentinel.                                                      *)
(***************************************************************************)
EXTENDS Naturals, Sequences, FiniteSets

CONSTANTS MaxDepth,   \* CallCounter.max
          MaxIter,    \* max * TAIL_CALL_ITERATIONS_PER_DEPTH
          MaxEval,    \* MAX_EVAL_DEPTH
          CodeSize,   \* bound of this model: calls one piece of code makes
          MaxNatives  \* bound of this model: builtins nested by the text

ASSUME LimitsAssumption == /\ MaxDepth \in Nat /\ MaxIter \in Nat /\ MaxEval \in Nat
                           /\ CodeSize \in Nat /\ MaxNatives \in Nat

VARIABLES stack,     \* Rust frames: the expression, lambda bodies, builtins, $eval
          outcome,   \* what the innermost frame returns, or "running"
          depth,     \* CallCounter.depth
          evalDepth, \* CallCounter.eval_depth
          cancelled, \* the AtomicBool
          refused    \* has a call been refused because of it?

vars == <<stack, outcome, depth, evalDepth, cancelled, refused>>

Errors == {"U1001", "D3001", "D3120", "D3121", "T0410", "error"}

(* A frame: the arena its code is resolved in, the arena that code belongs  *)
(* to, the depth the frame stored, and the trampoline's iterations.         *)
Frame(kind, arena, home, d, iter) ==
    [kind |-> kind, arena |-> arena, home |-> home, left |-> CodeSize,
     depth |-> d, iter |-> iter]

Frames == [kind : {"expr", "body", "native", "eval"}, arena : 0 .. MaxEval,
           home : 0 .. MaxEval, left : 0 .. CodeSize,
           depth : 0 .. MaxDepth, iter : 0 .. MaxIter]

Top == stack[Len(stack)]
Below == SubSeq(stack, 1, Len(stack) - 1)
Count(kind, s) == Cardinality({i \in DOMAIN s : s[i].kind = kind})

Done == stack = <<>>
Running == ~Done /\ outcome = "running"
Returning == ~Done /\ outcome # "running"

(* The stack with one call of the innermost code used up. *)
Spent == [stack EXCEPT ![Len(stack)].left = @ - 1]

(* A call that pushed no frame gives r to the code that made it. *)
Deliver(s, r) == /\ stack' = s
                 /\ outcome' = IF r = "value" THEN "running" ELSE r

Init == /\ stack = <<Frame("expr", 0, 0, 0, 0)>>
        /\ outcome = "running"
        /\ depth = 0
        /\ evalDepth = 0
        /\ cancelled \in BOOLEAN
        /\ refused = FALSE

-----------------------------------------------------------------------------
(* Defect: the limit is compared with the bodies already in progress. *)
EnterOneTooMany(s, d, home, iter) ==
    IF d > MaxDepth
    THEN depth' = d /\ Deliver(s, "U1001")
    ELSE /\ depth' = d + 1
         /\ stack' = Append(s, Frame("body", s[Len(s)].arena, home, d + 1, iter))
         /\ outcome' = "running"

(* One pass of the trampoline with the flag down, for a lambda of arena     *)
(* home called by the innermost frame of s with d bodies in progress.  A   *)
(* signature may reject the arguments or make the result undefined.        *)
Enter(s, d, home, iter) ==
    \/ /\ depth' = d
       /\ \E r \in {"T0410", "value"} : Deliver(s, r)
    \/ /\ d + 1 > MaxDepth
       /\ depth' = d
       /\ Deliver(s, "U1001")
    \/ /\ d + 1 <= MaxDepth
       /\ depth' = d + 1
       /\ stack' = Append(s, Frame("body", s[Len(s)].arena, home, d + 1, iter))
       /\ outcome' = "running"

(* A refusal: D3001, before anything else is looked at. *)
Refuse(s, d) == /\ refused' = TRUE
                /\ depth' = d
                /\ Deliver(s, "D3001")

(* Defect: the flag is read before the loop, not in it. *)
ApplyCheckedOnce(s, d, home, iter) ==
    IF cancelled /\ iter = 0
    THEN Refuse(s, d)
    ELSE Enter(s, d, home, iter) /\ UNCHANGED refused

(* One pass of the loop in call_function. *)
Apply(s, d, home, iter) ==
    IF cancelled
    THEN Refuse(s, d)
    ELSE Enter(s, d, home, iter) /\ UNCHANGED refused

(* call_function on a lambda, from code or from a builtin's loop. *)
CallLambda(home) ==
    /\ Running
    /\ Top.left > 0
    /\ home <= Top.arena
    /\ Apply(Spent, depth, home, 0)
    /\ UNCHANGED <<evalDepth, cancelled>>

(* call_function on a builtin: no check, no counter. *)
CallNative ==
    /\ Running
    /\ Top.left > 0
    /\ Count("native", stack) < MaxNatives
    /\ stack' = Append(Spent, Frame("native", Top.arena, Top.arena, 0, 0))
    /\ UNCHANGED <<outcome, depth, evalDepth, cancelled, refused>>

(* fn_eval: the nesting check, then the parse, then the evaluation of the  *)
(* new arena.  A text that does not parse is D3120, after the counter went *)
(* up and down again.                                                      *)
CallEval ==
    /\ Running
    /\ Top.left > 0
    /\ UNCHANGED <<depth, cancelled, refused>>
    /\ \/ /\ \E r \in {"T0410", "value"} : Deliver(Spent, r)
          /\ UNCHANGED evalDepth
       \/ /\ evalDepth + 1 > MaxEval
          /\ Deliver(Spent, "D3121")
          /\ UNCHANGED evalDepth
       \/ /\ evalDepth + 1 <= MaxEval
          /\ Deliver(Spent, "D3120")
          /\ UNCHANGED evalDepth
       \/ /\ evalDepth + 1 <= MaxEval
          /\ evalDepth' = evalDepth + 1
          /\ stack' = Append(Spent, Frame("eval", evalDepth + 1, evalDepth + 1, 0, 0))
          /\ UNCHANGED outcome

(* The innermost code ends with a value or an error of its own. *)
Conclude ==
    /\ Running
    /\ outcome' \in {"value", "error"}
    /\ UNCHANGED <<stack, depth, evalDepth, cancelled, refused>>

(* eval_function in tail position of a lambda body: the sentinel. *)
TailCall ==
    /\ Running
    /\ Top.kind = "body"
    /\ outcome' = "tail"
    /\ UNCHANGED <<stack, depth, evalDepth, cancelled, refused>>

(* poll_cancelled in a loop that calls nothing. *)
Poll ==
    /\ Running
    /\ cancelled
    /\ refused' = TRUE
    /\ outcome' = "D3001"
    /\ UNCHANGED <<stack, depth, evalDepth, cancelled>>

(* Defect: an error leaves call_function before the counter is restored. *)
ReturnBodyKeepsDepth ==
    /\ Returning
    /\ Top.kind = "body"
    /\ outcome # "tail"
    /\ depth' = IF outcome = "value" THEN Top.depth - 1 ELSE depth
    /\ Deliver(Below, outcome)
    /\ UNCHANGED <<evalDepth, cancelled, refused>>

(* A body returns to the trampoline that ran it. *)
ReturnBody ==
    /\ Returning
    /\ Top.kind = "body"
    /\ outcome # "tail"
    /\ depth' = Top.depth - 1
    /\ Deliver(Below, outcome)
    /\ UNCHANGED <<evalDepth, cancelled, refused>>

(* Defect: tail calls have no budget. *)
BounceForever(home) ==
    /\ Returning
    /\ Top.kind = "body"
    /\ outcome = "tail"
    /\ home <= Top.arena
    /\ Apply(Below, Top.depth - 1, home, Top.iter)
    /\ UNCHANGED <<evalDepth, cancelled>>

(* Defect: the budget is one tail call short. *)
BounceOneShort(home) ==
    /\ Returning
    /\ Top.kind = "body"
    /\ outcome = "tail"
    /\ home <= Top.arena
    /\ UNCHANGED <<evalDepth, cancelled>>
    /\ IF Top.iter + 1 >= MaxIter
       THEN /\ depth' = Top.depth - 1
            /\ Deliver(Below, "U1001")
            /\ UNCHANGED refused
       ELSE Apply(Below, Top.depth - 1, home, Top.iter + 1)

(* A body hands the trampoline a tail call, to a lambda of arena home: one  *)
(* more pass, unless the budget is spent.                                   *)
Bounce(home) ==
    /\ Returning
    /\ Top.kind = "body"
    /\ outcome = "tail"
    /\ home <= Top.arena
    /\ UNCHANGED <<evalDepth, cancelled>>
    /\ IF Top.iter + 1 > MaxIter
       THEN /\ depth' = Top.depth - 1
            /\ Deliver(Below, "U1001")
            /\ UNCHANGED refused
       ELSE Apply(Below, Top.depth - 1, home, Top.iter + 1)

(* Defect: a builtin takes a failing callback for one without a result. *)
ReturnNativeSwallows ==
    /\ Returning
    /\ Top.kind = "native"
    /\ Deliver(Below, "value")
    /\ UNCHANGED <<depth, evalDepth, cancelled, refused>>

(* A builtin returns, or passes its callback's error on. *)
ReturnNative ==
    /\ Returning
    /\ Top.kind = "native"
    /\ Deliver(Below, outcome)
    /\ UNCHANGED <<depth, evalDepth, cancelled, refused>>

(* The end of fn_eval: any error of the inner expression becomes D3121. *)
ReturnEval ==
    /\ Returning
    /\ Top.kind = "eval"
    /\ evalDepth' = IF evalDepth > 0 THEN evalDepth - 1 ELSE 0
    /\ Deliver(Below, IF outcome \in Errors THEN "D3121" ELSE outcome)
    /\ UNCHANGED <<depth, cancelled, refused>>

(* The evaluation ends: `outcome' is its result. *)
ReturnExpr ==
    /\ Returning
    /\ Top.kind = "expr"
    /\ stack' = <<>>
    /\ UNCHANGED <<outcome, depth, evalDepth, cancelled, refused>>

(* Another thread raises the flag. *)
Cancel ==
    /\ ~cancelled
    /\ cancelled' = TRUE
    /\ UNCHANGED <<stack, outcome, depth, evalDepth, refused>>

Evaluate == \/ \E home \in 0 .. MaxEval : CallLambda(home)
            \/ CallNative
            \/ CallEval
            \/ Conclude
            \/ TailCall
            \/ Poll
            \/ ReturnBody
            \/ \E home \in 0 .. MaxEval : Bounce(home)
            \/ ReturnNative
            \/ ReturnEval
            \/ ReturnExpr

Next == Evaluate \/ Cancel

Spec == Init /\ [][Next]_vars /\ WF_vars(Evaluate)

-----------------------------------------------------------------------------
(* Each variable holds a value of its type. *)
TypeOK == /\ stack \in Seq(Frames)
          /\ outcome \in {"running", "value", "tail"} \cup Errors
          /\ depth \in Nat
          /\ evalDepth \in Nat
          /\ cancelled \in BOOLEAN
          /\ refused \in BOOLEAN

(* functions.rs:474-504 and eval_fn.rs:44-73: whatever way calls end - a    *)
(* value, an error at any level, a refusal, a tail call - the counters are  *)
(* the number of lambda bodies and of $evals in progress, so an evaluation  *)
(* that shares the counter with the next one leaves it at zero.             *)
CountersMatchStack == /\ depth = Count("body", stack)
                      /\ evalDepth = Count("eval", stack)

(* A call is refused with U1001 only at the limit: MaxDepth bodies are in   *)
(* progress, or one trampoline has used up its tail calls.                  *)
OverflowOnlyAtLimit ==
    [][outcome' = "U1001" /\ outcome # "U1001" =>
          \/ depth' = MaxDepth
          \/ Top.kind = "body" /\ Top.iter = MaxIter]_vars

(* expression.rs:229-231: once the flag is up no lambda is applied, neither *)
(* by a call nor by another pass of a trampoline.                           *)
CancelStopsLambdas ==
    [][cancelled => \A i \in DOMAIN stack' :
          stack'[i].kind = "body" =>
              /\ i \in DOMAIN stack
              /\ stack[i].kind = "body"
              /\ stack[i].iter = stack'[i].iter]_vars

(* A refused evaluation never ends with a value, and only $eval may give    *)
(* the refusal another code.                                                *)
RefusalReported == refused /\ Done => outcome \in {"D3001", "D3121"}

(* Recursion of every kind is cut off: each evaluation ends. *)
Terminates == <>Done

(* The Rust stack is as deep as the limits say, and the text. *)
StackBounded == Len(stack) <= 1 + MaxDepth + MaxEval + MaxNatives

(* What a frame may still do: passes of its trampoline, calls in this one.  *)
Unspent(f) == (MaxIter - f.iter) * (CodeSize + 1) + f.left

(* t is nearer to the end than s: at the first frame in which they differ,  *)
(* t has nothing, or a frame that may do less.                              *)
Nearer(t, s) == \E i \in DOMAIN s :
                   /\ Len(t) >= i - 1
                   /\ \A j \in 1 .. i - 1 : t[j] = s[j]
                   /\ Len(t) >= i => Unspent(t[i]) < Unspent(s[i])

(* No step of an evaluation is for nothing: every one but that of another   *)
(* thread brings the stack nearer to its end or ends the innermost code.    *)
Advances == [][\/ Nearer(stack', stack)
               \/ stack' = stack /\ outcome = "running" /\ outcome' # "running"
               \/ Cancel]_vars

Calls == [i \in DOMAIN stack |-> [kind |-> stack[i].kind, passes |-> stack[i].iter]]

Limits == INSTANCE CallLimits WITH calls <- Calls

(* The two counters, which every way out of a call has to bring back, are   *)
(* limits on what is in progress: a call is refused exactly when as many of *)
(* its kind are, a tail call takes the place of its caller, and nothing     *)
(* starts after a cancellation but what is no lambda.                       *)
ImplementsLimits == Limits!Spec

-----------------------------------------------------------------------------
(* expression.rs:236, "Returns D3001 if cancelled". *)
CancelIsD3001 == refused /\ Done => outcome = "D3001"

(* parser/ast.rs:109-111: a node id is resolved in the arena it came from.  *)
BodiesInOwnArena ==
    \A i \in DOMAIN stack : stack[i].home = stack[i].arena
=============================================================================

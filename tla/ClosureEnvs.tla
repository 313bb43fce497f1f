---------------------------- MODULE ClosureEnvs -----------------------------
(***************************************************************************)
(* Who keeps an environment alive during one evaluation, and the list of   *)
(* suspects that lets teardown_cycles break reference cycles at its end    *)
(* (crates/jsntrs/src/evaluator/environment.rs and the places that make    *)
(* closures in functions.rs and mod.rs).                                   *)
(*                                                                         *)
(* An environment is reference counted.  It is kept by the evaluator's     *)
(* stack, by its children and by function values, which live in bindings   *)
(* and in flight.  A function value is a lambda, whose calls run in        *)
(* children of the scope it was written in, and which keeps the functions  *)
(* in the focus it was written at; a transform, which runs right in the    *)
(* scope it was written in; or a partial application or a composition,     *)
(* which runs the functions it was made from and keeps the scope it was    *)
(* made in besides.  The root environment is left out: it     *)
(* owns nothing and outlives every evaluation.  So are the lookup caches:  *)
(* they hold what an ancestor binds or has bound, and teardown_cycles      *)
(* empties them with the bindings.                                         *)
(***************************************************************************)
EXTENDS Naturals, Sequences, SequencesExt, FiniteSetsExt

CONSTANTS Env,      \* environments the evaluation may create
          Scope,    \* the evaluation's own scope
          SweepMin, \* CLOSURE_ENV_SWEEP_MIN
          MaxHand,  \* bound of this model: function values in flight
          MaxHeld,  \* bound of this model: functions bound in one scope
          MaxFrames, \* bound of this model: frames when a transform starts
          MaxClosures \* bound of this model: functions that keep or run
                      \* anything but the one scope of a simple lambda

ASSUME ScopeAssumption == Scope \in Env
ASSUME SweepMinAssumption == SweepMin \in Nat \ {0}
ASSUME BoundsAssumption == /\ MaxHand \in Nat /\ MaxHeld \in Nat
                            /\ MaxFrames \in Nat /\ MaxClosures \in Nat

VARIABLES made,     \* environments created so far
          alive,    \* environments not freed
          chain,    \* chain[e]: e's ancestors below the root, parent first
          holds,    \* holds[e]: function values bound in e
          frames,   \* scopes on the evaluator's stack, innermost last
          hand,     \* function values in flight; at the end, the result's
          suspects, \* CallCounter.closure_envs
          sweepAt,  \* CallCounter.closure_envs_sweep_at
          done,     \* has teardown_cycles run?
          born,     \* born[e]: environments created before e
          risky     \* has a function been bound in a scope older than one it
                    \* keeps, or in one it keeps and does not call?

vars == <<made, alive, chain, holds, frames, hand, suspects,
          sweepAt, done, born, risky>>

(* A function value: the scopes of the lambdas it calls, the scopes of the *)
(* transforms it applies, and every scope it keeps alive.                  *)
Function == [calls : SUBSET Env, runs : SUBSET Env, keeps : SUBSET Env]

(* A lambda written in e keeps the functions in its focus, and can run     *)
(* those of them its body finds there: all when it has no parameter and is *)
(* called without arguments, none when the body gets the caller's focus.   *)
Lambda(e, focus, found) == [calls |-> {e} \cup UNION {f.calls : f \in found},
                            runs |-> UNION {f.runs : f \in found},
                            keeps |-> {e} \cup UNION {f.keeps : f \in focus}]
Transformer(e) == [calls |-> {}, runs |-> {e}, keeps |-> {e}]
Combined(e, parts) == [calls |-> UNION {f.calls : f \in parts},
                       runs |-> UNION {f.runs : f \in parts},
                       keeps |-> {e} \cup UNION {f.keeps : f \in parts}]

(* The scope being evaluated in. *)
Top == IF done THEN Scope ELSE Last(frames)

(* What e refers to: its parent and what its bindings keep. *)
Refs(e, up, bound) ==
    {up[e][i] : i \in DOMAIN up[e] \cap {1}} \cup UNION {f.keeps : f \in bound[e]}

(* Defect: the evaluator borrows the scope it runs in. *)
SurvivingWithoutStack(up, bound, stack, flight) ==
    LET Kept(S) == \A e \in S : \/ \E f \in flight : e \in f.keeps
                                \/ \E d \in S : e \in Refs(d, up, bound)
    IN  UNION {S \in SUBSET (alive \cup (made' \ made)) : Kept(S)}

(* Reference counting frees an environment when nothing refers to it any   *)
(* more, and then what only it referred to; a cycle stays.                 *)
Surviving(up, bound, stack, flight) ==
    LET roots == Range(stack) \cup UNION {f.keeps : f \in flight}
        Kept(S) == \A e \in S : \/ e \in roots
                                \/ \E d \in S : e \in Refs(d, up, bound)
    IN  UNION {S \in SUBSET (alive \cup (made' \ made)) : Kept(S)}

(* The next references, and what dropping the last ones frees: a freed      *)
(* environment holds nothing.                                               *)
Settle(up, bound, stack, flight) ==
    /\ alive' = Surviving(up, bound, stack, flight)
    /\ chain' = up
    /\ holds' = [e \in Env |-> IF e \in alive' THEN bound[e] ELSE {}]
    /\ frames' = stack
    /\ hand' = flight

(* Function values a lookup from the innermost scope can find. *)
Visible == UNION {holds[a] : a \in {Top} \cup Range(chain[Top])}

Functions == (UNION {holds[e] : e \in alive}) \cup hand
Simple == {Lambda(e, {}, {}) : e \in Env}
Closures == Functions \ Simple

Init == /\ made = {Scope}
        /\ alive = {Scope}
        /\ chain = [e \in Env |-> <<>>]
        /\ holds = [e \in Env |-> {}]
        /\ frames = <<Scope>>
        /\ hand = {}
        /\ suspects = <<>>
        /\ sweepAt = SweepMin
        /\ done = FALSE
        /\ born = [e \in Env |-> 0]
        /\ risky = FALSE

-----------------------------------------------------------------------------
(* Environment::with_parent: one more environment, the youngest.            *)
Create(e) == /\ made' = made \cup {e}
             /\ born' = [born EXCEPT ![e] = Cardinality(made)]

(* A block, a path step or a group pair evaluates in a child scope. *)
EnterBlock(e) ==
    /\ ~done
    /\ e \in Env \ made
    /\ Create(e)
    /\ Settle([chain EXCEPT ![e] = <<Top>> \o chain[Top]], holds, Append(frames, e), hand)
    /\ UNCHANGED <<suspects, sweepAt, done, risky>>

(* call_function reaches a lambda, alone or in a native closure: a child   *)
(* of the lambda's scope, with the arguments bound.                        *)
Call(e, f, args) ==
    /\ ~done
    /\ e \in Env \ made
    /\ f \in hand \cup Visible
    /\ args \subseteq hand
    /\ Create(e)
    /\ \E scope \in f.calls :
          Settle([chain EXCEPT ![e] = <<scope>> \o chain[scope]], [holds EXCEPT ![e] = args],
                 Append(frames, e), hand)
    /\ UNCHANGED <<suspects, sweepAt, done, risky>>

(* apply_transform evaluates in the transform's own scope. *)
Transform(f) ==
    /\ ~done
    /\ Len(frames) < MaxFrames
    /\ f \in hand \cup Visible
    /\ UNCHANGED <<made, born, suspects, sweepAt, done, risky>>
    /\ \E scope \in f.runs : Settle(chain, holds, Append(frames, scope), hand)

(* The innermost scope is left with a result in flight. *)
Leave ==
    /\ ~done
    /\ Len(frames) > 1
    /\ UNCHANGED <<made, born, suspects, sweepAt, done, risky>>
    /\ Settle(chain, holds, Front(frames), hand)

(* A value in flight is dropped. *)
Discard(f) ==
    /\ ~done
    /\ f \in hand
    /\ UNCHANGED <<made, born, suspects, sweepAt, done, risky>>
    /\ Settle(chain, holds, frames, hand \ {f})

(* compact_closure_envs: the distinct live suspects, in address order.      *)
Compacted(list) == SetToSeqs(Range(list) \cap alive)

(* Defect: the sweep replaces the registration that triggered it. *)
SweepLosesNewest(e) ==
    IF Len(suspects) + 1 < sweepAt
    THEN suspects' = Append(suspects, e) /\ UNCHANGED sweepAt
    ELSE /\ suspects' \in Compacted(suspects)
         /\ sweepAt' = Max({2 * Len(suspects'), SweepMin})

(* Defect: the sweep does not re-arm itself. *)
SweepNotRearmed(e) ==
    LET list == Append(suspects, e)
    IN  /\ IF Len(list) < sweepAt THEN suspects' = list ELSE suspects' \in Compacted(list)
        /\ UNCHANGED sweepAt

(* note_closure_env. *)
NoteClosureEnv(e) ==
    IF suspects # <<>> /\ Last(suspects) = e /\ e \in alive
    THEN UNCHANGED <<suspects, sweepAt>>
    ELSE LET list == Append(suspects, e)
         IN  IF Len(list) < sweepAt
             THEN suspects' = list /\ UNCHANGED sweepAt
             ELSE /\ suspects' \in Compacted(list)
                  /\ sweepAt' = Max({2 * Len(suspects'), SweepMin})

(* Defect: only lambdas of nested scopes are registered. *)
MakeLambdaNestedOnly(focus, found, left) ==
    /\ ~done
    /\ found \in {{}, focus} /\ focus \subseteq hand
    /\ left \in {hand, hand \ focus} /\ Cardinality(left) < MaxHand
    /\ focus # {} => Cardinality(Closures) < MaxClosures
    /\ IF Len(frames) > 1 THEN NoteClosureEnv(Top) ELSE UNCHANGED <<suspects, sweepAt>>
    /\ UNCHANGED <<made, born, done, risky>>
    /\ Settle(chain, holds, frames, left \cup {Lambda(Top, focus, found)})

(* A lambda expression: eval_lambda captures the innermost scope and the    *)
(* focus, which may be or hold functions.  The focus stays in flight with   *)
(* the new lambda, or is dropped in the same expression.                    *)
MakeLambda(focus, found, left) ==
    /\ ~done
    /\ found \in {{}, focus} /\ focus \subseteq hand
    /\ left \in {hand, hand \ focus} /\ Cardinality(left) < MaxHand
    /\ focus # {} => Cardinality(Closures) < MaxClosures
    /\ NoteClosureEnv(Top)
    /\ UNCHANGED <<made, born, done, risky>>
    /\ Settle(chain, holds, frames, left \cup {Lambda(Top, focus, found)})

(* eval_transform captures the innermost scope.  Nothing is noted. *)
MakeTransform ==
    /\ ~done
    /\ Cardinality(Closures) < MaxClosures
    /\ Cardinality(hand) < MaxHand
    /\ UNCHANGED <<made, born, suspects, sweepAt, done, risky>>
    /\ Settle(chain, holds, frames, hand \cup {Transformer(Top)})

(* eval_partial and the composition of eval_chain_step capture the         *)
(* innermost scope and the functions they are made from.  Nothing is noted.*)
Combine(parts) ==
    /\ ~done
    /\ Cardinality(Closures \ parts) < MaxClosures
    /\ parts \subseteq hand
    /\ Cardinality(hand \ parts) < MaxHand
    /\ UNCHANGED <<made, born, suspects, sweepAt, done, risky>>
    /\ Settle(chain, holds, frames, (hand \ parts) \cup {Combined(Top, parts)})

(* Is binding f in the innermost scope harmless for the teardown?  It keeps  *)
(* no younger scope, and the scope itself only to run a lambda in it.       *)
Disciplined(f) ==
    \A e \in f.keeps : born[e] <= born[Top] /\ (e = Top => e \in f.calls)

(* Environment::bind, in the innermost scope; a rebinding drops what the    *)
(* name was bound to.                                                       *)
Bind(f, old) ==
    /\ ~done
    /\ f \in hand
    /\ old \subseteq holds[Top]
    /\ Cardinality(old) <= 1
    /\ Cardinality((holds[Top] \ old) \cup {f}) <= MaxHeld
    /\ risky' = (risky \/ ~Disciplined(f))
    /\ UNCHANGED <<made, born, suspects, sweepAt, done>>
    /\ Settle(chain, [holds EXCEPT ![Top] = (@ \ old) \cup {f}], frames, hand)

(* Environment::lookup finds f. *)
Lookup(f) ==
    /\ ~done
    /\ f \in Visible
    /\ Cardinality(hand \cup {f}) <= MaxHand
    /\ UNCHANGED <<made, born, suspects, sweepAt, done, risky>>
    /\ Settle(chain, holds, frames, hand \cup {f})

(* teardown_cycles at the public boundary: the suspects still alive lose    *)
(* their bindings, then the evaluation's own scope is dropped.                   *)
Finish ==
    /\ ~done
    /\ Len(frames) = 1
    /\ UNCHANGED <<made, born, risky>>
    /\ LET S == Range(suspects) \cap alive
       IN  Settle(chain, [e \in Env |-> IF e \in S THEN {} ELSE holds[e]], <<>>, hand)
    /\ suspects' = <<>>
    /\ sweepAt' = SweepMin
    /\ done' = TRUE

Next == \/ \E e \in Env : EnterBlock(e)
        \/ \E e \in Env, f \in hand \cup Visible, args \in SUBSET hand : Call(e, f, args)
        \/ \E f \in hand \cup Visible : Transform(f)
        \/ Leave
        \/ \E f \in hand : Discard(f)
        \/ \E focus \in SUBSET hand, found \in SUBSET hand, left \in SUBSET hand :
              MakeLambda(focus, found, left)
        \/ MakeTransform
        \/ \E parts \in SUBSET hand : Combine(parts)
        \/ \E f \in hand, old \in SUBSET holds[Top] : Bind(f, old)
        \/ \E f \in Visible : Lookup(f)
        \/ Finish

Spec == Init /\ [][Next]_vars

-----------------------------------------------------------------------------
(* Each variable holds a value of its type. *)
TypeOK == /\ alive \subseteq made /\ made \subseteq Env
          /\ chain \in [Env -> Seq(Env)]
          /\ holds \in [Env -> SUBSET Function]
          /\ frames \in Seq(alive)
          /\ hand \subseteq Function
          /\ suspects \in Seq(Env)
          /\ sweepAt \in Nat
          /\ born \in [Env -> Nat]
          /\ done \in BOOLEAN /\ risky \in BOOLEAN

(* environment.rs:598-600, "every one of them has to be registered when    *)
(* teardown runs": the scope of every lambda that can still run is in the  *)
(* list, through all the sweeps that dropped entries from it.               *)
LambdasRegistered ==
    ~done => \A f \in Functions : f.calls \subseteq Range(suspects)

(* environment.rs:46-52: the list grows with the environments alive, not   *)
(* with the lambdas evaluated.                                              *)
SuspectsBounded ==
    /\ Len(suspects) < sweepAt
    /\ sweepAt <= Max({SweepMin, 2 * Cardinality(made)})

(* The environments the functions in the result still need. *)
Reachable ==
    {e \in Env : \A S \in SUBSET Env :
        (/\ UNION {f.keeps : f \in hand} \subseteq S
         /\ \A d \in S : Refs(d, chain, holds) \subseteq S) => e \in S}

(* environment.rs:340, "Break Rc cycles left behind by lambdas bound into   *)
(* their own scope chain": after teardown nothing is left but what the      *)
(* result needs.                                                            *)
NoLeak == done => alive \subseteq Reachable

(* The same, for evaluations that bound functions only in scopes at least  *)
(* as young as all they keep, and in a scope they keep only to call it: the *)
(* suspects are enough for the cycles such evaluations make.                *)
DisciplinedNeverLeaks == ~risky => NoLeak
=============================================================================

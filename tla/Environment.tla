----------------------------- MODULE Environment -----------------------------
(***************************************************************************)
(* crates/jsntrs/src/evaluator/environment.rs: the environment chain.      *)
(*                                                                         *)
(* Environments form a tree under a root.  Every environment of the tree   *)
(* shares one `generation' counter, bumped by every bind; a lookup that    *)
(* leaves the environment is memoised in that environment's own cache,     *)
(* which is valid only at the generation it was filled at.  Evaluations    *)
(* start under the root with a call counter of their own                   *)
(* (new_eval_child) or under a shared base environment whose counter they  *)
(* use (evaluate_with_env).  Lambdas register the environment they capture *)
(* in that counter's suspects list, and at the end of an evaluation        *)
(* teardown_cycles empties the environments of the list.                   *)
(*                                                                         *)
(* A counter is identified with the environment that created it.  The      *)
(* memory reclaimed when environments are dropped is not modelled here:    *)
(* module ClosureEnvs does that.                                           *)
(***************************************************************************)
EXTENDS LexicalScope

CONSTANTS InputName,  \* "$", bound to the evaluation's input
          MaxBinds,   \* bound of this model: binds in a behaviour
          Reentrant   \* may a host function evaluate on the shared base
                      \* environment while an evaluation runs on it?

ASSUME InputNameAssumption == InputName \in Name
ASSUME MaxBindsAssumption == MaxBinds \in Nat
ASSUME ReentrantAssumption == Reentrant \in BOOLEAN

VARIABLES generation,  \* shared by the whole tree
          cache,       \* cache[e][n]: memoised non-local lookup
          cacheGen,    \* the generation cache[e] was filled at
          calls,       \* calls[e]: the counter e uses
          suspects,    \* suspects[k]: environments registered with counter k
          bases,       \* shared base environments
          running      \* scopes of the evaluations in progress, innermost last

vars == <<live, chain, bindings, dangling, answer, generation, cache,
          cacheGen, calls, suspects, bases, running>>

EmptyCache == [n \in Name |-> Unbound]

Init == /\ LInit
        /\ generation = 0
        /\ cache = [e \in Env |-> EmptyCache]
        /\ cacheGen = [e \in Env |-> 0]
        /\ calls = [e \in Env |-> Root]
        /\ suspects = [e \in Env |-> {}]
        /\ bases = {}
        /\ running = <<>>

(* The counters of the evaluations on the stack s. *)
CountersOf(s) == {calls[s[i]] : i \in DOMAIN s}

-----------------------------------------------------------------------------
(* Construction of an environment e under p, using counter k: an empty     *)
(* cache at the current generation.                                        *)
Create(e, p, k, b) ==
    /\ e \notin live
    /\ p \in live
    /\ live' = live \cup {e}
    /\ chain' = [chain EXCEPT ![e] = <<p>> \o chain[p]]
    /\ bindings' = [bindings EXCEPT ![e] = b]
    /\ cache' = [cache EXCEPT ![e] = EmptyCache]
    /\ cacheGen' = [cacheGen EXCEPT ![e] = generation]
    /\ calls' = [calls EXCEPT ![e] = k]
    /\ UNCHANGED <<answer, suspects>>

(* Defect: the cache of a new scope is marked one generation old.          *)
ChildCacheOneBehind(e, p) == /\ running # <<>>
                             /\ e \notin live
                             /\ p \in live \ {Root}
                             /\ live' = live \cup {e}
                             /\ chain' = [chain EXCEPT ![e] = <<p>> \o chain[p]]
                             /\ cacheGen' = [cacheGen EXCEPT ![e] = generation - 1]
                             /\ calls' = [calls EXCEPT ![e] = calls[p]]
                             /\ UNCHANGED <<generation, dangling, bases, running, bindings,
                                            cache, answer, suspects>>

(* Environment::new_child. *)
NewChild(e, p) == /\ running # <<>>
                  /\ p # Root
                  /\ Create(e, p, calls[p], NoBindings)
                  /\ UNCHANGED <<generation, dangling, bases, running>>

(* An environment made to be shared by several evaluations: the one        *)
(* eval_many builds, or the one new_custom_env hands to the host (a tree   *)
(* of its own: the standard library is then bound in the base itself).     *)
NewBase(e) == /\ Create(e, Root, e, NoBindings)
              /\ bases' = bases \cup {e}
              /\ UNCHANGED <<generation, dangling, running>>

(* Defect: only a first binding of a name bumps the generation. *)
BumpOnInsertOnly(e, n, v) ==
    /\ e \in live \ {Root}
    /\ generation < MaxBinds
    /\ bindings' = [bindings EXCEPT ![e][n] = v]
    /\ generation' = IF bindings[e][n] = Unbound THEN generation + 1 ELSE generation
    /\ dangling' = {}
    /\ UNCHANGED <<live, chain, answer, cache, cacheGen, calls, suspects, bases, running>>

(* Environment::bind. *)
Bind(e, n, v) == /\ e \in live \ {Root}
                 /\ generation < MaxBinds
                 /\ bindings' = [bindings EXCEPT ![e][n] = v]
                 /\ generation' = generation + 1
                 /\ dangling' = {}
                 /\ UNCHANGED <<live, chain, answer, cache, cacheGen, calls,
                                suspects, bases, running>>

(* A new evaluation's scope e, on which the input v, unless it is          *)
(* undefined, is bound as "$".                                             *)
Start(e, p, k, v) ==
    /\ running' = Append(running, e)
    /\ UNCHANGED bases
    /\ IF v = Unbound
       THEN /\ Create(e, p, k, NoBindings)
            /\ UNCHANGED <<generation, dangling>>
       ELSE /\ generation < MaxBinds
            /\ Create(e, p, k, [NoBindings EXCEPT ![InputName] = v])
            /\ generation' = generation + 1
            /\ dangling' = {}

(* Expression::evaluate_value: a fresh counter under the cached root.      *)
StartFresh(e, v) == Start(e, Root, e, v)

(* Expression::evaluate_with_env on a base: the base's counter.            *)
StartShared(e, b, v) ==
    /\ b \in bases
    /\ ~Reentrant => b \notin CountersOf(running)
    /\ Start(e, b, b, v)

(* Defect: an outdated cache is relabelled without being cleared. *)
LookupKeepsOldCache(e, n) ==
    /\ running # <<>>
    /\ e \in live
    /\ LET v == IF bindings[e][n] # Unbound THEN bindings[e][n]
                ELSE IF cache[e][n] # Unbound THEN cache[e][n]
                ELSE Inherited(e, n)
       IN  /\ answer' = <<e, n, v>>
           /\ cache' = [cache EXCEPT ![e][n] = v]
           /\ cacheGen' = [cacheGen EXCEPT ![e] = generation]
    /\ UNCHANGED <<live, chain, bindings, dangling, generation, calls,
                   suspects, bases, running>>

(* Environment::lookup. *)
Lookup(e, n) ==
    /\ running # <<>>
    /\ e \in live
    /\ \/ /\ bindings[e][n] # Unbound
          /\ answer' = <<e, n, bindings[e][n]>>
          /\ UNCHANGED <<cache, cacheGen>>
       \/ /\ bindings[e][n] = Unbound
          /\ cacheGen[e] = generation
          /\ cache[e][n] # Unbound
          /\ answer' = <<e, n, cache[e][n]>>
          /\ UNCHANGED <<cache, cacheGen>>
       \/ /\ bindings[e][n] = Unbound
          /\ cacheGen[e] = generation => cache[e][n] = Unbound
          /\ answer' = <<e, n, Inherited(e, n)>>
          /\ cache' = [cache EXCEPT ![e] =
                [(IF cacheGen[e] = generation THEN cache[e] ELSE EmptyCache)
                    EXCEPT ![n] = Inherited(e, n)]]
          /\ cacheGen' = [cacheGen EXCEPT ![e] = generation]
    /\ UNCHANGED <<live, chain, bindings, dangling, generation, calls,
                   suspects, bases, running>>

(* Defect: the suspect goes to the innermost evaluation's counter. *)
NoteWithInnermost(e) ==
    /\ running # <<>>
    /\ e \in live \ {Root}
    /\ suspects' = [suspects EXCEPT ![calls[running[Len(running)]]] = @ \cup {e}]
    /\ UNCHANGED <<live, chain, bindings, dangling, answer, generation,
                   cache, cacheGen, calls, bases, running>>

(* A lambda expression evaluated in e captures it: note_closure_env.       *)
NoteClosureEnv(e) ==
    /\ running # <<>>
    /\ e \in live \ {Root}
    /\ suspects' = [suspects EXCEPT ![calls[e]] = @ \cup {e}]
    /\ UNCHANGED <<live, chain, bindings, dangling, answer, generation,
                   cache, cacheGen, calls, bases, running>>

(* The innermost evaluation ends, with a value or an error: teardown_cycles *)
(* empties the environments its counter suspects.                           *)
Finish ==
    /\ running # <<>>
    /\ LET k == calls[running[Len(running)]]
           S == suspects[k]
       IN  /\ bindings' = [e \in Env |-> IF e \in S THEN NoBindings
                                                    ELSE bindings[e]]
           /\ cache' = [e \in Env |-> IF e \in S THEN EmptyCache
                                                 ELSE cache[e]]
           /\ dangling' = dangling \cup
                            {e \in live \ S : Ancestors(e) \cap S # {}}
           /\ suspects' = [suspects EXCEPT ![k] = {}]
    /\ running' = SubSeq(running, 1, Len(running) - 1)
    /\ UNCHANGED <<live, chain, answer, generation, cacheGen, calls, bases>>

Next == \/ \E e, p \in Env : NewChild(e, p)
        \/ \E e \in Env : NewBase(e)
        \/ \E e \in Env, n \in Name, v \in Value : Bind(e, n, v)
        \/ \E e \in Env, v \in MaybeValue : StartFresh(e, v)
        \/ \E e, b \in Env, v \in MaybeValue : StartShared(e, b, v)
        \/ \E e \in Env, n \in Name : Lookup(e, n)
        \/ \E e \in Env : NoteClosureEnv(e)
        \/ Finish

Spec == Init /\ [][Next]_vars

-----------------------------------------------------------------------------
(* Each variable holds a value of its type. *)
TypeOK == /\ live \subseteq Env
          /\ chain \in [Env -> Seq(Env)]
          /\ bindings \in [Env -> [Name -> MaybeValue]]
          /\ dangling \subseteq Env
          /\ generation \in Nat
          /\ cache \in [Env -> [Name -> MaybeValue]]
          /\ cacheGen \in [Env -> Nat]
          /\ calls \in [Env -> Env]
          /\ suspects \in [Env -> SUBSET Env]
          /\ bases \subseteq Env
          /\ running \in Seq(Env)

(* environment.rs:107, "lookup discards a cache filled at an older         *)
(* generation": whatever a lookup would still take from a cache is what    *)
(* walking the parent chain finds now, whoever bound what in between.      *)
CacheCoherent ==
    \A e \in live \ dangling, n \in Name :
        cacheGen[e] = generation /\ cache[e][n] # Unbound
            => cache[e][n] = Inherited(e, n)

(* environment.rs:340, "Called at the public API boundary, after           *)
(* evaluation has produced its result": an evaluation that is still in     *)
(* progress when another one is torn down loses no binding.                *)
RunningKeepsBindings ==
    [][\A e \in live, n \in Name :
          calls[e] \in CountersOf(running') /\ bindings[e][n] # Unbound
              => bindings'[e][n] # Unbound]_vars

(* No scope of an evaluation in progress stands under a scope that has     *)
(* been torn down: what its own lookups memoised before is still right.    *)
RunningNotDangling ==
    \A i \in DOMAIN running : running[i] \notin dangling

(* The chain with caches answers as nearest-binding lookup does. *)
ImplementsLexicalScope == LSpec
=============================================================================

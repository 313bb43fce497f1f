---------------------------- MODULE MCEnvironment ----------------------------
(* Environment on a small tree for TLC. *)
EXTENDS Environment, TLC

Symmetric == Permutations(Env \ {Root}) \cup Permutations(Value)

(* `answer' is never read by a step: it need not tell states apart. *)
View == <<live, chain, bindings, dangling, generation, cache, cacheGen,
          calls, suspects, bases, running>>
=============================================================================

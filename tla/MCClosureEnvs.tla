--------------------------- MODULE MCClosureEnvs ----------------------------
(* ClosureEnvs on a few environments for TLC. *)
EXTENDS ClosureEnvs, TLC

Symmetric == Permutations(Env \ {Scope})
=============================================================================

---------------------------- MODULE LexicalScope ----------------------------
(***************************************************************************)
(* What a scope chain promises to the evaluator: a variable resolves to    *)
(* the binding nearest to the scope it is looked up in.  There is no cache *)
(* and no generation counter here; module Environment implements this      *)
(* specification with both.                                                *)
(*                                                                         *)
(* A scope that outlives the teardown of one of its ancestors is           *)
(* `dangling' until something is bound again: the contract says nothing of *)
(* a lookup in it.                                                         *)
(***************************************************************************)
EXTENDS Naturals, Sequences, FiniteSets

CONSTANTS Env,      \* identities of environments
          Name,     \* variable names
          Value,    \* values a name is bound to
          Unbound,  \* no binding
          Root      \* the environment that holds the standard library

ASSUME UnboundAssumption == Unbound \notin Value
ASSUME RootAssumption == Root \in Env

VARIABLES live,      \* environments created so far
          chain,     \* chain[e]: the ancestors of e, its parent first
          bindings,  \* bindings[e][n]: what e itself binds n to
          dangling,  \* scopes an ancestor of which was torn down
          answer     \* the last lookup and what it returned

lvars == <<live, chain, bindings, dangling, answer>>

MaybeValue == Value \cup {Unbound}
NoBindings == [n \in Name |-> Unbound]

(* The positions on e's chain of the ancestors that bind n. *)
Holders(e, n) == {i \in DOMAIN chain[e] : bindings[chain[e][i]][n] # Unbound}

(* The nearest ancestor's binding of n. *)
Inherited(e, n) ==
    IF Holders(e, n) = {}
    THEN Unbound
    ELSE LET nearest == CHOOSE i \in Holders(e, n) :
                           \A j \in Holders(e, n) : i <= j
         IN  bindings[chain[e][nearest]][n]

Resolve(e, n) == IF bindings[e][n] # Unbound THEN bindings[e][n]
                                             ELSE Inherited(e, n)

Ancestors(e) == {chain[e][i] : i \in DOMAIN chain[e]}

-----------------------------------------------------------------------------

LInit == /\ live = {Root}
         /\ chain = [e \in Env |-> <<>>]
         /\ bindings \in [Env -> [Name -> MaybeValue]]
         /\ \A e \in Env \ {Root} : bindings[e] = NoBindings
         /\ dangling = {}
         /\ answer = <<>>

(* A scope is opened under a live one, with bindings of its own. *)
LOpen(e, p, b) == /\ e \notin live
                  /\ p \in live
                  /\ live' = live \cup {e}
                  /\ chain' = [chain EXCEPT ![e] = <<p>> \o chain[p]]
                  /\ bindings' = [bindings EXCEPT ![e] = b]
                  /\ dangling' = IF b = NoBindings THEN dangling ELSE {}
                  /\ UNCHANGED answer

LBind(e, n, v) == /\ e \in live
                  /\ bindings' = [bindings EXCEPT ![e][n] = v]
                  /\ dangling' = {}
                  /\ UNCHANGED <<live, chain, answer>>

LLookup(e, n, v) == /\ e \in live
                    /\ e \notin dangling => v = Resolve(e, n)
                    /\ answer' = <<e, n, v>>
                    /\ UNCHANGED <<live, chain, bindings, dangling>>

(* The bindings of the scopes in S are dropped. *)
LClear(S) == /\ S \subseteq live \ {Root}
             /\ bindings' = [e \in Env |-> IF e \in S THEN NoBindings
                                                      ELSE bindings[e]]
             /\ dangling' = dangling \cup
                              {e \in live \ S : Ancestors(e) \cap S # {}}
             /\ UNCHANGED <<live, chain, answer>>

LNext == \/ \E e, p \in Env, b \in [Name -> MaybeValue] : LOpen(e, p, b)
         \/ \E e \in Env, n \in Name, v \in Value : LBind(e, n, v)
         \/ \E e \in Env, n \in Name, v \in MaybeValue : LLookup(e, n, v)
         \/ \E S \in SUBSET Env : LClear(S)

LSpec == LInit /\ [][LNext]_lvars
=============================================================================

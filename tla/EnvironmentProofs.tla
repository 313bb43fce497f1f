-------------------------- MODULE EnvironmentProofs --------------------------
(* Proofs about module Environment, for every tree and every number of     *)
(* names, values and binds.                                                 *)
EXTENDS Environment, WellFoundedInduction, TLAPS

(* The shape of the tree: chains, suspects and evaluations name created     *)
(* environments only, the root is never suspect, and no cache is from the   *)
(* future.                                                                  *)
Shape == /\ Root \in live
         /\ \A e \in live : Ancestors(e) \subseteq live
         /\ \A k \in Env : suspects[k] \subseteq live \ {Root}
         /\ \A i \in DOMAIN running : running[i] \in live
         /\ dangling \subseteq live
         /\ \A e \in Env : cacheGen[e] <= generation

(* The inductive invariant. *)
IInv == TypeOK /\ Shape /\ CacheCoherent

(* A non-empty set of naturals has a least element. *)
LEMMA LeastNatural ==
    ASSUME NEW S, S \subseteq Nat, S # {}
    PROVE  \E i \in S : \A j \in S : i <= j
<1>1. \E i \in S : \A j \in S : <<j, i>> \notin OpToRel(<, Nat)
  BY NatLessThanWellFounded, WFMin
<1>2. PICK i \in S : \A j \in S : <<j, i>> \notin OpToRel(<, Nat)
  BY <1>1
<1>3. ASSUME NEW j \in S PROVE i <= j
  <2>1. i \in Nat /\ j \in Nat
    BY <1>2
  <2>2. <<j, i>> \in Nat \X Nat
    BY <2>1
  <2>3. ~(j < i)
    BY <1>2, <2>2 DEF OpToRel
  <2> QED
    BY <2>1, <2>3
<1> QED
  BY <1>3

(* If some ancestor binds n, there is a nearest one that does. *)
LEMMA NearestIsHolder ==
    ASSUME TypeOK, NEW e \in Env, NEW n, Holders(e, n) # {}
    PROVE  (CHOOSE i \in Holders(e, n) : \A j \in Holders(e, n) : i <= j)
              \in Holders(e, n)
<1>1. Holders(e, n) \in SUBSET Nat
  BY DEF Holders, TypeOK
<1>2. \E i \in Holders(e, n) : \A j \in Holders(e, n) : i <= j
  BY <1>1, LeastNatural
<1> QED
  BY <1>2

(* What an environment inherits is a value or nothing. *)
LEMMA InheritedType ==
    ASSUME TypeOK, NEW e \in Env, NEW n \in Name
    PROVE  Inherited(e, n) \in MaybeValue
<1>1. CASE Holders(e, n) = {}
  BY <1>1 DEF Inherited, MaybeValue
<1>2. CASE Holders(e, n) # {}
  <2> DEFINE nearest == CHOOSE i \in Holders(e, n) :
                            \A j \in Holders(e, n) : i <= j
  <2>1. nearest \in DOMAIN chain[e]
    BY <1>2, NearestIsHolder DEF Holders
  <2>2. chain[e][nearest] \in Env
    BY <2>1 DEF TypeOK
  <2> QED
    BY <1>2, <2>2 DEF Inherited, TypeOK
<1> QED
  BY <1>1, <1>2

(* What an environment inherits depends on its own chain and on what its    *)
(* ancestors bind, and on nothing else.                                     *)
LEMMA InheritedDepends ==
    ASSUME TypeOK, NEW e \in Env, NEW n,
           chain'[e] = chain[e],
           \A a \in Ancestors(e) : bindings'[a] = bindings[a]
    PROVE  Inherited(e, n)' = Inherited(e, n)
<1>1. \A i \in DOMAIN chain[e] : bindings'[chain[e][i]] = bindings[chain[e][i]]
  BY DEF Ancestors
<1>2. Holders(e, n)' = Holders(e, n)
  BY <1>1 DEF Holders
<1>3. CASE Holders(e, n) = {}
  BY <1>2, <1>3 DEF Inherited
<1>4. CASE Holders(e, n) # {}
  <2> DEFINE nearest == CHOOSE i \in Holders(e, n) :
                            \A j \in Holders(e, n) : i <= j
  <2>1. nearest \in DOMAIN chain[e]
    BY <1>4, NearestIsHolder DEF Holders
  <2> QED
    BY <1>1, <1>2, <1>4, <2>1 DEF Inherited
<1> QED
  BY <1>3, <1>4

-----------------------------------------------------------------------------
(* Making an environment changes what no other environment inherits, and    *)
(* preserves the invariant whatever the new environment binds, if that is   *)
(* the only place the generation may have moved for.                        *)
LEMMA CreateStep ==
    ASSUME IInv, NEW e \in Env, NEW p \in Env, NEW k \in Env,
           NEW b \in [Name -> MaybeValue], Create(e, p, k, b),
           generation' \in Nat, generation' >= generation,
           dangling' \subseteq dangling,
           dangling' = dangling \/ generation' > generation,
           bases' \in SUBSET Env,
           running' = running \/ running' = Append(running, e)
    PROVE  IInv'
<1> USE DEF IInv
<1>0. /\ e \notin live /\ p \in live
      /\ live' = live \cup {e}
      /\ chain' = [chain EXCEPT ![e] = <<p>> \o chain[p]]
      /\ bindings' = [bindings EXCEPT ![e] = b]
      /\ cache' = [cache EXCEPT ![e] = EmptyCache]
      /\ cacheGen' = [cacheGen EXCEPT ![e] = generation]
      /\ calls' = [calls EXCEPT ![e] = k]
      /\ suspects' = suspects
  BY DEF Create
<1>1. TypeOK'
  <2>1. chain' \in [Env -> Seq(Env)]
    BY <1>0 DEF TypeOK
  <2>2. running' \in Seq(Env)
    <3>1. running \in Seq(Env) /\ Append(running, e) \in Seq(Env)
      BY DEF TypeOK
    <3> QED
      BY <3>1
  <2>3. cache' \in [Env -> [Name -> MaybeValue]]
    BY <1>0 DEF TypeOK, EmptyCache, MaybeValue
  <2>4. live' \subseteq Env /\ dangling' \subseteq Env
    BY <1>0 DEF TypeOK
  <2>5. bindings' \in [Env -> [Name -> MaybeValue]]
    BY <1>0 DEF TypeOK
  <2>6. cacheGen' \in [Env -> Nat] /\ calls' \in [Env -> Env]
        /\ suspects' \in [Env -> SUBSET Env] /\ bases' \subseteq Env
    BY <1>0 DEF TypeOK
  <2> QED
    BY <2>1, <2>2, <2>3, <2>4, <2>5, <2>6 DEF TypeOK
<1>2. \A f \in live : f # e /\ chain'[f] = chain[f] /\ bindings'[f] = bindings[f]
  BY <1>0 DEF TypeOK
<1>3. Shape'
  <2>1. ASSUME NEW f \in live PROVE Ancestors(f)' \subseteq live'
    <3>1. Ancestors(f)' = Ancestors(f)
      BY <1>2 DEF Ancestors
    <3> QED
      BY <1>0, <3>1 DEF Shape
  <2>2. Ancestors(e)' \subseteq live'
    <3>1. chain'[e] = <<p>> \o chain[p] /\ chain[p] \in Seq(Env)
      BY <1>0 DEF TypeOK
    <3>2. \A i \in DOMAIN chain'[e] :
             chain'[e][i] = p \/ \E j \in DOMAIN chain[p] : chain'[e][i] = chain[p][j]
      BY <3>1
    <3>3. Ancestors(e)' \subseteq {p} \cup Ancestors(p)
      BY <3>2 DEF Ancestors
    <3> QED
      BY <1>0, <3>3 DEF Shape
  <2>3. \A i \in DOMAIN running' : running'[i] \in live'
    <3>1. CASE running' = running
      BY <1>0, <3>1 DEF Shape
    <3>2. CASE running' = Append(running, e)
      <4>0. running \in Seq(Env)
        BY DEF TypeOK
      <4>1. \A i \in DOMAIN running' :
               running'[i] = e \/ (i \in DOMAIN running /\ running'[i] = running[i])
        BY <3>2, <4>0
      <4> QED
        BY <1>0, <4>1 DEF Shape
    <3> QED
      BY <3>1, <3>2
  <2>4. \A f \in Env : cacheGen'[f] <= generation'
    BY <1>0 DEF TypeOK, Shape
  <2>5. \A f \in live' : Ancestors(f)' \subseteq live'
    BY <1>0, <2>1, <2>2
  <2> QED
    BY <1>0, <2>3, <2>4, <2>5 DEF Shape
<1>4. CacheCoherent'
  <2> SUFFICES ASSUME NEW f \in live', f \notin dangling', NEW n \in Name,
                      cacheGen'[f] = generation', cache'[f][n] # Unbound
               PROVE  cache'[f][n] = Inherited(f, n)'
    BY DEF CacheCoherent
  <2>1. f # e
    BY <1>0 DEF TypeOK, EmptyCache
  <2>2. f \in live /\ cacheGen[f] = generation' /\ cache'[f] = cache[f]
    BY <1>0, <2>1 DEF TypeOK
  <2>3. generation' = generation /\ dangling' = dangling
    BY <2>2 DEF Shape, TypeOK
  <2>4. cache[f][n] = Inherited(f, n)
    BY <2>2, <2>3 DEF CacheCoherent
  <2>5. chain'[f] = chain[f] /\ \A a \in Ancestors(f) : bindings'[a] = bindings[a]
    BY <1>2, <2>2 DEF Shape
  <2>6. Inherited(f, n)' = Inherited(f, n)
    BY <2>2, <2>5, InheritedDepends DEF TypeOK
  <2> QED
    BY <2>2, <2>4, <2>6
<1> QED
  BY <1>1, <1>3, <1>4

(* Scope creation of an evaluation, with or without an input. *)
LEMMA StartStep ==
    ASSUME IInv, NEW e \in Env, NEW p \in Env, NEW k \in Env,
           NEW v \in MaybeValue, Start(e, p, k, v)
    PROVE  IInv'
<1>1. CASE v = Unbound
  <2>1. NoBindings \in [Name -> MaybeValue]
    BY DEF NoBindings, MaybeValue
  <2>2. Create(e, p, k, NoBindings) /\ running' = Append(running, e)
        /\ generation' = generation /\ dangling' = dangling /\ bases' = bases
    BY <1>1 DEF Start
  <2>3. generation' \in Nat /\ generation' >= generation /\ bases' \in SUBSET Env
        /\ dangling' \subseteq dangling
        /\ (dangling' = dangling \/ generation' > generation)
    BY <2>2 DEF IInv, TypeOK
  <2> QED
    BY <2>1, <2>2, <2>3, CreateStep
<1>2. CASE v # Unbound
  <2>1. [NoBindings EXCEPT ![InputName] = v] \in [Name -> MaybeValue]
    BY DEF NoBindings, MaybeValue
  <2>2. Create(e, p, k, [NoBindings EXCEPT ![InputName] = v])
        /\ running' = Append(running, e)
        /\ generation' = generation + 1 /\ dangling' = {} /\ bases' = bases
    BY <1>2 DEF Start
  <2>3. generation' \in Nat /\ generation' >= generation /\ bases' \in SUBSET Env
        /\ dangling' \subseteq dangling
        /\ (dangling' = dangling \/ generation' > generation)
    BY <2>2 DEF IInv, TypeOK
  <2> QED
    BY <2>1, <2>2, <2>3, CreateStep
<1> QED
  BY <1>1, <1>2
-----------------------------------------------------------------------------
(* A bind outdates every cache. *)
LEMMA BindStep ==
    ASSUME IInv, NEW e \in Env, NEW n \in Name, NEW v \in Value, Bind(e, n, v)
    PROVE  IInv'
<1> USE DEF IInv
<1>0. /\ e \in live
      /\ bindings' = [bindings EXCEPT ![e][n] = v]
      /\ generation' = generation + 1
      /\ dangling' = {}
      /\ UNCHANGED <<live, chain, cache, cacheGen, calls, suspects, bases, running>>
  BY DEF Bind
<1>1. TypeOK'
  <2>1. bindings' \in [Env -> [Name -> MaybeValue]]
    BY <1>0 DEF TypeOK, MaybeValue
  <2> QED
    BY <1>0, <2>1 DEF TypeOK
<1>2. Shape'
  <2>1. \A f \in Env : cacheGen'[f] <= generation'
    BY <1>0 DEF Shape, TypeOK
  <2>2. \A f \in live' : Ancestors(f)' \subseteq live'
    BY <1>0 DEF Shape, Ancestors
  <2> QED
    BY <1>0, <2>1, <2>2 DEF Shape
<1>3. CacheCoherent'
  <2>1. \A f \in live : f \in Env /\ cacheGen'[f] # generation'
    BY <1>0 DEF Shape, TypeOK
  <2> QED
    BY <1>0, <2>1 DEF CacheCoherent
<1> QED
  BY <1>1, <1>2, <1>3

(* A lookup leaves a valid cache, or fills one from the chain. *)
LEMMA LookupStep ==
    ASSUME IInv, NEW e \in Env, NEW n \in Name, Lookup(e, n)
    PROVE  IInv'
<1> USE DEF IInv
<1>0. UNCHANGED <<live, chain, bindings, dangling, generation, calls, suspects,
                  bases, running>>
  BY DEF Lookup
<1>1. CASE UNCHANGED <<cache, cacheGen>>
  <2>1. TypeOK'
    BY <1>0, <1>1 DEF TypeOK
  <2>2. Shape'
    BY <1>0, <1>1 DEF Shape, Ancestors
  <2>3. \A f, m : Inherited(f, m)' = Inherited(f, m)
    BY <1>0 DEF Inherited, Holders
  <2>4. CacheCoherent'
    BY <1>0, <1>1, <2>3 DEF CacheCoherent
  <2> QED
    BY <2>1, <2>2, <2>4
<1>2. ASSUME ~ UNCHANGED <<cache, cacheGen>> PROVE IInv'
  <2> DEFINE kept == IF cacheGen[e] = generation THEN cache[e] ELSE EmptyCache
  <2>1. /\ cache' = [cache EXCEPT ![e] = [kept EXCEPT ![n] = Inherited(e, n)]]
        /\ cacheGen' = [cacheGen EXCEPT ![e] = generation]
    BY <1>2 DEF Lookup
  <2>2. Inherited(e, n) \in MaybeValue
    BY InheritedType
  <2>3. kept \in [Name -> MaybeValue]
    BY DEF TypeOK, EmptyCache, MaybeValue
  <2>4. TypeOK'
    <3>1. cache' \in [Env -> [Name -> MaybeValue]]
      BY <2>1, <2>2, <2>3 DEF TypeOK
    <3>2. cacheGen' \in [Env -> Nat]
      BY <2>1 DEF TypeOK
    <3> QED
      BY <1>0, <3>1, <3>2 DEF TypeOK
  <2>5. Shape'
    <3>1. \A f \in Env : cacheGen'[f] <= generation'
      BY <1>0, <2>1 DEF Shape, TypeOK
    <3>2. \A f \in live' : Ancestors(f)' \subseteq live'
      BY <1>0 DEF Shape, Ancestors
    <3> QED
      BY <1>0, <3>1, <3>2 DEF Shape
  <2>6. CacheCoherent'
    <3> SUFFICES ASSUME NEW f \in live, f \notin dangling, NEW m \in Name,
                        cacheGen'[f] = generation, cache'[f][m] # Unbound
                 PROVE  cache'[f][m] = Inherited(f, m)
      <4>1. \A f, m : Inherited(f, m)' = Inherited(f, m)
        BY <1>0 DEF Inherited, Holders
      <4> QED
        BY <1>0, <4>1 DEF CacheCoherent
    <3>1. f \in Env
      BY DEF TypeOK
    <3>2. CASE f # e
      <4>1. cacheGen[f] = generation /\ cache'[f] = cache[f]
        BY <2>1, <3>1, <3>2 DEF TypeOK
      <4> QED
        BY <4>1 DEF CacheCoherent
    <3>3. CASE f = e /\ m = n
      BY <2>1, <2>3, <3>3 DEF TypeOK
    <3>4. CASE f = e /\ m # n
      <4>1. cache'[e][m] = kept[m]
        BY <2>1, <2>3, <3>4 DEF TypeOK
      <4>2. cacheGen[e] = generation /\ kept = cache[e]
        BY <3>4, <4>1 DEF EmptyCache
      <4> QED
        BY <3>4, <4>1, <4>2 DEF CacheCoherent
    <3> QED
      BY <3>2, <3>3, <3>4
  <2> QED
    BY <2>4, <2>5, <2>6
<1> QED
  BY <1>1, <1>2

(* Teardown empties scopes; whoever inherits from one of them and keeps its *)
(* cache is dangling from then on.                                          *)
LEMMA FinishStep ==
    ASSUME IInv, Finish
    PROVE  IInv'
<1> USE DEF IInv
<1> DEFINE k == calls[running[Len(running)]]
           S == suspects[k]
<1>0. /\ running # <<>>
      /\ bindings' = [f \in Env |-> IF f \in S THEN NoBindings ELSE bindings[f]]
      /\ cache' = [f \in Env |-> IF f \in S THEN EmptyCache ELSE cache[f]]
      /\ dangling' = dangling \cup {f \in live \ S : Ancestors(f) \cap S # {}}
      /\ suspects' = [suspects EXCEPT ![k] = {}]
      /\ running' = SubSeq(running, 1, Len(running) - 1)
      /\ UNCHANGED <<live, chain, generation, cacheGen, calls, bases>>
  BY DEF Finish
<1>1. running \in Seq(Env) /\ Len(running) \in Nat /\ Len(running) >= 1
  BY <1>0 DEF TypeOK
<1>2. k \in Env
  BY <1>1 DEF TypeOK
<1>3. /\ running' \in Seq(Env)
      /\ \A i \in DOMAIN running' : i \in DOMAIN running /\ running'[i] = running[i]
  BY <1>0, <1>1
<1>4. TypeOK'
  <2>1. bindings' \in [Env -> [Name -> MaybeValue]]
    BY <1>0 DEF TypeOK, NoBindings, MaybeValue
  <2>2. cache' \in [Env -> [Name -> MaybeValue]]
    BY <1>0 DEF TypeOK, EmptyCache, MaybeValue
  <2>3. suspects' \in [Env -> SUBSET Env] /\ dangling' \subseteq Env
    BY <1>0 DEF TypeOK
  <2> QED
    BY <1>0, <1>3, <2>1, <2>2, <2>3 DEF TypeOK
<1>5. Shape'
  <2>1. \A f \in live' : Ancestors(f)' \subseteq live'
    BY <1>0 DEF Shape, Ancestors
  <2>2. \A c \in Env : suspects'[c] \subseteq live' \ {Root}
    BY <1>0, <1>2 DEF Shape, TypeOK
  <2>3. \A i \in DOMAIN running' : running'[i] \in live'
    BY <1>0, <1>3 DEF Shape
  <2> QED
    BY <1>0, <2>1, <2>2, <2>3 DEF Shape
<1>6. CacheCoherent'
  <2> SUFFICES ASSUME NEW f \in live, f \notin dangling', NEW n \in Name,
                      cacheGen[f] = generation, cache'[f][n] # Unbound
               PROVE  cache'[f][n] = Inherited(f, n)'
    BY <1>0 DEF CacheCoherent
  <2>1. f \in Env
    BY DEF TypeOK
  <2>2. f \notin S
    BY <1>0, <2>1 DEF EmptyCache
  <2>3. f \notin dangling /\ Ancestors(f) \cap S = {}
    BY <1>0, <2>2
  <2>4. cache'[f] = cache[f] /\ cache[f][n] = Inherited(f, n)
    BY <1>0, <2>1, <2>2, <2>3 DEF CacheCoherent
  <2>5. \A a \in Ancestors(f) : bindings'[a] = bindings[a]
    BY <1>0, <2>3 DEF Shape, TypeOK
  <2>6. chain'[f] = chain[f]
    BY <1>0
  <2>7. Inherited(f, n)' = Inherited(f, n)
    BY <2>1, <2>5, <2>6, InheritedDepends
  <2> QED
    BY <2>4, <2>7
<1> QED
  BY <1>4, <1>5, <1>6

LEMMA InitInvariant == Init => IInv
<1> SUFFICES ASSUME Init PROVE IInv
  OBVIOUS
<1> USE DEF Init, LInit
<1>1. TypeOK
  BY RootAssumption DEF TypeOK, EmptyCache, MaybeValue
<1>2. Shape
  BY RootAssumption DEF Shape, Ancestors
<1>3. CacheCoherent
  BY RootAssumption DEF CacheCoherent, EmptyCache
<1> QED
  BY <1>1, <1>2, <1>3 DEF IInv

LEMMA StepInvariant == IInv /\ [Next]_vars => IInv'
<1> SUFFICES ASSUME IInv, [Next]_vars PROVE IInv'
  OBVIOUS
<1>1. ASSUME NEW e \in Env, NEW p \in Env, NewChild(e, p) PROVE IInv'
  <2>1. NoBindings \in [Name -> MaybeValue] /\ calls[p] \in Env
    BY DEF NoBindings, MaybeValue, IInv, TypeOK
  <2>2. Create(e, p, calls[p], NoBindings)
        /\ UNCHANGED <<generation, dangling, bases, running>>
    BY <1>1 DEF NewChild
  <2>3. generation' \in Nat /\ generation' >= generation /\ bases' \in SUBSET Env
    BY <2>2 DEF IInv, TypeOK
  <2> QED
    BY <2>1, <2>2, <2>3, CreateStep
<1>2. ASSUME NEW e \in Env, NewBase(e) PROVE IInv'
  <2>1. NoBindings \in [Name -> MaybeValue]
    BY DEF NoBindings, MaybeValue
  <2>2. Create(e, Root, e, NoBindings) /\ bases' = bases \cup {e}
        /\ UNCHANGED <<generation, dangling, running>>
    BY <1>2 DEF NewBase
  <2>3. generation' \in Nat /\ generation' >= generation /\ bases' \in SUBSET Env
    BY <2>2 DEF IInv, TypeOK
  <2> QED
    BY <2>1, <2>2, <2>3, RootAssumption, CreateStep
<1>3. ASSUME NEW e \in Env, NEW n \in Name, NEW v \in Value, Bind(e, n, v) PROVE IInv'
  BY <1>3, BindStep
<1>4. ASSUME NEW e \in Env, NEW v \in MaybeValue, StartFresh(e, v) PROVE IInv'
  BY <1>4, RootAssumption, StartStep DEF StartFresh
<1>5. ASSUME NEW e \in Env, NEW b \in Env, NEW v \in MaybeValue, StartShared(e, b, v)
      PROVE  IInv'
  BY <1>5, StartStep DEF StartShared
<1>6. ASSUME NEW e \in Env, NEW n \in Name, Lookup(e, n) PROVE IInv'
  BY <1>6, LookupStep
<1>7. ASSUME NEW e \in Env, NoteClosureEnv(e) PROVE IInv'
  <2>0. e \in live \ {Root} /\ suspects' = [suspects EXCEPT ![calls[e]] = @ \cup {e}]
        /\ UNCHANGED <<live, chain, bindings, dangling, generation, cache, cacheGen,
                       calls, bases, running>>
    BY <1>7 DEF NoteClosureEnv
  <2>1. TypeOK'
    BY <2>0 DEF IInv, TypeOK
  <2>2. Shape'
    <3>1. \A c \in Env : suspects'[c] \subseteq live \ {Root}
      BY <2>0 DEF IInv, Shape, TypeOK
    <3> QED
      BY <2>0, <3>1 DEF IInv, Shape, Ancestors
  <2>3. \A f, m : Inherited(f, m)' = Inherited(f, m)
    BY <2>0 DEF Inherited, Holders
  <2>4. CacheCoherent'
    BY <2>0, <2>3 DEF IInv, CacheCoherent
  <2> QED
    BY <2>1, <2>2, <2>4 DEF IInv
<1>8. ASSUME Finish PROVE IInv'
  BY <1>8, FinishStep
<1>9. CASE UNCHANGED vars
  <2>1. \A f, m : Inherited(f, m)' = Inherited(f, m)
    BY <1>9 DEF vars, Inherited, Holders
  <2>2. TypeOK'
    BY <1>9 DEF vars, IInv, TypeOK
  <2>3. Shape'
    BY <1>9 DEF vars, IInv, Shape, Ancestors
  <2>4. CacheCoherent'
    BY <1>9, <2>1 DEF vars, IInv, CacheCoherent
  <2> QED
    BY <2>2, <2>3, <2>4 DEF IInv
<1> QED
  BY <1>1, <1>2, <1>3, <1>4, <1>5, <1>6, <1>7, <1>8, <1>9 DEF Next

LEMMA Invariance == Spec => []IInv
  BY InitInvariant, StepInvariant, PTL DEF Spec

(* Every variable keeps its type. *)
THEOREM TypeCorrect == Spec => []TypeOK
<1>1. IInv => TypeOK
  BY DEF IInv
<1> QED
  BY <1>1, Invariance, PTL

(* A lookup is never answered from a cache that a bind has outdated,        *)
(* however deep the tree and however many scopes and evaluations share it.  *)
THEOREM CacheIsCoherent == Spec => []CacheCoherent
<1>1. IInv => CacheCoherent
  BY DEF IInv
<1> QED
  BY <1>1, Invariance, PTL
-----------------------------------------------------------------------------
(* The scope an evaluation starts in opens with its input, if any. *)
LEMMA StartRefines ==
    ASSUME NEW e \in Env, NEW p \in Env, NEW k \in Env, NEW v \in MaybeValue,
           Start(e, p, k, v)
    PROVE  LNext
<1>1. CASE v = Unbound
  <2>1. NoBindings \in [Name -> MaybeValue]
    BY DEF NoBindings, MaybeValue
  <2>2. LOpen(e, p, NoBindings)
    BY <1>1 DEF Start, Create, LOpen
  <2> QED
    BY <2>1, <2>2 DEF LNext
<1>2. CASE v # Unbound
  <2> DEFINE b == [NoBindings EXCEPT ![InputName] = v]
  <2>1. b \in [Name -> MaybeValue] /\ b # NoBindings
    BY <1>2, InputNameAssumption DEF NoBindings, MaybeValue
  <2>2. Create(e, p, k, b) /\ dangling' = {}
    BY <1>2 DEF Start
  <2>3. LOpen(e, p, b)
    BY <2>1, <2>2 DEF Create, LOpen
  <2> QED
    BY <2>1, <2>3 DEF LNext
<1> QED
  BY <1>1, <1>2

(* Whichever of its three sources a lookup answers from, the answer is the  *)
(* nearest binding.                                                         *)
LEMMA LookupRefines ==
    ASSUME IInv, NEW e \in Env, NEW n \in Name, Lookup(e, n)
    PROVE  LNext
<1>1. /\ e \in live
      /\ UNCHANGED <<live, chain, bindings, dangling>>
  BY DEF Lookup
<1>2. Inherited(e, n) \in MaybeValue /\ bindings[e][n] \in MaybeValue
      /\ cache[e][n] \in MaybeValue
  BY InheritedType DEF IInv, TypeOK
<1>3. PICK v \in MaybeValue : answer' = <<e, n, v>> /\ (e \notin dangling => v = Resolve(e, n))
  <2>1. CASE bindings[e][n] # Unbound
    <3>1. answer' = <<e, n, bindings[e][n]>> /\ bindings[e][n] = Resolve(e, n)
      BY <2>1 DEF Lookup, Resolve
    <3> QED
      BY <1>2, <3>1
  <2>2. CASE bindings[e][n] = Unbound /\ cacheGen[e] = generation /\ cache[e][n] # Unbound
    <3>1. answer' = <<e, n, cache[e][n]>>
      BY <2>2 DEF Lookup
    <3>2. e \notin dangling => cache[e][n] = Resolve(e, n)
      BY <1>1, <2>2 DEF IInv, CacheCoherent, Resolve
    <3> QED
      BY <1>2, <3>1, <3>2
  <2>3. CASE bindings[e][n] = Unbound /\ ~(cacheGen[e] = generation /\ cache[e][n] # Unbound)
    <3>1. answer' = <<e, n, Inherited(e, n)>> /\ Inherited(e, n) = Resolve(e, n)
      BY <2>3 DEF Lookup, Resolve
    <3> QED
      BY <1>2, <3>1
  <2> QED
    BY <2>1, <2>2, <2>3
<1>4. LLookup(e, n, v)
  BY <1>1, <1>3 DEF LLookup
<1> QED
  BY <1>3, <1>4 DEF LNext

LEMMA StepRefines == IInv /\ [Next]_vars => [LNext]_lvars
<1> SUFFICES ASSUME IInv, [Next]_vars PROVE LNext \/ UNCHANGED lvars
  OBVIOUS
<1>1. ASSUME NEW e \in Env, NEW p \in Env, NewChild(e, p) PROVE LNext
  <2>1. NoBindings \in [Name -> MaybeValue]
    BY DEF NoBindings, MaybeValue
  <2>2. LOpen(e, p, NoBindings)
    BY <1>1 DEF NewChild, Create, LOpen
  <2> QED
    BY <2>1, <2>2 DEF LNext
<1>2. ASSUME NEW e \in Env, NewBase(e) PROVE LNext
  <2>1. NoBindings \in [Name -> MaybeValue]
    BY DEF NoBindings, MaybeValue
  <2>2. LOpen(e, Root, NoBindings)
    BY <1>2 DEF NewBase, Create, LOpen
  <2> QED
    BY <2>1, <2>2, RootAssumption DEF LNext
<1>3. ASSUME NEW e \in Env, NEW n \in Name, NEW v \in Value, Bind(e, n, v) PROVE LNext
  <2>1. LBind(e, n, v)
    BY <1>3 DEF Bind, LBind
  <2> QED
    BY <2>1 DEF LNext
<1>4. ASSUME NEW e \in Env, NEW v \in MaybeValue, StartFresh(e, v) PROVE LNext
  BY <1>4, RootAssumption, StartRefines DEF StartFresh
<1>5. ASSUME NEW e \in Env, NEW b \in Env, NEW v \in MaybeValue, StartShared(e, b, v)
      PROVE  LNext
  BY <1>5, StartRefines DEF StartShared
<1>6. ASSUME NEW e \in Env, NEW n \in Name, Lookup(e, n) PROVE LNext
  BY <1>6, LookupRefines
<1>7. ASSUME NEW e \in Env, NoteClosureEnv(e) PROVE UNCHANGED lvars
  BY <1>7 DEF NoteClosureEnv, lvars
<1>8. ASSUME Finish PROVE LNext
  <2> DEFINE S == suspects[calls[running[Len(running)]]]
  <2>1. running # <<>> /\ running \in Seq(Env)
    BY <1>8 DEF Finish, IInv, TypeOK
  <2>2. calls[running[Len(running)]] \in Env
    BY <2>1 DEF IInv, TypeOK
  <2>3. S \subseteq live \ {Root} /\ S \in SUBSET Env
    BY <2>2 DEF IInv, Shape, TypeOK
  <2>4. LClear(S)
    BY <1>8, <2>3 DEF Finish, LClear
  <2> QED
    BY <2>3, <2>4 DEF LNext
<1>9. CASE UNCHANGED vars
  BY <1>9 DEF vars, lvars
<1> QED
  BY <1>1, <1>2, <1>3, <1>4, <1>5, <1>6, <1>7, <1>8, <1>9 DEF Next

(* The environments with their caches, their shared generation and their    *)
(* teardown answer every lookup as the chain of scopes alone would.         *)
THEOREM Refinement == Spec => ImplementsLexicalScope
<1>1. Init => LInit
  BY DEF Init
<1> QED
  BY <1>1, StepRefines, Invariance, PTL DEF Spec, LSpec, ImplementsLexicalScope
-----------------------------------------------------------------------------
(* Who owns what: a scope stands under scopes of its own counter up to the  *)
(* root, a counter suspects its own scopes, and, when a shared base is not  *)
(* evaluated on twice at a time, no two evaluations share a counter.        *)
Owned == /\ Ancestors(Root) = {}
         /\ \A e \in live : calls[e] \in live
         /\ \A e \in live : \A a \in Ancestors(e) : a = Root \/ calls[a] = calls[e]
         /\ \A k \in Env : \A e \in suspects[k] : calls[e] = k
         /\ \A b \in bases : b \in live /\ calls[b] = b
         /\ \A i, j \in DOMAIN running : calls[running[i]] = calls[running[j]] => i = j

OInv == IInv /\ Owned /\ RunningNotDangling

(* A new scope under the root or under a scope of the same counter. *)
LEMMA CreateOwned ==
    ASSUME OInv, NEW e \in Env, NEW p \in Env, NEW k \in Env, NEW b, Create(e, p, k, b),
           p = Root \/ calls[p] = k,
           k = e \/ k \in live,
           bases' = bases \/ (bases' = bases \cup {e} /\ k = e),
           dangling' \subseteq dangling,
           \/ running' = running
           \/ running' = Append(running, e) /\ k \notin CountersOf(running)
    PROVE  Owned' /\ RunningNotDangling'
<1>0. /\ e \notin live /\ p \in live
      /\ live' = live \cup {e}
      /\ chain' = [chain EXCEPT ![e] = <<p>> \o chain[p]]
      /\ calls' = [calls EXCEPT ![e] = k]
      /\ suspects' = suspects
  BY DEF Create
<1>1. chain \in [Env -> Seq(Env)] /\ calls \in [Env -> Env] /\ live \subseteq Env
      /\ running \in Seq(Env) /\ dangling \subseteq live
  BY DEF OInv, IInv, TypeOK, Shape
<1>2. \A f \in live : f # e /\ calls'[f] = calls[f] /\ Ancestors(f)' = Ancestors(f)
                      /\ Ancestors(f) \subseteq live
  BY <1>0, <1>1 DEF Ancestors, OInv, IInv, Shape
<1>3. Ancestors(e)' \subseteq {p} \cup Ancestors(p)
  <2>1. chain'[e] = <<p>> \o chain[p] /\ chain[p] \in Seq(Env)
    BY <1>0, <1>1
  <2>2. \A i \in DOMAIN chain'[e] :
           chain'[e][i] = p \/ \E j \in DOMAIN chain[p] : chain'[e][i] = chain[p][j]
    BY <2>1
  <2> QED
    BY <2>2 DEF Ancestors
<1>4. \A f \in live' : \A a \in Ancestors(f)' : a = Root \/ calls'[a] = calls'[f]
  <2>1. ASSUME NEW f \in live PROVE \A a \in Ancestors(f)' : a = Root \/ calls'[a] = calls'[f]
    BY <1>2 DEF OInv, Owned
  <2>2. \A a \in Ancestors(e)' : a = Root \/ calls'[a] = calls'[e]
    <3>0. calls'[e] = k
      BY <1>0, <1>1
    <3>1. CASE p = Root
      BY <1>0, <1>2, <1>3, <3>0, <3>1 DEF OInv, Owned
    <3>2. CASE p # Root
      BY <1>0, <1>2, <1>3, <3>0, <3>2 DEF OInv, Owned
    <3> QED
      BY <3>1, <3>2
  <2> QED
    BY <1>0, <2>1, <2>2
<1>5. Ancestors(Root)' = {}
  BY <1>2 DEF OInv, IInv, Shape, Owned
<1>6. \A f \in live' : calls'[f] \in live'
  BY <1>0, <1>1, <1>2 DEF OInv, Owned
<1>7. \A c \in Env : \A f \in suspects'[c] : calls'[f] = c
  BY <1>0, <1>2 DEF OInv, IInv, Shape, Owned
<1>8. \A b1 \in bases' : b1 \in live' /\ calls'[b1] = b1
  BY <1>0, <1>1, <1>2 DEF OInv, Owned
<1>9. CASE running' = running
  <2>1. \A i \in DOMAIN running : running[i] \in live /\ calls'[running[i]] = calls[running[i]]
    BY <1>2 DEF OInv, IInv, Shape
  <2>2. \A i, j \in DOMAIN running' : calls'[running'[i]] = calls'[running'[j]] => i = j
    BY <1>9, <2>1 DEF OInv, Owned
  <2>3. RunningNotDangling'
    BY <1>9 DEF OInv, RunningNotDangling
  <2> QED
    BY <1>4, <1>5, <1>6, <1>7, <1>8, <2>2, <2>3 DEF Owned
<1>10. CASE running' = Append(running, e) /\ k \notin CountersOf(running)
  <2>0. \A i \in DOMAIN running' :
           \/ i \in DOMAIN running /\ running'[i] = running[i]
           \/ i = Len(running) + 1 /\ running'[i] = e
    BY <1>1, <1>10
  <2>1. \A i \in DOMAIN running : running[i] \in live /\ calls'[running[i]] = calls[running[i]]
                                 /\ calls[running[i]] # k
    BY <1>2, <1>10 DEF OInv, IInv, Shape, CountersOf
  <2>2. calls'[e] = k
    BY <1>0, <1>1
  <2>3. \A i, j \in DOMAIN running' : calls'[running'[i]] = calls'[running'[j]] => i = j
    BY <2>0, <2>1, <2>2 DEF OInv, Owned
  <2>4. RunningNotDangling'
    BY <1>0, <1>1, <2>0 DEF OInv, RunningNotDangling
  <2> QED
    BY <1>4, <1>5, <1>6, <1>7, <1>8, <2>3, <2>4 DEF Owned
<1> QED
  BY <1>9, <1>10

(* Only the ended evaluation's counter is torn down, and no evaluation that *)
(* goes on uses it.                                                         *)
LEMMA FinishOwned ==
    ASSUME OInv, Finish
    PROVE  /\ Owned' /\ RunningNotDangling'
           /\ \A e \in live, n \in Name :
                 calls[e] \in CountersOf(running') => bindings'[e] = bindings[e]
<1> DEFINE k == calls[running[Len(running)]]
           S == suspects[k]
<1>0. /\ running # <<>>
      /\ bindings' = [f \in Env |-> IF f \in S THEN NoBindings ELSE bindings[f]]
      /\ dangling' = dangling \cup {f \in live \ S : Ancestors(f) \cap S # {}}
      /\ suspects' = [suspects EXCEPT ![k] = {}]
      /\ running' = SubSeq(running, 1, Len(running) - 1)
      /\ UNCHANGED <<live, chain, calls, bases>>
  BY DEF Finish
<1>1. running \in Seq(Env) /\ Len(running) \in Nat /\ Len(running) >= 1
      /\ calls \in [Env -> Env] /\ live \subseteq Env /\ suspects \in [Env -> SUBSET Env]
      /\ bindings \in [Env -> [Name -> MaybeValue]]
  BY <1>0 DEF OInv, IInv, TypeOK
<1>2. k \in Env
  BY <1>1
<1>3. \A i \in DOMAIN running' : /\ i \in DOMAIN running /\ running'[i] = running[i]
                                  /\ i # Len(running)
  BY <1>0, <1>1
<1>4. \A i \in DOMAIN running' : calls[running'[i]] # k
  <2>1. Len(running) \in DOMAIN running
    BY <1>1
  <2> QED
    BY <1>3, <2>1 DEF OInv, Owned
<1>5. \A e \in S : calls[e] = k /\ e \in live \ {Root}
  BY <1>2 DEF OInv, IInv, Shape, Owned
<1>6. Owned'
  <2>1. \A c \in Env : \A e \in suspects'[c] : calls'[e] = c
    BY <1>0, <1>1, <1>2 DEF OInv, Owned
  <2>2. \A i, j \in DOMAIN running' : calls'[running'[i]] = calls'[running'[j]] => i = j
    BY <1>0, <1>3 DEF OInv, Owned
  <2>3. \A e : Ancestors(e)' = Ancestors(e)
    BY <1>0 DEF Ancestors
  <2> QED
    BY <1>0, <2>1, <2>2, <2>3 DEF OInv, Owned
<1>7. RunningNotDangling'
  <2> SUFFICES ASSUME NEW i \in DOMAIN running' PROVE running'[i] \notin dangling'
    BY DEF RunningNotDangling
  <2>1. running'[i] \in live /\ running'[i] \notin dangling /\ calls[running'[i]] # k
    BY <1>3, <1>4 DEF OInv, IInv, Shape, RunningNotDangling
  <2>2. Ancestors(running'[i]) \cap S = {}
    BY <1>5, <2>1 DEF OInv, Owned
  <2> QED
    BY <1>0, <2>1, <2>2
<1>8. ASSUME NEW e \in live, calls[e] \in CountersOf(running')
      PROVE  bindings'[e] = bindings[e]
  <2>1. PICK i \in DOMAIN running' : calls[e] = calls[running'[i]]
    BY <1>8 DEF CountersOf
  <2>2. e \notin S
    BY <1>4, <1>5, <2>1
  <2> QED
    BY <1>0, <1>1, <2>2
<1> QED
  BY <1>6, <1>7, <1>8

LEMMA InitOwned == Init => OInv
<1> SUFFICES ASSUME Init PROVE Owned /\ RunningNotDangling
  BY InitInvariant DEF OInv
<1> QED
  BY RootAssumption DEF Init, LInit, Owned, RunningNotDangling, Ancestors

LEMMA StepOwned == ~Reentrant /\ OInv /\ [Next]_vars => OInv'
<1> SUFFICES ASSUME ~Reentrant, OInv, [Next]_vars PROVE Owned' /\ RunningNotDangling'
  BY StepInvariant DEF OInv
<1>0. live \subseteq Env /\ calls \in [Env -> Env] /\ Root \in live
      /\ \A i \in DOMAIN running : running[i] \in live
  BY DEF OInv, IInv, TypeOK, Shape
<1>1. ASSUME NEW e \in Env, NEW p \in Env, NewChild(e, p)
      PROVE  Owned' /\ RunningNotDangling'
  <2>1. Create(e, p, calls[p], NoBindings) /\ p \in live
        /\ UNCHANGED <<dangling, bases, running>>
    BY <1>1 DEF NewChild, Create
  <2>2. calls[p] \in Env /\ calls[p] \in live
    BY <1>0, <2>1 DEF OInv, Owned
  <2> QED
    BY <2>1, <2>2, CreateOwned
<1>2. ASSUME NEW e \in Env, NewBase(e) PROVE Owned' /\ RunningNotDangling'
  <2>1. Create(e, Root, e, NoBindings) /\ bases' = bases \cup {e}
        /\ UNCHANGED <<dangling, running>>
    BY <1>2 DEF NewBase
  <2> QED
    BY <2>1, RootAssumption, CreateOwned
<1>3. ASSUME NEW e \in Env, NEW n \in Name, NEW v \in Value, Bind(e, n, v)
      PROVE  Owned' /\ RunningNotDangling'
  BY <1>3 DEF Bind, OInv, Owned, RunningNotDangling, Ancestors
<1>4. ASSUME NEW e \in Env, NEW v \in MaybeValue, StartFresh(e, v)
      PROVE  Owned' /\ RunningNotDangling'
  <2>1. PICK b : Create(e, Root, e, b) /\ running' = Append(running, e) /\ bases' = bases
                 /\ dangling' \subseteq dangling
    BY <1>4 DEF StartFresh, Start
  <2>2. e \notin CountersOf(running)
    BY <1>0, <2>1 DEF Create, CountersOf, OInv, Owned
  <2> QED
    BY <2>1, <2>2, RootAssumption, CreateOwned
<1>5. ASSUME NEW e \in Env, NEW p \in Env, NEW v \in MaybeValue, StartShared(e, p, v)
      PROVE  Owned' /\ RunningNotDangling'
  <2>1. PICK b : Create(e, p, p, b) /\ running' = Append(running, e) /\ bases' = bases
                 /\ dangling' \subseteq dangling
    BY <1>5 DEF StartShared, Start
  <2>2. p \notin CountersOf(running) /\ calls[p] = p /\ p \in live
    BY <1>5 DEF StartShared, OInv, Owned
  <2> QED
    BY <2>1, <2>2, CreateOwned
<1>6. ASSUME NEW e \in Env, NEW n \in Name, Lookup(e, n) PROVE Owned' /\ RunningNotDangling'
  <2>1. UNCHANGED <<live, chain, dangling, calls, suspects, bases, running>>
    BY <1>6 DEF Lookup
  <2> QED
    BY <2>1 DEF OInv, Owned, RunningNotDangling, Ancestors
<1>7. ASSUME NEW e \in Env, NoteClosureEnv(e) PROVE Owned' /\ RunningNotDangling'
  <2>0. e \in live /\ suspects' = [suspects EXCEPT ![calls[e]] = @ \cup {e}]
        /\ UNCHANGED <<live, chain, dangling, calls, bases, running>>
    BY <1>7 DEF NoteClosureEnv
  <2>1. \A k \in Env : \A f \in suspects'[k] : calls'[f] = k
    BY <1>0, <2>0 DEF OInv, IInv, TypeOK, Owned
  <2>2. \A f : Ancestors(f)' = Ancestors(f)
    BY <2>0 DEF Ancestors
  <2> QED
    BY <2>0, <2>1, <2>2 DEF OInv, Owned, RunningNotDangling
<1>8. ASSUME Finish PROVE Owned' /\ RunningNotDangling'
  BY <1>8, FinishOwned
<1>9. CASE UNCHANGED vars
  BY <1>9 DEF vars, OInv, Owned, RunningNotDangling, Ancestors
<1> QED
  BY <1>1, <1>2, <1>3, <1>4, <1>5, <1>6, <1>7, <1>8, <1>9 DEF Next

LEMMA OwnedInvariance == ~Reentrant => (Spec => []OInv)
<1>1. CASE Reentrant
  BY <1>1
<1>2. CASE ~Reentrant
  <2>1. OInv /\ [Next]_vars => OInv'
    BY <1>2, StepOwned
  <2> QED
    BY <2>1, InitOwned, PTL DEF Spec
<1> QED
  BY <1>1, <1>2

(* While no two evaluations on one shared base overlap, a scope of an       *)
(* evaluation in progress never stands under a torn down one.               *)
THEOREM NeverDangling == ~Reentrant => (Spec => []RunningNotDangling)
<1>1. OInv => RunningNotDangling
  BY DEF OInv
<1> QED
  BY <1>1, OwnedInvariance, PTL

(* No step takes a binding away from an evaluation that goes on after it.   *)
LEMMA StepKeepsBindings ==
    ASSUME OInv, [Next]_vars, NEW e \in live, NEW n \in Name,
           calls[e] \in CountersOf(running'), bindings[e][n] # Unbound
    PROVE  bindings'[e][n] # Unbound
<1>0. live \subseteq Env /\ bindings \in [Env -> [Name -> MaybeValue]] /\ Root \in live
  BY DEF OInv, IInv, TypeOK, Shape
<1>1. ASSUME NEW f \in Env, NEW p, NEW k, NEW b, Create(f, p, k, b)
      PROVE  bindings'[e] = bindings[e]
  BY <1>0, <1>1 DEF Create
<1>2. ASSUME NEW f \in Env, NEW p \in Env, NEW k \in Env, NEW v \in MaybeValue,
             Start(f, p, k, v)
      PROVE  bindings'[e] = bindings[e]
  BY <1>1, <1>2 DEF Start
<1>3. ASSUME NEW f \in Env, NEW m \in Name, NEW v \in Value, Bind(f, m, v)
      PROVE  bindings'[e][n] # Unbound
  BY <1>0, <1>3, UnboundAssumption DEF Bind
<1>4. ASSUME Finish PROVE bindings'[e] = bindings[e]
  BY <1>4, FinishOwned
<1>5. CASE UNCHANGED bindings
  BY <1>5
<1> QED
  BY <1>1, <1>2, <1>3, <1>4, <1>5, RootAssumption
     DEF Next, NewChild, NewBase, StartFresh, StartShared, Lookup, NoteClosureEnv, vars

(* Whatever evaluations a host function starts in between, the end of one   *)
(* takes no binding away from another that is still in progress, unless     *)
(* both run on the same shared base.                                        *)
THEOREM TeardownIsLocal == ~Reentrant => (Spec => RunningKeepsBindings)
<1>1. CASE Reentrant
  BY <1>1
<1>2. CASE ~Reentrant
  <2> DEFINE Kept == \A e \in live, n \in Name :
                       calls[e] \in CountersOf(running') /\ bindings[e][n] # Unbound
                          => bindings'[e][n] # Unbound
  <2>1. OInv /\ [Next]_vars => [Kept]_vars
    BY StepKeepsBindings
  <2>2. Spec => []OInv
    BY <1>2, OwnedInvariance
  <2> QED
    BY <2>1, <2>2, PTL DEF Spec, RunningKeepsBindings
<1> QED
  BY <1>1, <1>2
=============================================================================

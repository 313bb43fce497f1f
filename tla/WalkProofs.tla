------------------------------ MODULE WalkProofs ------------------------------
(* Proofs about the walks of module FastPath, for all documents and paths.  *)
EXTENDS FastPath, SequenceTheorems, NaturalsInduction, WellFoundedInduction, TLAPS

-----------------------------------------------------------------------------
(* Numbers *)

(* What holds of 0, and of a successor when of its number, holds of all. *)
LEMMA EveryNumber ==
    ASSUME NEW T, 0 \in T, \A k \in Nat : k \in T => k + 1 \in T
    PROVE  \A k \in Nat : k \in T
<1> SUFFICES ASSUME NEW n \in Nat, n \notin T PROVE FALSE
  OBVIOUS
<1> DEFINE S == {k \in Nat : k \notin T}
<1>1. IsWellFoundedOn(OpToRel(<, Nat), Nat)
  BY NatLessThanWellFounded
<1>2. PICK x \in S : \A y \in S : <<y, x>> \notin OpToRel(<, Nat)
  <2>1. S \subseteq Nat /\ S # {}
    OBVIOUS
  <2> HIDE DEF S
  <2> QED
    BY <1>1, <2>1, WFMin
<1>3. \A y \in S : ~(y < x)
  BY <1>2 DEF OpToRel
<1>4. x \in Nat /\ x # 0 /\ x - 1 \in Nat /\ x - 1 \notin S
  BY <1>3
<1> QED
  BY <1>4

LEMMA NumbersUpTo ==
    ASSUME NEW n \in Nat, NEW T, 0 \in T, \A k \in 0 .. n - 1 : k \in T => k + 1 \in T
    PROVE  \A k \in 0 .. n : k \in T
<1> DEFINE U == {k \in Nat : k <= n => k \in T}
<1>1. 0 \in U /\ \A k \in Nat : k \in U => k + 1 \in U
  OBVIOUS
<1> HIDE DEF U
<1>2. \A k \in Nat : k \in U
  BY <1>1, EveryNumber, Zenon
<1> QED
  BY <1>2 DEF U

(* What holds of the last of them, and of each when of the next, of all.    *)
LEMMA NumbersDownTo ==
    ASSUME NEW n \in Nat, NEW T, n + 1 \in T, \A k \in 1 .. n : k + 1 \in T => k \in T
    PROVE  \A k \in 1 .. n + 1 : k \in T
<1> DEFINE U == {j \in 0 .. n : n + 1 - j \in T}
<1>1. 0 \in U
  OBVIOUS
<1>2. ASSUME NEW j \in 0 .. n - 1, j \in U PROVE j + 1 \in U
  <2>1. n - j \in 1 .. n /\ (n - j) + 1 = n + 1 - j
    OBVIOUS
  <2>2. n - j \in T
    BY <1>2, <2>1
  <2>3. n + 1 - (j + 1) = n - j
    OBVIOUS
  <2> QED
    BY <2>2, <2>3
<1> HIDE DEF U
<1>3. \A j \in 0 .. n : j \in U
  BY <1>1, <1>2, NumbersUpTo
<1> SUFFICES ASSUME NEW k \in 1 .. n + 1 PROVE k \in T
  OBVIOUS
<1>4. n + 1 - k \in 0 .. n /\ n + 1 - (n + 1 - k) = k
  OBVIOUS
<1> QED
  BY <1>3, <1>4 DEF U

LEMMA GreatestOf ==
    ASSUME NEW n \in Nat, NEW t \in SUBSET (1 .. n), t # {}
    PROVE  Max(t) \in t /\ \A y \in t : y <= Max(t)
<1> DEFINE T == {k \in Nat : (\E y \in t : y <= k) =>
                              \E x \in t : x <= k /\ \A y \in t : y <= k => y <= x}
<1>1. 0 \in T
  OBVIOUS
<1>2. ASSUME NEW k \in Nat, k \in T PROVE k + 1 \in T
  <2>1. CASE k + 1 \in t
    <3>1. \A y \in t : y <= k + 1 => y <= k + 1
      OBVIOUS
    <3> QED
      BY <2>1, <3>1
  <2>2. CASE k + 1 \notin t
    <3>1. \A y \in t : y <= k + 1 <=> y <= k
      BY <2>2
    <3> QED
      BY <1>2, <3>1
  <2> QED
    BY <2>1, <2>2
<1> HIDE DEF T
<1>3. n \in T
  BY <1>1, <1>2, EveryNumber, Zenon
<1>4. \E x \in t : \A y \in t : y <= x
  <2>1. \A y \in t : y <= n
    OBVIOUS
  <2>2. (\E y \in t : y <= n) =>
            \E x \in t : x <= n /\ \A y \in t : y <= n => y <= x
    BY <1>3, Zenon DEF T
  <2> QED
    BY <2>1, <2>2, Zenon
<1>5. \E x \in t : \A y \in t : x >= y
  BY <1>4
<1>6. Max(t) \in t /\ \A y \in t : Max(t) >= y
  BY <1>5, Zenon DEF Max
<1> QED
  BY <1>6

(* The numbers up to k + 1 are those up to k and their greatest. *)
LEMMA LastOfPrefix ==
    ASSUME NEW n \in Nat, NEW k \in 1 .. n
    PROVE  /\ 1 .. k \in SUBSET (1 .. n) /\ 1 .. k # {} /\ Max(1 .. k) = k
           /\ (1 .. k) \ {Max(1 .. k)} = 1 .. k - 1
<1>1. 1 .. k \in SUBSET (1 .. n) /\ 1 .. k # {}
  OBVIOUS
<1>2. Max(1 .. k) \in 1 .. k /\ \A y \in 1 .. k : y <= Max(1 .. k)
  BY <1>1, GreatestOf
<1>3. Max(1 .. k) = k
  BY <1>2
<1> QED
  BY <1>1, <1>3

-----------------------------------------------------------------------------
(* Recursive functions and folds *)

(* A functional that reads of its argument only what has a smaller measure. *)
Contractive(S, R, m, G) ==
    /\ m \in [S -> Nat]
    /\ \A g \in [S -> R] : G[g] \in [S -> R]
    /\ \A g, h \in [S -> R] : \A x \in S :
           (\A y \in S : m[y] < m[x] => g[y] = h[y]) => G[g][x] = G[h][x]

(* It has a fixed point: the function that its equation defines exists.     *)
LEMMA RecursionExists ==
    ASSUME NEW S, NEW R, NEW m, NEW G, R # {}, Contractive(S, R, m, G)
    PROVE  \E f \in [S -> R] : f = G[f]
<1>m. m \in [S -> Nat]
  BY DEF Contractive
<1> USE <1>m
<1>r. PICK r \in R : TRUE
  OBVIOUS
<1> DEFINE F == [S -> R]
           A(n) == {g \in F : \A x \in S : m[x] < n => g[x] = G[g][x]}
<1>0. \A g \in F : G[g] \in F
  BY DEF Contractive
<1>1. \A n \in Nat : A(n) # {}
  <2> DEFINE T == {n \in Nat : A(n) # {}}
  <2>1. 0 \in T
    <3>1. [x \in S |-> r] \in A(0)
      OBVIOUS
    <3> QED
      BY <3>1
  <2>2. ASSUME NEW n \in Nat, n \in T PROVE n + 1 \in T
    <3>1. PICK g \in F : \A x \in S : m[x] < n => g[x] = G[g][x]
      BY <2>2
    <3>2. G[g] \in F
      BY <1>0
    <3>3. ASSUME NEW x \in S, m[x] < n + 1 PROVE G[g][x] = G[G[g]][x]
      <4>1. \A y \in S : m[y] < m[x] => m[y] < n
        BY <3>3
      <4>2. \A y \in S : m[y] < m[x] => g[y] = G[g][y]
        BY <3>1, <4>1
      <4> QED
        BY <3>2, <4>2 DEF Contractive
    <3>4. G[g] \in A(n + 1)
      BY <3>2, <3>3
    <3> QED
      BY <3>4
  <2> HIDE DEF T
  <2>3. \A n \in Nat : n \in T
    BY <2>1, <2>2, EveryNumber, Zenon
  <2> QED
    BY <2>3 DEF T
<1>2. ASSUME NEW n \in Nat, NEW p \in Nat, NEW g \in A(n), NEW h \in A(p), NEW z \in S,
             m[z] < n, m[z] < p
      PROVE  g[z] = h[z]
  <2> DEFINE T == {k \in Nat : \A x \in S : m[x] < k /\ m[x] < n /\ m[x] < p => g[x] = h[x]}
  <2>1. 0 \in T
    OBVIOUS
  <2>2. ASSUME NEW k \in Nat, k \in T PROVE k + 1 \in T
    <3> SUFFICES ASSUME NEW x \in S, m[x] < k + 1, m[x] < n, m[x] < p PROVE g[x] = h[x]
      OBVIOUS
    <3>1. \A y \in S : m[y] < m[x] => g[y] = h[y]
      <4> SUFFICES ASSUME NEW y \in S, m[y] < m[x] PROVE g[y] = h[y]
        OBVIOUS
      <4>1. m[y] < k /\ m[y] < n /\ m[y] < p
        OBVIOUS
      <4> QED
        BY <2>2, <4>1
    <3>2. G[g][x] = G[h][x]
      BY <3>1 DEF Contractive
    <3> QED
      BY <3>2
  <2> HIDE DEF T
  <2>3. m[z] + 1 \in T
    <3>1. \A k \in Nat : k \in T
      BY <2>1, <2>2, EveryNumber, Zenon
    <3> QED
      BY <3>1
  <2> QED
    BY <1>2, <2>3 DEF T
<1> DEFINE c(x) == CHOOSE g \in A(m[x] + 1) : TRUE
           f == [x \in S |-> c(x)[x]]
<1>3. \A x \in S : c(x) \in A(m[x] + 1)
  <2> SUFFICES ASSUME NEW x \in S PROVE c(x) \in A(m[x] + 1)
    OBVIOUS
  <2>1. m[x] + 1 \in Nat
    OBVIOUS
  <2>2. A(m[x] + 1) # {}
    BY <2>1, <1>1
  <2> HIDE DEF A
  <2> QED
    BY <2>2
<1> HIDE DEF c
<1>4. f \in F
  BY <1>3
<1>5. ASSUME NEW x \in S PROVE f[x] = G[f][x]
  <2>1. c(x) \in F /\ c(x)[x] = G[c(x)][x]
    BY <1>3
  <2>2. ASSUME NEW y \in S, m[y] < m[x] PROVE c(x)[y] = f[y]
    <3>1. m[x] + 1 \in Nat /\ m[y] + 1 \in Nat /\ m[y] < m[x] + 1 /\ m[y] < m[y] + 1
      BY <2>2
    <3>2. c(x) \in A(m[x] + 1) /\ c(y) \in A(m[y] + 1)
      BY <1>3
    <3> HIDE DEF A
    <3>3. c(x)[y] = c(y)[y]
      BY <1>2, <3>1, <3>2
    <3> QED
      BY <3>3
  <2>3. G[c(x)][x] = G[f][x]
    BY <1>4, <2>1, <2>2 DEF Contractive
  <2> QED
    BY <2>1, <2>3
<1>6. G[f] \in F
  BY <1>0, <1>4
<1> QED
  BY <1>4, <1>5, <1>6

(* A list of functions, each given by the one after it, down from the last. *)
Descends(n, R, step) == \A k \in 1 .. n : \A r \in R : step[k][r] \in R

FollowsDown(n, last, step, f) ==
    f[n + 1] = last /\ \A k \in 1 .. n : f[k] = step[k][f[k + 1]]

LEMMA DescentExists ==
    ASSUME NEW n, NEW R, NEW last, NEW step, n \in Nat, last \in R, Descends(n, R, step)
    PROVE  \E f \in [1 .. n + 1 -> R] : FollowsDown(n, last, step, f)
<1> DEFINE S == 1 .. n + 1
           m == [k \in S |-> n + 1 - k]
           At(g, k) == IF k = n + 1 THEN last ELSE step[k][g[k + 1]]
           G == [g \in [S -> R] |-> [k \in S |-> At(g, k)]]
<1>1. ASSUME NEW g \in [S -> R], NEW k \in S PROVE At(g, k) \in R
  <2>1. k # n + 1 => k \in 1 .. n /\ k + 1 \in S
    OBVIOUS
  <2> HIDE DEF S
  <2>2. k # n + 1 => g[k + 1] \in R
    BY <2>1
  <2> QED
    BY <2>1, <2>2 DEF Descends
<1>2. ASSUME NEW g \in [S -> R], NEW h \in [S -> R], NEW k \in S,
             \A j \in S : m[j] < m[k] => g[j] = h[j]
      PROVE  At(g, k) = At(h, k)
  <2>1. k # n + 1 => k + 1 \in S /\ m[k + 1] < m[k]
    OBVIOUS
  <2> QED
    BY <1>2, <2>1
<1>m. m \in [S -> Nat]
  OBVIOUS
<1>n. \A k \in 1 .. n : k \in S /\ k # n + 1
  OBVIOUS
<1>l. n + 1 \in S
  OBVIOUS
<1> HIDE DEF m, S, At
<1>3. \A g \in [S -> R] : \A k \in S : G[g][k] = At(g, k)
  OBVIOUS
<1>4. \A g \in [S -> R] : G[g] \in [S -> R]
  BY <1>1
<1>5. Contractive(S, R, m, G)
  <2> HIDE DEF G
  <2>1. ASSUME NEW g \in [S -> R], NEW h \in [S -> R], NEW k \in S,
               \A j \in S : m[j] < m[k] => g[j] = h[j]
        PROVE  G[g][k] = G[h][k]
    <3>1. At(g, k) = At(h, k)
      BY <1>2, <2>1
    <3> QED
      BY <1>3, <3>1
  <2> QED
    BY <1>4, <1>m, <2>1 DEF Contractive
<1>6. PICK f \in [S -> R] : f = G[f]
  <2>1. R # {}
    OBVIOUS
  <2> HIDE DEF G
  <2> QED
    BY <1>5, <2>1, RecursionExists
<1>7. \A k \in S : f[k] = At(f, k)
  BY <1>3, <1>6
<1>8. f[n + 1] = last /\ \A k \in 1 .. n : f[k] = step[k][f[k + 1]]
  BY <1>7, <1>n, <1>l DEF At
<1> QED
  BY <1>8 DEF S, FollowsDown


(* A step from an accumulator and an item to an accumulator, in R from X.   *)
Steps(R, X, f) == \A r \in R : \A x \in X : f[r][x] \in R

(* The function, on sets of positions, by which a fold is defined.          *)
FollowsFold(f, base, s, it) ==
    /\ it[{}] = base
    /\ \A t \in SUBSET DOMAIN s : t # {} => it[t] = f[it[t \ {Max(t)}]][s[Max(t)]]

LEMMA FoldExists ==
    ASSUME NEW R, NEW X, NEW f, NEW base, NEW s, Steps(R, X, f), base \in R, s \in Seq(X)
    PROVE  \E it \in [SUBSET DOMAIN s -> R] : FollowsFold(f, base, s, it)
<1> DEFINE n == Len(s)
           S == SUBSET (1 .. n)
           m == [t \in S |-> IF t = {} THEN 0 ELSE Max(t)]
           G == [it \in [S -> R] |-> [t \in S |->
                    IF t = {} THEN base ELSE f[it[t \ {Max(t)}]][s[Max(t)]]]]
           Step(it, t) == f[it[t \ {Max(t)}]][s[Max(t)]]
<1>1. n \in Nat /\ DOMAIN s = 1 .. n /\ \A i \in 1 .. n : s[i] \in X
  OBVIOUS
<1>2. \A t \in S : t # {} => Max(t) \in 1 .. n /\ \A y \in t : y <= Max(t)
  BY <1>1, GreatestOf
<1>3. m \in [S -> Nat]
  <2>1. \A t \in S : t # {} => Max(t) \in Nat
    BY <1>1, <1>2
  <2> QED
    BY <2>1
<1>m. \A t \in S : m[t] = IF t = {} THEN 0 ELSE Max(t)
  OBVIOUS
<1> HIDE DEF m
<1>4. G \in [[S -> R] -> [S -> R]]
  <2>1. ASSUME NEW it \in [S -> R], NEW t \in S, t # {}
        PROVE  Step(it, t) \in R
    <3>1. t \ {Max(t)} \in S /\ s[Max(t)] \in X
      BY <1>1, <1>2, <2>1
    <3>2. it[t \ {Max(t)}] \in R
      BY <3>1
    <3> QED
      BY <3>1, <3>2 DEF Steps
  <2> HIDE DEF S, Step
  <2>2. ASSUME NEW it \in [S -> R]
        PROVE  [t \in S |-> IF t = {} THEN base ELSE Step(it, t)] \in [S -> R]
    BY <2>1
  <2> QED
    BY <2>2 DEF Step
<1>5. ASSUME NEW g \in [S -> R], NEW h \in [S -> R], NEW t \in S,
             \A u \in S : m[u] < m[t] => g[u] = h[u]
      PROVE  G[g][t] = G[h][t]
  <2>1. CASE t = {}
    BY <2>1
  <2>2. CASE t # {}
    <3> DEFINE u == t \ {Max(t)}
    <3>1. u \in S /\ m[t] = Max(t) /\ Max(t) \in 1 .. n
      BY <1>m, <1>2, <2>2
    <3>2. m[u] < m[t]
      <4>1. CASE u = {}
        <5>1. m[u] = 0
          BY <1>m, <3>1, <4>1
        <5> QED
          BY <1>1, <3>1, <5>1
      <4>2. CASE u # {}
        <5>1. Max(u) \in u
          BY <1>1, <3>1, <4>2, GreatestOf
        <5>2. Max(u) \in t /\ Max(u) # Max(t)
          BY <5>1
        <5>3. Max(u) <= Max(t) /\ Max(u) \in 1 .. n /\ Max(t) \in 1 .. n
          BY <1>2, <2>2, <5>2
        <5>4. m[u] = Max(u)
          BY <1>m, <3>1, <4>2
        <5> QED
          BY <1>1, <3>1, <5>2, <5>3, <5>4
      <4> QED
        BY <4>1, <4>2
    <3>3. g[u] = h[u]
      BY <1>5, <3>1, <3>2
    <3> QED
      BY <2>2, <3>3
  <2> QED
    BY <2>1, <2>2
<1>6. Contractive(S, R, m, G)
  <2> HIDE DEF G, S
  <2> QED
    BY <1>3, <1>4, <1>5 DEF Contractive
<1>7. \E it \in [S -> R] : it = G[it]
  <2> HIDE DEF G, S
  <2> QED
    BY <1>6, RecursionExists
<1> QED
  <2>1. PICK it \in [S -> R] : it = G[it]
    BY <1>7
  <2>2. \A t \in S : it[t] = IF t = {} THEN base ELSE Step(it, t)
    BY <2>1
  <2> QED
    BY <1>1, <2>2 DEF FollowsFold

-----------------------------------------------------------------------------
(* Sequences *)

(* What holds of no item, and with an item appended when without it.        *)
LEMMA EverySequence ==
    ASSUME NEW X, NEW T, <<>> \in T,
           \A s \in Seq(X) : \A x \in X : s \in T => Append(s, x) \in T
    PROVE  \A s \in Seq(X) : s \in T
<1> DEFINE U == {n \in Nat : \A s \in Seq(X) : Len(s) = n => s \in T}
<1>1. 0 \in U
  BY EmptySeq
<1>2. ASSUME NEW n \in Nat, n \in U PROVE n + 1 \in U
  <2> SUFFICES ASSUME NEW s \in Seq(X), Len(s) = n + 1 PROVE s \in T
    OBVIOUS
  <2>1. s # <<>>
    BY EmptySeq
  <2>2. PICK f \in Seq(X), x \in X : s = Append(f, x)
    BY <2>1, SequenceEmptyOrAppend
  <2>3. Len(f) = n
    <3>1. Len(Append(f, x)) = Len(f) + 1 /\ Len(f) \in Nat
      BY AppendProperties
    <3> QED
      BY <2>2, <3>1
  <2> QED
    BY <1>2, <2>2, <2>3
<1> HIDE DEF U
<1>3. \A n \in Nat : n \in U
  BY <1>1, <1>2, EveryNumber, Zenon
<1>4. \A s \in Seq(X) : Len(s) \in U
  BY <1>3
<1> QED
  BY <1>4 DEF U

(* A flattened sequence of sequences, prefix by prefix. *)
LEMMA FlattenPrefixes ==
    ASSUME NEW X, NEW ss \in Seq(Seq(X)), ss # <<>>
    PROVE  \E at \in [1 .. Len(ss) -> Seq(X)] :
               /\ at[1] = ss[1]
               /\ \A i \in 2 .. Len(ss) : at[i] = at[i - 1] \o ss[i]
               /\ FlattenSeq(ss) = at[Len(ss)]
<1> DEFINE S == 1 .. Len(ss)
           m == [i \in S |-> i]
           Step(g, i) == IF i = 1 THEN ss[i] ELSE g[i - 1] \o ss[i]
           G == [g \in [S -> Seq(X)] |-> [i \in S |-> Step(g, i)]]
           Is(g) == g = [i \in S |-> Step(g, i)]
           at == CHOOSE g : Is(g)
<1>0. Len(ss) \in Nat \ {0} /\ \A i \in S : ss[i] \in Seq(X)
  BY EmptySeq, ElementOfSeq
<1>1. G \in [[S -> Seq(X)] -> [S -> Seq(X)]]
  <2>1. ASSUME NEW g \in [S -> Seq(X)], NEW i \in S PROVE Step(g, i) \in Seq(X)
    <3>1. CASE i = 1
      BY <1>0, <3>1
    <3>2. CASE i # 1
      <4>1. i - 1 \in S
        BY <1>0, <3>2
      <4>2. g[i - 1] \in Seq(X) /\ ss[i] \in Seq(X)
        BY <1>0, <4>1
      <4> QED
        BY <3>2, <4>2, ConcatProperties
    <3> QED
      BY <3>1, <3>2
  <2> HIDE DEF S, Step
  <2> QED
    BY <2>1
<1>2. Contractive(S, Seq(X), m, G)
  <2>1. ASSUME NEW g \in [S -> Seq(X)], NEW h \in [S -> Seq(X)], NEW i \in S,
               \A j \in S : m[j] < m[i] => g[j] = h[j]
        PROVE  Step(g, i) = Step(h, i)
    <3>1. CASE i = 1
      BY <3>1
    <3>2. CASE i # 1
      <4>1. i - 1 \in S /\ m[i - 1] < m[i]
        BY <1>0, <3>2
      <4> QED
        BY <2>1, <3>2, <4>1
    <3> QED
      BY <3>1, <3>2
  <2> HIDE DEF Step
  <2>2. \A g \in [S -> Seq(X)] : \A i \in S : G[g][i] = Step(g, i)
    OBVIOUS
  <2>m. m \in [S -> Nat]
    BY <1>0
  <2> HIDE DEF G, S, m
  <2>3. ASSUME NEW g \in [S -> Seq(X)], NEW h \in [S -> Seq(X)], NEW i \in S,
               \A j \in S : m[j] < m[i] => g[j] = h[j]
        PROVE  G[g][i] = G[h][i]
    <3>1. Step(g, i) = Step(h, i)
      BY <2>1, <2>3
    <3> QED
      BY <2>2, <3>1
  <2> QED
    BY <1>1, <2>m, <2>3 DEF Contractive
<1>3. PICK f \in [S -> Seq(X)] : f = G[f]
  <2>1. Seq(X) # {}
    BY EmptySeq
  <2> HIDE DEF S, m, G
  <2> QED
    BY <1>2, <2>1, RecursionExists
<1>4. Is(f)
  BY <1>3
<1>5. Is(at)
  <2> HIDE DEF Is
  <2> QED
    BY <1>4
<1> HIDE DEF at
<1>6. /\ at[1] = ss[1]
      /\ \A i \in 2 .. Len(ss) : at[i] = at[i - 1] \o ss[i]
  <2>1. \A i \in S : at[i] = Step(at, i)
    <3> HIDE DEF S, Step
    <3> QED
      BY <1>5
  <2>2. 1 \in S /\ \A i \in 2 .. Len(ss) : i \in S /\ i # 1
    BY <1>0
  <2> HIDE DEF S
  <2> QED
    BY <2>1, <2>2
<1>7. \A i \in 1 .. Len(ss) : at[i] \in Seq(X)
  <2> DEFINE T == {i \in Nat : i + 1 \in S => at[i + 1] \in Seq(X)}
  <2>1. 0 \in T
    BY <1>0, <1>6
  <2>2. ASSUME NEW i \in Nat, i \in T PROVE i + 1 \in T
    <3> SUFFICES ASSUME i + 2 \in S PROVE at[i + 2] \in Seq(X)
      OBVIOUS
    <3>1. at[i + 1] \in Seq(X) /\ ss[i + 2] \in Seq(X)
      BY <1>0, <2>2
    <3>2. i + 2 \in 2 .. Len(ss) /\ (i + 2) - 1 = i + 1
      BY <1>0
    <3>3. at[i + 2] = at[(i + 2) - 1] \o ss[i + 2]
      BY <1>6, <3>2
    <3> QED
      BY <3>1, <3>2, <3>3, ConcatProperties
  <2> HIDE DEF T
  <2>3. \A i \in Nat : i \in T
    BY <2>1, <2>2, EveryNumber, Zenon
  <2>4. \A i \in 1 .. Len(ss) : i - 1 \in T /\ (i - 1) + 1 = i
    BY <1>0, <2>3
  <2> QED
    BY <2>4 DEF T
<1>8. FlattenSeq(ss) = at[Len(ss)]
  BY <1>0 DEF FlattenSeq, at
<1>9. at \in [1 .. Len(ss) -> Seq(X)]
  BY <1>5, <1>7
<1> QED
  BY <1>6, <1>8, <1>9

LEMMA FlattenEmpty == FlattenSeq(<<>>) = <<>>
  BY DEF FlattenSeq

LEMMA FlattenType ==
    ASSUME NEW X, NEW ss \in Seq(Seq(X))
    PROVE  FlattenSeq(ss) \in Seq(X)
<1>1. CASE ss = <<>>
  BY <1>1, FlattenEmpty, EmptySeq
<1>2. CASE ss # <<>>
  <2>1. Len(ss) \in 1 .. Len(ss)
    BY <1>2, EmptySeq
  <2>2. PICK at \in [1 .. Len(ss) -> Seq(X)] : FlattenSeq(ss) = at[Len(ss)]
    BY <1>2, FlattenPrefixes
  <2> QED
    BY <2>1, <2>2
<1> QED
  BY <1>1, <1>2

LEMMA FlattenAppend ==
    ASSUME NEW X, NEW ss \in Seq(Seq(X)), NEW x \in Seq(X)
    PROVE  FlattenSeq(Append(ss, x)) = FlattenSeq(ss) \o x
<1> DEFINE st == Append(ss, x)
           n == Len(ss)
<1>1. /\ st \in Seq(Seq(X)) /\ st # <<>> /\ Len(st) = n + 1 /\ n \in Nat
      /\ \A i \in 1 .. n : st[i] = ss[i]
      /\ st[n + 1] = x
  BY AppendProperties, LenProperties
<1> HIDE DEF st
<1>2. PICK bt \in [1 .. Len(st) -> Seq(X)] :
          /\ bt[1] = st[1]
          /\ \A i \in 2 .. Len(st) : bt[i] = bt[i - 1] \o st[i]
          /\ FlattenSeq(st) = bt[Len(st)]
  BY <1>1, FlattenPrefixes
<1>3. CASE n = 0
  <2>1. ss = <<>>
    BY <1>3, EmptySeq
  <2>2. FlattenSeq(st) = x
    BY <1>1, <1>2, <1>3
  <2>3. <<>> \o x = x
    BY ConcatEmptySeq
  <2> QED
    BY <2>1, <2>2, <2>3, FlattenEmpty DEF st
<1>4. CASE n # 0
  <2>1. ss # <<>>
    BY <1>4, EmptySeq
  <2>2. PICK at \in [1 .. Len(ss) -> Seq(X)] :
            /\ at[1] = ss[1]
            /\ \A i \in 2 .. Len(ss) : at[i] = at[i - 1] \o ss[i]
            /\ FlattenSeq(ss) = at[Len(ss)]
    BY <2>1, FlattenPrefixes
  <2> DEFINE T == {i \in Nat : i + 1 \in 1 .. n => at[i + 1] = bt[i + 1]}
  <2>3. 0 \in T
    BY <1>1, <1>2, <2>2
  <2>4. ASSUME NEW i \in Nat, i \in T PROVE i + 1 \in T
    <3> SUFFICES ASSUME i + 2 \in 1 .. n PROVE at[i + 2] = bt[i + 2]
      OBVIOUS
    <3>1. i + 2 \in 2 .. Len(st) /\ i + 2 \in 2 .. Len(ss) /\ i + 1 \in 1 .. n
      BY <1>1
    <3>2. at[i + 2] = at[(i + 2) - 1] \o ss[i + 2] /\ bt[i + 2] = bt[(i + 2) - 1] \o st[i + 2]
      BY <1>2, <2>2, <3>1
    <3>3. (i + 2) - 1 = i + 1 /\ st[i + 2] = ss[i + 2] /\ at[i + 1] = bt[i + 1]
      BY <1>1, <2>4, <3>1
    <3> QED
      BY <3>2, <3>3
  <2> HIDE DEF T
  <2>5. \A i \in Nat : i \in T
    BY <2>3, <2>4, EveryNumber, Zenon
  <2>6. at[n] = bt[n]
    <3>1. n - 1 \in T /\ n \in 1 .. n /\ (n - 1) + 1 = n
      BY <1>1, <1>4, <2>5
    <3> QED
      BY <3>1 DEF T
  <2>7. bt[n + 1] = bt[n] \o st[n + 1]
    <3>1. n + 1 \in 2 .. Len(st) /\ (n + 1) - 1 = n
      BY <1>1, <1>4
    <3> QED
      BY <1>2, <3>1
  <2> QED
    BY <1>1, <1>2, <2>2, <2>6, <2>7 DEF st
<1> QED
  BY <1>3, <1>4

(* What a function gives for the items of a sequence, one after the other. *)
Spread(g, s) == FlattenSeq([i \in DOMAIN s |-> g[s[i]]])
Gives(g, X, Y) == g \in [X -> Seq(Y)]

LEMMA SpreadEmpty == ASSUME NEW g PROVE Spread(g, <<>>) = <<>>
<1>1. [i \in DOMAIN <<>> |-> g[<<>>[i]]] = <<>>
  OBVIOUS
<1> QED
  BY <1>1, FlattenEmpty DEF Spread

LEMMA SpreadType ==
    ASSUME NEW X, NEW Y, NEW g, \A x \in X : g[x] \in Seq(Y), NEW s \in Seq(X)
    PROVE  Spread(g, s) \in Seq(Y)
<1>1. [i \in DOMAIN s |-> g[s[i]]] \in Seq(Seq(Y))
  OBVIOUS
<1> QED
  BY <1>1, FlattenType DEF Spread

LEMMA SpreadAppend ==
    ASSUME NEW X, NEW Y, NEW g, Gives(g, X, Y), NEW s \in Seq(X), NEW x \in X
    PROVE  Spread(g, Append(s, x)) = Spread(g, s) \o g[x]
<1> USE DEF Gives
<1> DEFINE ss == [i \in DOMAIN s |-> g[s[i]]]
           st == [i \in DOMAIN Append(s, x) |-> g[Append(s, x)[i]]]
<1>1. ss \in Seq(Seq(Y)) /\ Len(ss) = Len(s) /\ g[x] \in Seq(Y)
  <2>1. \A i \in DOMAIN s : g[s[i]] \in Seq(Y)
    OBVIOUS
  <2>2. Len(s) \in Nat /\ DOMAIN s = 1 .. Len(s)
    OBVIOUS
  <2> QED
    BY <2>1, <2>2
<1>2. /\ Append(s, x) \in Seq(X) /\ Len(Append(s, x)) = Len(s) + 1
      /\ \A i \in 1 .. Len(s) : Append(s, x)[i] = s[i]
      /\ Append(s, x)[Len(s) + 1] = x
  BY AppendProperties
<1>3. /\ Append(ss, g[x]) \in Seq(Seq(Y)) /\ Len(Append(ss, g[x])) = Len(s) + 1
      /\ \A i \in 1 .. Len(s) : Append(ss, g[x])[i] = ss[i]
      /\ Append(ss, g[x])[Len(s) + 1] = g[x]
  BY <1>1, AppendProperties
<1>4. st \in Seq(Seq(Y)) /\ Len(st) = Len(s) + 1
  BY <1>2
<1>5. ASSUME NEW i \in 1 .. Len(s) + 1 PROVE st[i] = Append(ss, g[x])[i]
  <2>1. i \in DOMAIN Append(s, x) /\ st[i] = g[Append(s, x)[i]]
    BY <1>2
  <2>2. CASE i \in 1 .. Len(s)
    <3>1. ss[i] = g[s[i]]
      BY <2>2
    <3> QED
      BY <1>2, <1>3, <2>1, <2>2, <3>1
  <2>3. CASE i = Len(s) + 1
    BY <1>2, <1>3, <2>1, <2>3
  <2> QED
    BY <2>2, <2>3
<1> HIDE DEF ss, st
<1>6. st = Append(ss, g[x])
  BY <1>3, <1>4, <1>5, SeqEqual
<1>7. FlattenSeq(st) = FlattenSeq(ss) \o g[x]
  BY <1>1, <1>6, FlattenAppend
<1> QED
  BY <1>7 DEF Spread, ss, st

LEMMA SpreadConcat ==
    ASSUME NEW X, NEW Y, NEW g, Gives(g, X, Y), NEW s \in Seq(X), NEW t \in Seq(X)
    PROVE  Spread(g, s \o t) = Spread(g, s) \o Spread(g, t)
<1>0. \A x \in X : g[x] \in Seq(Y)
  BY DEF Gives
<1> DEFINE T == {u \in Seq(X) : Spread(g, s \o u) = Spread(g, s) \o Spread(g, u)}
<1>1. <<>> \in T
  <2>1. s \o <<>> = s /\ <<>> \in Seq(X) /\ Spread(g, s) \in Seq(Y)
    BY <1>0, ConcatEmptySeq, EmptySeq, SpreadType
  <2>2. Spread(g, s) \o <<>> = Spread(g, s)
    BY <2>1, ConcatEmptySeq
  <2> QED
    BY <2>1, <2>2, SpreadEmpty
<1>2. ASSUME NEW u \in Seq(X), NEW x \in X, u \in T PROVE Append(u, x) \in T
  <2> DEFINE su == s \o u
             a == Spread(g, s)
             b == Spread(g, u)
             c == g[x]
  <2>1. /\ Append(u, x) \in Seq(X) /\ Append(u, x) = u \o <<x>> /\ <<x>> \in Seq(X)
        /\ su \in Seq(X)
    BY AppendProperties, AppendIsConcat, ConcatProperties
  <2>2. s \o Append(u, x) = Append(su, x)
    BY <2>1, AppendIsConcat, ConcatAssociative
  <2>3. a \in Seq(Y) /\ b \in Seq(Y) /\ c \in Seq(Y)
    BY <1>0, SpreadType
  <2>4. Spread(g, su) = a \o b
    BY <1>2
  <2>5. Spread(g, Append(u, x)) = b \o c
    BY SpreadAppend
  <2> HIDE DEF su, a, b, c, T
  <2>6. Spread(g, Append(su, x)) = Spread(g, su) \o g[x]
    BY <2>1, SpreadAppend
  <2>7. (a \o b) \o c = a \o (b \o c)
    BY <2>3, ConcatAssociative
  <2>8. Spread(g, s \o Append(u, x)) = Spread(g, s) \o Spread(g, Append(u, x))
    BY <2>2, <2>4, <2>5, <2>6, <2>7 DEF a, c
  <2> QED
    BY <2>1, <2>8 DEF T
<1> HIDE DEF T
<1>3. \A u \in Seq(X) : u \in T
  BY <1>1, <1>2, EverySequence, Zenon
<1> QED
  BY <1>3 DEF T

LEMMA SpreadOne ==
    ASSUME NEW X, NEW Y, NEW g, Gives(g, X, Y), NEW x \in X
    PROVE  Spread(g, <<x>>) = g[x]
<1>1. <<x>> = Append(<<>>, x) /\ <<>> \in Seq(X)
  BY EmptySeq
<1>2. Spread(g, Append(<<>>, x)) = Spread(g, <<>>) \o g[x]
  BY <1>1, SpreadAppend
<1>3. <<>> \o g[x] = g[x]
  BY ConcatEmptySeq
<1> QED
  BY <1>1, <1>2, <1>3, SpreadEmpty

-----------------------------------------------------------------------------
(* Folds over a sequence *)

(* A function that gives several, after one that does.                      *)
Through(h, g) == [x \in DOMAIN g |-> Spread(h, g[x])]

LEMMA ThroughType ==
    ASSUME NEW X, NEW Y, NEW Z, NEW g, NEW h, Gives(g, X, Y), Gives(h, Y, Z)
    PROVE  Gives(Through(h, g), X, Z)
<1>1. \A y \in Y : h[y] \in Seq(Z)
  BY DEF Gives
<1>2. DOMAIN g = X /\ \A x \in X : g[x] \in Seq(Y)
  BY DEF Gives
<1>3. ASSUME NEW x \in X PROVE Spread(h, g[x]) \in Seq(Z)
  <2> DEFINE s == g[x]
  <2>1. s \in Seq(Y)
    BY <1>2
  <2> HIDE DEF s
  <2>2. Spread(h, s) \in Seq(Z)
    BY <1>1, <2>1, SpreadType
  <2> QED
    BY <2>2 DEF s
<1> QED
  BY <1>2, <1>3 DEF Through, Gives

LEMMA SpreadSpread ==
    ASSUME NEW X, NEW Y, NEW Z, NEW g, NEW h, Gives(g, X, Y), Gives(h, Y, Z), NEW s \in Seq(X)
    PROVE  Spread(h, Spread(g, s)) = Spread(Through(h, g), s)
<1>t. Gives(Through(h, g), X, Z)
  BY ThroughType
<1> DEFINE f == Through(h, g)
           T == {u \in Seq(X) : Spread(h, Spread(g, u)) = Spread(f, u)}
<1>1. <<>> \in T
  BY SpreadEmpty, EmptySeq
<1>f. Gives(f, X, Z) /\ \A x \in X : f[x] = Spread(h, g[x])
  BY <1>t DEF Gives, Through
<1>g. \A x \in X : g[x] \in Seq(Y)
  BY DEF Gives
<1> HIDE DEF f
<1>2. ASSUME NEW u \in Seq(X), NEW x \in X, u \in T PROVE Append(u, x) \in T
  <2> DEFINE a == Spread(g, u)
             b == g[x]
  <2>1. Spread(g, Append(u, x)) = a \o b
    BY SpreadAppend
  <2>2. a \in Seq(Y) /\ b \in Seq(Y)
    BY <1>g, SpreadType
  <2>3. f[x] = Spread(h, b)
    BY <1>f
  <2>4. Append(u, x) \in Seq(X)
    BY AppendProperties
  <2>5. Spread(h, a) = Spread(f, u)
    BY <1>2
  <2> HIDE DEF a, b, T
  <2>6. Spread(h, a \o b) = Spread(h, a) \o Spread(h, b)
    BY <2>2, SpreadConcat
  <2>7. Spread(f, Append(u, x)) = Spread(f, u) \o f[x]
    BY <1>f, SpreadAppend
  <2> QED
    BY <2>1, <2>3, <2>4, <2>5, <2>6, <2>7 DEF T
<1> HIDE DEF T
<1>3. \A u \in Seq(X) : u \in T
  BY <1>1, <1>2, EverySequence, Zenon
<1> QED
  BY <1>3 DEF T, f

LEMMA NotEmptyConcat ==
    ASSUME NEW X, NEW a \in Seq(X), NEW b \in Seq(X)
    PROVE  /\ a \o b # <<>> <=> a # <<>> \/ b # <<>>
           /\ Len(a \o b) = Len(a) + Len(b)
<1>1. /\ Len(a \o b) = Len(a) + Len(b) /\ a \o b \in Seq(X)
      /\ Len(a) \in Nat /\ Len(b) \in Nat
  BY ConcatProperties, LenProperties
<1>2. /\ a = <<>> <=> Len(a) = 0
      /\ b = <<>> <=> Len(b) = 0
      /\ a \o b = <<>> <=> Len(a \o b) = 0
  BY <1>1, EmptySeq
<1> QED
  BY <1>1, <1>2

(* Nothing is given when no item gives anything.                            *)
LEMMA SpreadNothing ==
    ASSUME NEW X, NEW Y, NEW g, Gives(g, X, Y), NEW s \in Seq(X)
    PROVE  Spread(g, s) # <<>> <=> \E i \in DOMAIN s : g[s[i]] # <<>>
<1> DEFINE Some(u) == \E i \in DOMAIN u : g[u[i]] # <<>>
           T == {u \in Seq(X) : Spread(g, u) # <<>> <=> Some(u)}
<1>1. <<>> \in T
  BY SpreadEmpty, EmptySeq
<1>2. ASSUME NEW u \in Seq(X), NEW x \in X, u \in T PROVE Append(u, x) \in T
  <2>1. Spread(g, Append(u, x)) = Spread(g, u) \o g[x]
    BY SpreadAppend
  <2>2. Spread(g, u) \in Seq(Y) /\ g[x] \in Seq(Y)
    BY SpreadType DEF Gives
  <2>3. Spread(g, u) \o g[x] # <<>> <=> Spread(g, u) # <<>> \/ g[x] # <<>>
    BY <2>2, NotEmptyConcat
  <2>4. Some(Append(u, x)) <=> Some(u) \/ g[x] # <<>>
    <3>1. /\ DOMAIN Append(u, x) = 1 .. Len(u) + 1 /\ DOMAIN u = 1 .. Len(u) /\ Len(u) \in Nat
          /\ \A i \in 1 .. Len(u) : Append(u, x)[i] = u[i]
          /\ Append(u, x)[Len(u) + 1] = x
      BY AppendProperties, LenProperties
    <3>2. \A i : i \in 1 .. Len(u) + 1 <=> i \in 1 .. Len(u) \/ i = Len(u) + 1
      BY <3>1
    <3> QED
      BY <3>1, <3>2
  <2>5. Append(u, x) \in Seq(X)
    BY AppendProperties
  <2> HIDE DEF Some
  <2> QED
    BY <1>2, <2>1, <2>3, <2>4, <2>5
<1> HIDE DEF T
<1>3. \A u \in Seq(X) : u \in T
  BY <1>1, <1>2, EverySequence, Zenon
<1> QED
  BY <1>3 DEF T

(* Any function that follows a fold where it stays in R stays there, and    *)
(* goes prefix by prefix.                                                   *)
FollowsWithin(R, f, base, s, g) ==
    /\ g[{}] = base
    /\ \A t \in SUBSET DOMAIN s :
           t # {} /\ g[t \ {Max(t)}] \in R => g[t] = f[g[t \ {Max(t)}]][s[Max(t)]]
UnrollsTo(R, f, base, s, at, last) ==
    /\ at \in [0 .. Len(s) -> R]
    /\ at[0] = base
    /\ \A k \in 1 .. Len(s) : at[k] = f[at[k - 1]][s[k]]
    /\ last = at[Len(s)]

LEMMA FoldUnrolls ==
    ASSUME NEW R, NEW X, NEW f, NEW base, NEW s, NEW g, Steps(R, X, f), base \in R, s \in Seq(X),
           FollowsWithin(R, f, base, s, g)
    PROVE  \E at : UnrollsTo(R, f, base, s, at, g[DOMAIN s])
<1> DEFINE n == Len(s)
           at == [k \in 0 .. n |-> g[1 .. k]]
           T == {k \in 0 .. n : at[k] \in R}
<1>1. n \in Nat /\ DOMAIN s = 1 .. n /\ \A i \in 1 .. n : s[i] \in X
  OBVIOUS
<1>2. at[0] = base
  <2>1. 1 .. 0 = {}
    OBVIOUS
  <2> QED
    BY <1>1, <2>1 DEF FollowsWithin
<1>3. \A k \in 0 .. n : at[k] = g[1 .. k]
  OBVIOUS
<1>4. ASSUME NEW k \in 1 .. n, at[k - 1] \in R
      PROVE  at[k] = f[at[k - 1]][s[k]] /\ at[k] \in R
  <2>1. /\ 1 .. k \in SUBSET DOMAIN s /\ 1 .. k # {} /\ Max(1 .. k) = k
        /\ (1 .. k) \ {Max(1 .. k)} = 1 .. k - 1
    BY <1>1, LastOfPrefix
  <2>2. k - 1 \in 0 .. n /\ k \in 0 .. n
    BY <1>1
  <2>3. at[k - 1] = g[1 .. k - 1] /\ at[k] = g[1 .. k]
    BY <1>3, <2>2
  <2> HIDE DEF at
  <2>4. at[k] = f[at[k - 1]][s[k]]
    BY <1>4, <2>1, <2>3 DEF FollowsWithin
  <2> QED
    BY <1>1, <1>4, <2>4 DEF Steps
<1> HIDE DEF at
<1>5. \A k \in 0 .. n : k \in T
  <2>1. 0 \in T
    BY <1>1, <1>2
  <2>2. ASSUME NEW k \in 0 .. n - 1, k \in T PROVE k + 1 \in T
    <3>1. k + 1 \in 1 .. n /\ (k + 1) - 1 = k
      BY <1>1
    <3>2. at[k + 1] \in R
      BY <1>4, <2>2, <3>1
    <3> QED
      BY <3>1, <3>2
  <2> HIDE DEF T
  <2> QED
    BY <1>1, <2>1, <2>2, NumbersUpTo
<1>6. at \in [0 .. n -> R]
  BY <1>5 DEF at
<1>7. \A k \in 1 .. n : at[k] = f[at[k - 1]][s[k]]
  <2> SUFFICES ASSUME NEW k \in 1 .. n PROVE at[k] = f[at[k - 1]][s[k]]
    OBVIOUS
  <2>1. k - 1 \in T
    BY <1>1, <1>5
  <2> QED
    BY <1>4, <2>1
<1>8. g[DOMAIN s] = at[n]
  <2>1. n \in 0 .. n /\ DOMAIN s = 1 .. n
    BY <1>1
  <2>2. at[n] = g[1 .. n]
    BY <1>3, <2>1
  <2> QED
    BY <2>1, <2>2
<1> QED
  BY <1>2, <1>6, <1>7, <1>8 DEF UnrollsTo

(* The prefixes of a sequence, by which what a fold holds is told.          *)
LEMMA PrefixGrows ==
    ASSUME NEW X, NEW s \in Seq(X)
    PROVE  /\ SubSeq(s, 1, 0) = <<>> /\ SubSeq(s, 1, Len(s)) = s
           /\ \A k \in 0 .. Len(s) : SubSeq(s, 1, k) \in Seq(X)
           /\ \A k \in 1 .. Len(s) :
                  s[k] \in X /\ SubSeq(s, 1, k) = Append(SubSeq(s, 1, k - 1), s[k])
<1>1. SubSeq(s, 1, 0) = <<>> /\ SubSeq(s, 1, Len(s)) = s
  BY SubSeqEmpty, SubSeqFull
<1>2. \A k \in 0 .. Len(s) : SubSeq(s, 1, k) \in Seq(X)
  <2> SUFFICES ASSUME NEW k \in 0 .. Len(s) PROVE SubSeq(s, 1, k) \in Seq(X)
    OBVIOUS
  <2>1. \A i \in 1 .. k : s[i] \in X
    OBVIOUS
  <2> QED
    BY <2>1, SubSeqProperties
<1>3. ASSUME NEW k \in 1 .. Len(s)
      PROVE  s[k] \in X /\ SubSeq(s, 1, k) = Append(SubSeq(s, 1, k - 1), s[k])
  <2>1. s[k] \in X /\ k - 1 \in 0 .. Len(s) /\ 1 \in 1 .. Len(s) /\ k \in 1 .. Len(s)
    OBVIOUS
  <2>2. SubSeq(s, 1, k) = SubSeq(s, 1, k - 1) \o <<s[k]>>
    BY <2>1, SubSeqRecursiveSecond
  <2>3. SubSeq(s, 1, k - 1) \in Seq(X)
    BY <1>2, <2>1
  <2> QED
    BY <2>1, <2>2, <2>3, AppendIsConcat
<1> QED
  BY <1>1, <1>2, <1>3

-----------------------------------------------------------------------------
(* Values *)

(* What a walk can hold: a value, nothing, or an array of the items found.  *)
Result == Reached \cup {Array(s) : s \in Seq(Value)}

LEMMA ArrayIs ==
    ASSUME NEW s
    PROVE  /\ IsArray(Array(s)) /\ Array(s).array = s /\ Array(s) # Undefined
           /\ ~IsObject(Array(s)) /\ ~IsScalar(Array(s)) /\ ~IsError(Array(s))
           /\ ~IsSequence(Array(s))
  BY DEF IsArray, Array, Undefined, IsObject, IsScalar, IsText, IsNumber, IsBoolean, Null,
         IsError, IsSequence

LEMMA UndefinedIs ==
    /\ ~IsArray(Undefined) /\ ~IsObject(Undefined) /\ ~IsScalar(Undefined)
    /\ ~IsError(Undefined) /\ ~IsSequence(Undefined)
  BY DEF IsArray, Undefined, IsObject, IsScalar, IsText, IsNumber, IsBoolean, Null, IsError,
         IsSequence

(* The kinds of values, which exclude each other.                           *)
LEMMA ValueKinds ==
    ASSUME NEW v \in Value
    PROVE  /\ v # Undefined /\ ~IsError(v) /\ ~IsSequence(v) /\ Height[v] \in Nat
           /\ \/ IsScalar(v) /\ ~IsArray(v) /\ ~IsObject(v)
              \/ /\ IsArray(v) /\ ~IsScalar(v) /\ ~IsObject(v)
                 /\ v = Array(v.array) /\ v.array \in Seq(Value)
                 /\ \A i \in DOMAIN v.array : Height[v.array[i]] < Height[v]
              \/ /\ IsObject(v) /\ ~IsScalar(v) /\ ~IsArray(v)
                 /\ v = Object(v.object)
                 /\ \A k \in DOMAIN v.object :
                        v.object[k] \in Value /\ Height[v.object[k]] < Height[v]
<1>1. IsJson(v) /\ Height[v] \in Nat
  BY ValuesAreJson
<1>2. CASE v = Null
  BY <1>1, <1>2 DEF Null, Undefined, IsError, IsSequence, IsScalar, IsArray, IsObject
<1>3. CASE IsBoolean(v) /\ v = Boolean(v.boolean)
  BY <1>1, <1>3 DEF Boolean, Undefined, IsError, IsSequence, IsScalar, IsArray, IsObject
<1>4. CASE IsNumber(v) /\ v = Number(v.number)
  BY <1>1, <1>4 DEF Number, Undefined, IsError, IsSequence, IsScalar, IsArray, IsObject
<1>5. CASE IsText(v) /\ v = Text(v.string)
  BY <1>1, <1>5 DEF Text, Undefined, IsError, IsSequence, IsScalar, IsArray, IsObject
<1>6. CASE /\ IsArray(v) /\ v = Array(v.array) /\ v.array \in Seq(Value)
           /\ \A i \in DOMAIN v.array : Height[v.array[i]] < Height[v]
  <2>1. /\ v # Undefined /\ ~IsError(v) /\ ~IsSequence(v) /\ ~IsScalar(v) /\ ~IsObject(v)
    BY <1>6, ArrayIs
  <2> QED
    BY <1>1, <1>6, <2>1
<1>7. CASE /\ IsObject(v) /\ v = Object(v.object)
           /\ \A k \in DOMAIN v.object :
                  v.object[k] \in Value /\ Height[v.object[k]] < Height[v]
  <2>1. /\ v # Undefined /\ ~IsError(v) /\ ~IsSequence(v) /\ ~IsScalar(v) /\ ~IsArray(v)
    BY <1>7 DEF Object, Undefined, IsError, IsSequence, IsScalar, IsArray, IsText, IsNumber,
                IsBoolean, Null
  <2> QED
    BY <1>1, <1>7, <2>1
<1> QED
  BY <1>1, <1>2, <1>3, <1>4, <1>5, <1>6, <1>7 DEF IsJson

LEMMA FieldReached ==
    ASSUME NEW v \in Value, IsObject(v), NEW name
    PROVE  /\ FieldOf(v, name) \in Reached
           /\ FieldOf(v, name) \in Value => Height[FieldOf(v, name)] < Height[v]
<1>1. \A k \in DOMAIN v.object : v.object[k] \in Value /\ Height[v.object[k]] < Height[v]
  BY ValueKinds
<1>2. Undefined \notin Value
  BY ValueKinds
<1> QED
  BY <1>1, <1>2 DEF FieldOf, Reached

LEMMA ItemReached ==
    ASSUME NEW v \in Value, IsArray(v), NEW i \in DOMAIN v.array
    PROVE  v.array[i] \in Value /\ Height[v.array[i]] < Height[v]
  BY ValueKinds

(* What a walk can hold is no error and no sequence to be collapsed.        *)
LEMMA ResultIs ==
    ASSUME NEW r \in Result
    PROVE  /\ ~IsError(r) /\ Collapsed(r) = r /\ Items(r) \in Seq(Value)
           /\ IsArray(r) => r = Array(r.array) /\ r.array \in Seq(Value) /\ r # Undefined
           /\ ~IsArray(r) => r \in Reached
           /\ r # Undefined /\ ~IsArray(r) => r \in Value
<1>1. CASE r \in Value
  <2>1. ~IsError(r) /\ ~IsSequence(r) /\ r # Undefined
    BY <1>1, ValueKinds
  <2>2. IsArray(r) => r = Array(r.array) /\ r.array \in Seq(Value)
    BY <1>1, ValueKinds
  <2> QED
    BY <1>1, <2>1, <2>2 DEF Collapsed, Items, Reached
<1>2. CASE r = Undefined
  BY <1>2, UndefinedIs, EmptySeq DEF Collapsed, Items, Reached
<1>3. ASSUME NEW s \in Seq(Value), r = Array(s)
      PROVE  /\ ~IsError(r) /\ ~IsSequence(r) /\ IsArray(r) /\ r.array = s /\ r # Undefined
             /\ r = Array(r.array) /\ Items(r) = s
  BY <1>3, ArrayIs DEF Items
<1> QED
  BY <1>1, <1>2, <1>3 DEF Result, Reached, Collapsed

LEMMA ValuesAreResults ==
    /\ Undefined \in Result /\ Undefined \in Reached /\ Undefined \notin Value
    /\ \A v \in Value : v \in Reached
    /\ \A v \in Reached : v \in Result
    /\ \A s \in Seq(Value) : Array(s) \in Result
  BY ValueKinds DEF Result, Reached

LEMMA IntoValueResult ==
    ASSUME NEW s \in Seq(Value)
    PROVE  /\ IntoValue(s, FALSE) \in Result
           /\ s # <<>> => Len(s) = 1 \/ IntoValue(s, FALSE) = Array(s)
           /\ Len(s) = 1 => s # <<>> /\ s[1] \in Value /\ IntoValue(s, FALSE) = s[1]
           /\ s = <<>> => IntoValue(s, FALSE) = Undefined
<1>1. s = <<>> => IntoValue(s, FALSE) = Undefined
  BY DEF IntoValue
<1>2. Len(s) = 1 => s # <<>> /\ s[1] \in Value
  BY EmptySeq
<1>3. Len(s) = 1 => IntoValue(s, FALSE) = s[1]
  BY <1>2 DEF IntoValue
<1>4. s # <<>> /\ Len(s) # 1 => IntoValue(s, FALSE) = Array(s)
  BY DEF IntoValue
<1> QED
  BY <1>1, <1>2, <1>3, <1>4, ValuesAreResults

-----------------------------------------------------------------------------
(* The items collected over an array *)

ItemsOf == [r \in Result |-> Items(r)]

LEMMA ItemsOfType == Gives(ItemsOf, Result, Value)
  BY ResultIs DEF ItemsOf, Gives

\* Does one of the results hold something?
AnyOf(rs) == \E i \in DOMAIN rs : rs[i] # Undefined

Found == [any : BOOLEAN, items : Seq(Value)]

LEMMA NothingFound == Nothing \in Found
  BY EmptySeq DEF Nothing, Found

LEMMA CollectFinds ==
    ASSUME NEW found \in Found, NEW r \in Result
    PROVE  /\ Collect(found, r) \in Found
           /\ Collect(found, r).any <=> found.any \/ r # Undefined
           /\ Collect(found, r).items = found.items \o Items(r)
<1>0. found.items \in Seq(Value) /\ found.any \in BOOLEAN
  BY DEF Found
<1>1. CASE r = Undefined
  <2>1. Collect(found, r) = found /\ Items(r) = <<>>
    BY <1>1, UndefinedIs DEF Collect, Items
  <2>2. found.items \o <<>> = found.items
    BY <1>0, ConcatEmptySeq
  <2> QED
    BY <1>0, <1>1, <2>1, <2>2
<1>2. CASE IsArray(r) /\ r # Undefined
  <2>1. Collect(found, r) = [any |-> TRUE, items |-> found.items \o r.array] /\ Items(r) = r.array
    BY <1>2 DEF Collect, Items
  <2>2. found.items \o r.array \in Seq(Value)
    BY <1>0, <1>2, ResultIs, ConcatProperties
  <2> QED
    BY <1>0, <1>2, <2>1, <2>2 DEF Found
<1>3. CASE ~IsArray(r) /\ r # Undefined
  <2>1. Collect(found, r) = [any |-> TRUE, items |-> Append(found.items, r)] /\ Items(r) = <<r>>
    BY <1>3 DEF Collect, Items
  <2>2. r \in Value
    BY <1>3, ResultIs
  <2>3. Append(found.items, r) = found.items \o <<r>> /\ Append(found.items, r) \in Seq(Value)
    BY <1>0, <2>2, AppendIsConcat, AppendProperties
  <2> QED
    BY <1>0, <1>3, <2>1, <2>3 DEF Found
<1> QED
  BY <1>1, <1>2, <1>3

LEMMA CollectFold ==
    ASSUME NEW rs \in Seq(Result)
    PROVE  \E at \in [0 .. Len(rs) -> Found] :
               /\ at[0] = Nothing
               /\ \A k \in 1 .. Len(rs) : at[k] = Collect(at[k - 1], rs[k])
               /\ FoldLeft(Collect, Nothing, rs) = at[Len(rs)]
<1> DEFINE S == SUBSET DOMAIN rs
           Is(it) == it = [t \in S |-> IF t = {} THEN Nothing
                                       ELSE Collect(it[t \ {Max(t)}], rs[Max(t)])]
           g == CHOOSE it : Is(it)
           f == [r \in Found |-> [x \in Result |-> Collect(r, x)]]
<1>1. Steps(Found, Result, f)
  BY CollectFinds DEF Steps
<1>2. \A r \in Found : \A x \in Result : f[r][x] = Collect(r, x)
  OBVIOUS
<1>3. \A t \in S : t # {} => t \ {Max(t)} \in S /\ rs[Max(t)] \in Result
  BY LenProperties, GreatestOf
<1> HIDE DEF f
<1>4. PICK it \in [SUBSET DOMAIN rs -> Found] : FollowsFold(f, Nothing, rs, it)
  BY <1>1, NothingFound, FoldExists
<1>5. Is(it)
  <2>1. \A t \in S : t # {} => it[t] = Collect(it[t \ {Max(t)}], rs[Max(t)])
    BY <1>2, <1>3, <1>4 DEF FollowsFold
  <2>2. it[{}] = Nothing
    BY <1>4 DEF FollowsFold
  <2> HIDE DEF S
  <2> QED
    BY <1>4, <2>1, <2>2 DEF S
<1>6. Is(g)
  <2> HIDE DEF Is
  <2> QED
    BY <1>5
<1>7. FoldLeft(Collect, Nothing, rs) = g[DOMAIN rs]
  BY DEF FoldLeft, MapThenFoldSet
<1> HIDE DEF g
<1>8. FollowsWithin(Found, f, Nothing, rs, g)
  BY <1>2, <1>3, <1>6 DEF FollowsWithin
<1>9. PICK at : UnrollsTo(Found, f, Nothing, rs, at, g[DOMAIN rs])
  BY <1>1, <1>8, NothingFound, FoldUnrolls
<1>10. \A k \in 1 .. Len(rs) : at[k] = Collect(at[k - 1], rs[k])
  <2> SUFFICES ASSUME NEW k \in 1 .. Len(rs) PROVE at[k] = Collect(at[k - 1], rs[k])
    OBVIOUS
  <2>1. k - 1 \in 0 .. Len(rs) /\ rs[k] \in Result
    BY LenProperties
  <2> QED
    BY <1>2, <1>9, <2>1 DEF UnrollsTo
<1> QED
  BY <1>7, <1>9, <1>10 DEF UnrollsTo

LEMMA AnyOfAppend ==
    ASSUME NEW X, NEW s \in Seq(X), NEW x \in X
    PROVE  AnyOf(Append(s, x)) <=> AnyOf(s) \/ x # Undefined
<1>1. /\ DOMAIN Append(s, x) = 1 .. Len(s) + 1 /\ DOMAIN s = 1 .. Len(s) /\ Len(s) \in Nat
      /\ \A i \in 1 .. Len(s) : Append(s, x)[i] = s[i]
      /\ Append(s, x)[Len(s) + 1] = x
  BY AppendProperties, LenProperties
<1>2. \A i : i \in 1 .. Len(s) + 1 <=> i \in 1 .. Len(s) \/ i = Len(s) + 1
  BY <1>1
<1> QED
  BY <1>1, <1>2 DEF AnyOf

(* What is collected are the items of the results, one result after the     *)
(* other, and whether there was a result.                                   *)
LEMMA CollectedItems ==
    ASSUME NEW rs \in Seq(Result)
    PROVE  LET all == FoldLeft(Collect, Nothing, rs)
           IN  /\ all.any <=> AnyOf(rs)
               /\ all.items = Spread(ItemsOf, rs)
               /\ all.items \in Seq(Value)
               /\ all.items # <<>> => all.any
<1>1. PICK at \in [0 .. Len(rs) -> Found] :
          /\ at[0] = Nothing
          /\ \A k \in 1 .. Len(rs) : at[k] = Collect(at[k - 1], rs[k])
          /\ FoldLeft(Collect, Nothing, rs) = at[Len(rs)]
  BY CollectFold
<1>2. Len(rs) \in Nat
  OBVIOUS
<1> DEFINE upTo(k) == SubSeq(rs, 1, k)
           Holds(k) == /\ at[k].any <=> AnyOf(upTo(k))
                       /\ at[k].items = Spread(ItemsOf, upTo(k))
                       /\ at[k].items # <<>> => at[k].any
           T == {k \in 0 .. Len(rs) : Holds(k)}
<1>3. 0 \in T
  <2>1. upTo(0) = <<>> /\ ~AnyOf(<<>>)
    BY PrefixGrows DEF AnyOf
  <2>2. Spread(ItemsOf, <<>>) = <<>>
    BY SpreadEmpty
  <2> HIDE DEF upTo
  <2> QED
    BY <1>1, <1>2, <2>1, <2>2 DEF Nothing
<1>4. ASSUME NEW k \in 0 .. Len(rs) - 1, k \in T PROVE k + 1 \in T
  <2>1. k + 1 \in 1 .. Len(rs) /\ k + 1 \in 0 .. Len(rs) /\ (k + 1) - 1 = k
    BY <1>2
  <2>2. rs[k + 1] \in Result /\ upTo(k + 1) = Append(upTo(k), rs[k + 1]) /\ upTo(k) \in Seq(Result)
    BY <2>1, PrefixGrows
  <2> HIDE DEF upTo
  <2>3. at[k + 1] = Collect(at[k], rs[k + 1]) /\ at[k] \in Found
    BY <1>1, <1>2, <2>1
  <2>4. /\ at[k + 1].any <=> at[k].any \/ rs[k + 1] # Undefined
        /\ at[k + 1].items = at[k].items \o Items(rs[k + 1])
    <3>1. LET c == Collect(at[k], rs[k + 1])
          IN  /\ c.any <=> at[k].any \/ rs[k + 1] # Undefined
              /\ c.items = at[k].items \o Items(rs[k + 1])
      BY <2>2, <2>3, CollectFinds, Zenon
    <3> QED
      BY <2>3, <3>1, Zenon
  <2>5. AnyOf(upTo(k + 1)) <=> AnyOf(upTo(k)) \/ rs[k + 1] # Undefined
    <3>1. AnyOf(Append(upTo(k), rs[k + 1])) <=> AnyOf(upTo(k)) \/ rs[k + 1] # Undefined
      BY <2>2, AnyOfAppend, Zenon
    <3> QED
      BY <2>2, <3>1, Zenon
  <2>6. Spread(ItemsOf, upTo(k + 1)) = Spread(ItemsOf, upTo(k)) \o Items(rs[k + 1])
    <3>1. Spread(ItemsOf, Append(upTo(k), rs[k + 1]))
              = Spread(ItemsOf, upTo(k)) \o ItemsOf[rs[k + 1]]
      BY <2>2, ItemsOfType, SpreadAppend
    <3> QED
      BY <2>2, <3>1 DEF ItemsOf
  <2>7. at[k + 1].items # <<>> => at[k + 1].any
    <3>1. CASE rs[k + 1] = Undefined
      <4>1. Items(rs[k + 1]) = <<>> /\ at[k].items \in Seq(Value)
        BY <2>3, <3>1, UndefinedIs DEF Items, Found
      <4>2. at[k + 1].items = at[k].items
        BY <2>4, <4>1, ConcatEmptySeq
      <4> QED
        BY <1>4, <2>4, <4>2
    <3>2. CASE rs[k + 1] # Undefined
      BY <2>4, <3>2
    <3> QED
      BY <3>1, <3>2
  <2> QED
    BY <1>4, <2>1, <2>4, <2>5, <2>6, <2>7
<1> HIDE DEF Holds
<1>5. Holds(Len(rs))
  <2>1. \A k \in 0 .. Len(rs) : k \in T
    BY <1>2, <1>3, <1>4, NumbersUpTo
  <2> QED
    BY <1>2, <2>1
<1>6. at[Len(rs)].items \in Seq(Value)
  <2>1. at[Len(rs)] \in Found
    BY <1>1, <1>2
  <2> QED
    BY <2>1 DEF Found
<1>7. upTo(Len(rs)) = rs
  BY PrefixGrows
<1> QED
  BY <1>1, <1>5, <1>6, <1>7 DEF Holds

(* A walk holds the items of a list: all of them, or the only one itself.   *)
Yields(items, w) ==
    /\ w \in Result /\ items \in Seq(Value)
    /\ \/ Items(w) = items
       \/ Len(items) = 1 /\ w = items[1]

LEMMA IntoValueYields ==
    ASSUME NEW s \in Seq(Value) PROVE Yields(s, IntoValue(s, FALSE))
<1>1. CASE s = <<>>
  <2>1. Items(Undefined) = <<>> /\ Undefined \in Result
    BY UndefinedIs, ValuesAreResults DEF Items
  <2>2. IntoValue(s, FALSE) = Undefined
    BY <1>1 DEF IntoValue
  <2> QED
    BY <1>1, <2>1, <2>2, Zenon DEF Yields
<1>2. CASE Len(s) = 1
  BY <1>2, IntoValueResult DEF Yields
<1>3. CASE s # <<>> /\ Len(s) # 1
  <2>1. Items(Array(s)) = s
    BY ArrayIs DEF Items
  <2>2. IntoValue(s, FALSE) = Array(s) /\ Array(s) \in Result
    BY <1>3, ValuesAreResults DEF IntoValue
  <2> QED
    BY <2>1, <2>2, Zenon DEF Yields
<1> QED
  BY <1>1, <1>2, <1>3

(* Both evaluators make the same of what a name gives in each item.         *)
LEMMA MappedIs ==
    ASSUME NEW rs \in Seq(Result)
    PROVE  /\ Collected(rs) = MappedOver(rs)
           /\ Yields(Spread(ItemsOf, rs), MappedOver(rs))
           /\ MappedOver(rs) # Undefined <=> AnyOf(rs)
<1> DEFINE all == FoldLeft(Collect, Nothing, rs)
           items == Spread(ItemsOf, rs)
<1>1. /\ all.any <=> AnyOf(rs)
      /\ all.items = items
      /\ items \in Seq(Value)
      /\ items # <<>> => AnyOf(rs)
  BY CollectedItems
<1>2. FlattenSeq([i \in DOMAIN rs |-> Items(rs[i])]) = items
  <2>1. \A i \in DOMAIN rs : ItemsOf[rs[i]] = Items(rs[i])
    BY DEF ItemsOf
  <2>2. [i \in DOMAIN rs |-> Items(rs[i])] = [i \in DOMAIN rs |-> ItemsOf[rs[i]]]
    BY <2>1
  <2> QED
    BY <2>2 DEF Spread
<1>3. MappedOver(rs) = IF items = <<>> /\ AnyOf(rs) THEN Array(<<>>) ELSE IntoValue(items, FALSE)
  BY <1>2 DEF MappedOver, AnyOf
<1>4. Collected(rs) = IF items = <<>>
                      THEN IF AnyOf(rs) THEN Array(<<>>) ELSE Undefined
                      ELSE IntoValue(items, FALSE)
  <2>1. Collected(rs) = IF all.items = <<>>
                        THEN IF all.any THEN Array(<<>>) ELSE Undefined
                        ELSE IntoValue(all.items, FALSE)
    BY DEF Collected
  <2> QED
    BY <1>1, <2>1
<1> HIDE DEF all
<1>5. CASE items = <<>> /\ AnyOf(rs)
  <2>1. Array(<<>>) \in Result /\ Items(Array(<<>>)) = <<>> /\ Array(<<>>) # Undefined
    BY EmptySeq, ArrayIs, ValuesAreResults DEF Items
  <2>2. MappedOver(rs) = Array(<<>>) /\ Collected(rs) = Array(<<>>)
    BY <1>3, <1>4, <1>5
  <2> QED
    BY <1>1, <1>5, <2>1, <2>2, Zenon DEF Yields
<1>6. CASE items = <<>> /\ ~AnyOf(rs)
  <2>1. IntoValue(items, FALSE) = Undefined /\ Yields(items, IntoValue(items, FALSE))
    BY <1>1, <1>6, IntoValueResult, IntoValueYields
  <2> QED
    BY <1>3, <1>4, <1>6, <2>1
<1>7. CASE items # <<>>
  <2>1. IntoValue(items, FALSE) # Undefined
    <3>1. items[1] \in Value => items[1] # Undefined
      BY ValuesAreResults
    <3> QED
      BY <1>1, <1>7, <3>1, IntoValueResult, ArrayIs
  <2>2. Yields(items, IntoValue(items, FALSE))
    BY <1>1, IntoValueYields
  <2> QED
    BY <1>1, <1>3, <1>4, <1>7, <2>1, <2>2
<1> QED
  BY <1>5, <1>6, <1>7

-----------------------------------------------------------------------------
(* One name of a path *)

(* What holds of a value when of all that nest less, holds of every value.  *)
LEMMA ValueInduction ==
    ASSUME NEW T,
           \A v \in Value : (\A u \in Value : Height[u] < Height[v] => u \in T) => v \in T
    PROVE  \A v \in Value : v \in T
<1> DEFINE U == {n \in Nat : \A v \in Value : Height[v] < n => v \in T}
<1>0. \A v \in Value : Height[v] \in Nat
  BY ValuesAreJson
<1>1. 0 \in U
  BY <1>0
<1>2. ASSUME NEW n \in Nat, n \in U PROVE n + 1 \in U
  <2> SUFFICES ASSUME NEW v \in Value, Height[v] < n + 1 PROVE v \in T
    OBVIOUS
  <2>1. \A u \in Value : Height[u] < Height[v] => u \in T
    <3> SUFFICES ASSUME NEW u \in Value, Height[u] < Height[v] PROVE u \in T
      OBVIOUS
    <3>1. Height[u] < n
      BY <1>0
    <3> QED
      BY <1>2, <3>1
  <2> QED
    BY <2>1
<1> HIDE DEF U
<1>3. \A n \in Nat : n \in U
  BY <1>1, <1>2, EveryNumber, Zenon
<1>4. ASSUME NEW v \in Value PROVE v \in T
  <2>1. Height[v] + 1 \in U /\ Height[v] < Height[v] + 1
    BY <1>0, <1>3
  <2> QED
    BY <2>1 DEF U
<1> QED
  BY <1>4

(* What a name gives over an array, from what it gives in each value.       *)
Over(g, s) == [i \in DOMAIN s |-> g[s[i]]]

LEMMA OverType ==
    ASSUME NEW g, NEW R, \A u \in Value : g[u] \in R, NEW s \in Seq(Value)
    PROVE  Over(g, s) \in Seq(R)
<1>1. Len(s) \in Nat /\ DOMAIN s = 1 .. Len(s) /\ \A i \in 1 .. Len(s) : g[s[i]] \in R
  BY LenProperties
<1> QED
  BY <1>1 DEF Over

LEMMA NameInType ==
    ASSUME NEW g, \A u \in Value : g[u] \in Result, NEW name, NEW v \in Result
    PROVE  NameIn(g, name, v) \in Result /\ StepIn(g, name, v) = NameIn(g, name, v)
<1>1. CASE IsArray(v)
  <2>1. v.array \in Seq(Value)
    BY <1>1, ResultIs
  <2>2. ~IsObject(v)
    BY <1>1, ResultIs, ArrayIs
  <2>3. Over(g, v.array) \in Seq(Result)
    BY <2>1, OverType
  <2>4. NameIn(g, name, v) = MappedOver(Over(g, v.array))
    BY <1>1, <2>2 DEF NameIn, Over
  <2>5. StepIn(g, name, v) = Collected(Over(g, v.array))
    BY <1>1, <2>2 DEF StepIn, Over
  <2> QED
    BY <2>3, <2>4, <2>5, MappedIs DEF Yields
<1>2. CASE ~IsArray(v) /\ IsObject(v)
  <2>1. v \in Value
    BY <1>2, ResultIs, UndefinedIs
  <2>2. FieldOf(v, name) \in Result
    BY <1>2, <2>1, FieldReached, ValuesAreResults
  <2> QED
    BY <1>2, <2>2 DEF NameIn, StepIn
<1>3. CASE ~IsArray(v) /\ ~IsObject(v)
  BY <1>3, ValuesAreResults DEF NameIn, StepIn
<1> QED
  BY <1>1, <1>2, <1>3

LEMMA NameInLocal ==
    ASSUME NEW g, NEW h, NEW name, NEW v \in Value,
           \A u \in Value : Height[u] < Height[v] => g[u] = h[u]
    PROVE  NameIn(g, name, v) = NameIn(h, name, v) /\ StepIn(g, name, v) = StepIn(h, name, v)
<1>1. CASE IsArray(v)
  <2>1. \A i \in DOMAIN v.array : g[v.array[i]] = h[v.array[i]]
    BY <1>1, ItemReached
  <2>2. Over(g, v.array) = Over(h, v.array)
    BY <2>1 DEF Over
  <2>3. ~IsObject(v)
    BY <1>1, ValueKinds
  <2> QED
    BY <1>1, <2>2, <2>3 DEF NameIn, StepIn, Over
<1>2. CASE ~IsArray(v)
  BY <1>2 DEF NameIn, StepIn
<1> QED
  BY <1>1, <1>2

(* What a name gives is given by the function that its equation defines,    *)
(* and both evaluators compute it.                                          *)
LEMMA NameFunction ==
    ASSUME NEW name
    PROVE  \E f \in [Value -> Result] :
               \A v \in Result : /\ EvalName(name, v) = NameIn(f, name, v)
                                 /\ PathStep(name, v) = NameIn(f, name, v)
                                 /\ v \in Value => f[v] = NameIn(f, name, v)
<1> DEFINE G == [g \in [Value -> Result] |-> [u \in Value |-> NameIn(g, name, u)]]
           IsName(g) == g = [u \in Value |-> NameIn(g, name, u)]
           IsStep(g) == g = [u \in Value |-> StepIn(g, name, u)]
           byName == CHOOSE g : IsName(g)
           byStep == CHOOSE g : IsStep(g)
<1>0. \A u \in Value : u \in Result
  BY ValuesAreResults
<1>1. Contractive(Value, Result, Height, G)
  <2>1. \A g \in [Value -> Result] : \A u \in Value :
            NameIn(g, name, u) \in Result /\ G[g][u] = NameIn(g, name, u)
    BY <1>0, NameInType
  <2>2. \A g \in [Value -> Result] : G[g] \in [Value -> Result]
    BY <2>1
  <2>3. ASSUME NEW g \in [Value -> Result], NEW h \in [Value -> Result], NEW v \in Value,
               \A u \in Value : Height[u] < Height[v] => g[u] = h[u]
        PROVE  G[g][v] = G[h][v]
    BY <2>1, <2>3, NameInLocal
  <2> HIDE DEF G
  <2> QED
    BY <2>2, <2>3, ValuesAreJson DEF Contractive
<1>2. Result # {}
  BY ValuesAreResults
<1>3. PICK f \in [Value -> Result] : f = G[f]
  <2> HIDE DEF G
  <2> QED
    BY <1>1, <1>2, RecursionExists
<1>4. \A u \in Value : f[u] = NameIn(f, name, u) /\ f[u] = StepIn(f, name, u)
  <2>1. \A u \in Value : f[u] = NameIn(f, name, u)
    BY <1>3
  <2>2. \A u \in Value : StepIn(f, name, u) = NameIn(f, name, u)
    BY <1>0, NameInType
  <2> QED
    BY <2>1, <2>2
<1>5. IsName(byName) /\ IsStep(byStep)
  <2>1. IsName(f) /\ IsStep(f)
    BY <1>4
  <2> HIDE DEF IsName, IsStep
  <2> QED
    BY <2>1
<1>6. /\ \A v : EvalName(name, v) = NameIn(byName, name, v)
      /\ \A v : PathStep(name, v) = StepIn(byStep, name, v)
  BY DEF EvalName, PathStep
<1> HIDE DEF byName, byStep
<1>7. \A u \in Value : byName[u] = f[u] /\ byStep[u] = f[u]
  <2> DEFINE T == {u \in Value : byName[u] = f[u] /\ byStep[u] = f[u]}
  <2>1. ASSUME NEW v \in Value, \A u \in Value : Height[u] < Height[v] => u \in T
        PROVE  v \in T
    <3>1. NameIn(byName, name, v) = NameIn(f, name, v) /\ StepIn(byStep, name, v) = StepIn(f, name, v)
      BY <2>1, NameInLocal
    <3>2. byName[v] = NameIn(byName, name, v) /\ byStep[v] = StepIn(byStep, name, v)
      BY <1>5
    <3> QED
      BY <1>4, <3>1, <3>2
  <2> HIDE DEF T
  <2>2. \A v \in Value : v \in T
    BY <2>1, ValueInduction
  <2> QED
    BY <2>2 DEF T
<1>8. ASSUME NEW v \in Result
      PROVE  NameIn(byName, name, v) = NameIn(f, name, v) /\ StepIn(byStep, name, v) = NameIn(f, name, v)
  <2>1. StepIn(f, name, v) = NameIn(f, name, v)
    BY NameInType
  <2>2. CASE IsArray(v)
    <3>1. v.array \in Seq(Value) /\ ~IsObject(v)
      BY <2>2, ResultIs, ArrayIs
    <3>2. \A i \in DOMAIN v.array : v.array[i] \in Value
      BY <3>1
    <3>3. Over(byName, v.array) = Over(f, v.array) /\ Over(byStep, v.array) = Over(f, v.array)
      BY <1>7, <3>2 DEF Over
    <3> QED
      BY <2>1, <2>2, <3>1, <3>3 DEF NameIn, StepIn, Over
  <2>3. CASE ~IsArray(v)
    BY <2>1, <2>3 DEF NameIn, StepIn
  <2> QED
    BY <2>2, <2>3
<1> QED
  BY <1>4, <1>6, <1>8

ByName(name) == CHOOSE f \in [Value -> Result] :
    \A v \in Result : /\ EvalName(name, v) = NameIn(f, name, v)
                      /\ PathStep(name, v) = NameIn(f, name, v)
                      /\ v \in Value => f[v] = NameIn(f, name, v)

(* A name, on what a walk can hold: the field of an object, the collapsed   *)
(* items of what it gives in each item of an array, and nothing elsewhere.  *)
LEMMA EvalNameIs ==
    ASSUME NEW name, NEW v \in Result
    PROVE  /\ EvalName(name, v) \in Result
           /\ PathStep(name, v) = EvalName(name, v)
           /\ ByName(name) \in [Value -> Result]
           /\ v \in Value => ByName(name)[v] = EvalName(name, v)
           /\ IsObject(v) => EvalName(name, v) = FieldOf(v, name)
           /\ IsArray(v) => EvalName(name, v) = MappedOver(Over(ByName(name), v.array))
           /\ ~IsObject(v) /\ ~IsArray(v) => EvalName(name, v) = Undefined
<1> DEFINE f == ByName(name)
<1>1. /\ f \in [Value -> Result]
      /\ \A u \in Result : /\ EvalName(name, u) = NameIn(f, name, u)
                           /\ PathStep(name, u) = NameIn(f, name, u)
                           /\ u \in Value => f[u] = NameIn(f, name, u)
  BY NameFunction DEF ByName
<1> HIDE DEF f
<1>2. EvalName(name, v) \in Result
  BY <1>1, NameInType
<1>3. IsArray(v) => ~IsObject(v)
  BY ResultIs, ArrayIs
<1>4. IsObject(v) => EvalName(name, v) = FieldOf(v, name)
  BY <1>1, <1>3 DEF NameIn
<1>5. IsArray(v) => EvalName(name, v) = MappedOver(Over(f, v.array))
  BY <1>1, <1>3 DEF NameIn, Over
<1>6. ~IsObject(v) /\ ~IsArray(v) => EvalName(name, v) = Undefined
  BY <1>1 DEF NameIn
<1> QED
  BY <1>1, <1>2, <1>4, <1>5, <1>6 DEF f

-----------------------------------------------------------------------------
(* The names of a path, one after the other *)

(* What a walk holds after each name.                                       *)
IsWalk(segments, v, at) ==
    /\ at \in [0 .. Len(segments) -> Result]
    /\ at[0] = v
    /\ \A k \in 1 .. Len(segments) : at[k] = EvalName(segments[k], at[k - 1])

LEMMA WalkUnique ==
    ASSUME NEW segments \in Seq(STRING), NEW v, NEW at, NEW bt,
           IsWalk(segments, v, at), IsWalk(segments, v, bt)
    PROVE  \A k \in 0 .. Len(segments) : at[k] = bt[k]
<1> DEFINE T == {k \in 0 .. Len(segments) : at[k] = bt[k]}
<1>0. Len(segments) \in Nat
  BY LenProperties
<1>1. 0 \in T
  BY <1>0 DEF IsWalk
<1>2. ASSUME NEW k \in 0 .. Len(segments) - 1, k \in T PROVE k + 1 \in T
  <2>1. k + 1 \in 1 .. Len(segments) /\ k + 1 \in 0 .. Len(segments) /\ (k + 1) - 1 = k
    BY <1>0
  <2>2. /\ at[k + 1] = EvalName(segments[k + 1], at[(k + 1) - 1])
        /\ bt[k + 1] = EvalName(segments[k + 1], bt[(k + 1) - 1])
    BY <2>1 DEF IsWalk
  <2> QED
    BY <1>2, <2>1, <2>2
<1> HIDE DEF T
<1>3. \A k \in 0 .. Len(segments) : k \in T
  BY <1>0, <1>1, <1>2, NumbersUpTo
<1> QED
  BY <1>3 DEF T

(* The general evaluator and the fast one both walk a path.                 *)
LEMMA PathWalk ==
    ASSUME NEW segments \in Seq(STRING), NEW v \in Reached
    PROVE  \E at : /\ IsWalk(segments, v, at)
                   /\ EvalPath(segments, FALSE, v) = at[Len(segments)]
                   /\ EvalPurePath(segments, v) = at[Len(segments)]
<1> DEFINE S == SUBSET DOMAIN segments
           General(r, x) == IF r = Undefined THEN Undefined ELSE EvalName(x, r)
           IsGeneral(it) == it = [t \in S |-> IF t = {} THEN v
                                     ELSE General(it[t \ {Max(t)}], segments[Max(t)])]
           IsFast(it) == it = [t \in S |-> IF t = {} THEN v
                                     ELSE PathStep(segments[Max(t)], it[t \ {Max(t)}])]
           general == CHOOSE it : IsGeneral(it)
           fast == CHOOSE it : IsFast(it)
           f == [r \in Result |-> [x \in STRING |-> EvalName(x, r)]]
<1>0. Len(segments) \in Nat /\ v \in Result
  BY LenProperties, ValuesAreResults
<1>1. \A r \in Result : \A x \in STRING :
          /\ f[r][x] = EvalName(x, r) /\ f[r][x] \in Result
          /\ General(r, x) = f[r][x] /\ PathStep(x, r) = f[r][x]
  <2> SUFFICES ASSUME NEW r \in Result, NEW x \in STRING
               PROVE  /\ f[r][x] = EvalName(x, r) /\ f[r][x] \in Result
                      /\ General(r, x) = f[r][x] /\ PathStep(x, r) = f[r][x]
    OBVIOUS
  <2>1. f[r][x] = EvalName(x, r)
    OBVIOUS
  <2>2. r = Undefined => EvalName(x, r) = Undefined
    BY EvalNameIs, UndefinedIs
  <2> QED
    BY <2>1, <2>2, EvalNameIs
<1> HIDE DEF f, General
<1>2. Steps(Result, STRING, f)
  BY <1>1 DEF Steps
<1>3. \A t \in S : t # {} => t \ {Max(t)} \in S /\ segments[Max(t)] \in STRING
  BY LenProperties, GreatestOf
<1>4. PICK it \in [SUBSET DOMAIN segments -> Result] : FollowsFold(f, v, segments, it)
  BY <1>0, <1>2, FoldExists
<1>5. IsGeneral(it) /\ IsFast(it)
  <2>1. \A t \in S : t # {} => /\ it[t] = General(it[t \ {Max(t)}], segments[Max(t)])
                               /\ it[t] = PathStep(segments[Max(t)], it[t \ {Max(t)}])
    BY <1>1, <1>3, <1>4 DEF FollowsFold
  <2>2. it[{}] = v
    BY <1>4 DEF FollowsFold
  <2> HIDE DEF S
  <2> QED
    BY <1>4, <2>1, <2>2 DEF S
<1>6. IsGeneral(general) /\ IsFast(fast)
  <2> HIDE DEF IsGeneral, IsFast
  <2> QED
    BY <1>5
<1>7. /\ EvalPath(segments, FALSE, v) = general[DOMAIN segments]
      /\ EvalPurePath(segments, v) = fast[DOMAIN segments]
  BY DEF EvalPath, EvalPurePath, FoldLeft, MapThenFoldSet, General
<1> HIDE DEF general, fast
<1>8. FollowsWithin(Result, f, v, segments, general) /\ FollowsWithin(Result, f, v, segments, fast)
  BY <1>1, <1>3, <1>6 DEF FollowsWithin
<1>9. PICK at : UnrollsTo(Result, f, v, segments, at, general[DOMAIN segments])
  BY <1>0, <1>2, <1>8, FoldUnrolls
<1>10. PICK bt : UnrollsTo(Result, f, v, segments, bt, fast[DOMAIN segments])
  BY <1>0, <1>2, <1>8, FoldUnrolls
<1>11. ASSUME NEW ct, NEW last, UnrollsTo(Result, f, v, segments, ct, last)
       PROVE  IsWalk(segments, v, ct) /\ last = ct[Len(segments)]
  <2>1. ASSUME NEW k \in 1 .. Len(segments) PROVE ct[k] = EvalName(segments[k], ct[k - 1])
    <3>1. k - 1 \in 0 .. Len(segments) /\ segments[k] \in STRING
      BY LenProperties
    <3> QED
      BY <1>1, <1>11, <3>1 DEF UnrollsTo
  <2> QED
    BY <1>11, <2>1 DEF UnrollsTo, IsWalk
<1>12. at[Len(segments)] = bt[Len(segments)]
  BY <1>0, <1>9, <1>10, <1>11, WalkUnique
<1> QED
  BY <1>7, <1>9, <1>10, <1>11, <1>12

-----------------------------------------------------------------------------
(* The walk on the tape *)

(* What a cursor stands for.                                                *)
Held(cur) == CASE cur = NoNode -> Undefined
               [] "one" \in DOMAIN cur -> cur.one
               [] OTHER -> Array(cur.many)

Cursor == {NoNode} \cup {One(r) : r \in Result} \cup {Many(s) : s \in Seq(Value)}

LEMMA CursorIs ==
    /\ NoNode \in Cursor /\ Held(NoNode) = Undefined
    /\ \A r \in Result : One(r) \in Cursor /\ Held(One(r)) = r
    /\ \A s \in Seq(Value) : Many(s) \in Cursor /\ Held(Many(s)) = Array(s)
    /\ \A c \in Cursor : /\ Held(c) \in Result
                         /\ c # NoNode /\ "one" \notin DOMAIN c => c.many \in Seq(Value)
<1>1. /\ NoNode \in Cursor
      /\ \A r \in Result : One(r) \in Cursor
      /\ \A s \in Seq(Value) : Many(s) \in Cursor
  BY DEF Cursor
<1>2. Held(NoNode) = Undefined
  BY DEF Held, NoNode
<1>3. \A r : One(r) # NoNode /\ "one" \in DOMAIN One(r) /\ One(r).one = r
  BY DEF One, NoNode
<1>4. \A s : Many(s) # NoNode /\ "one" \notin DOMAIN Many(s) /\ Many(s).many = s
  BY DEF Many, NoNode
<1>5. /\ \A r : Held(One(r)) = r
      /\ \A s : Held(Many(s)) = Array(s)
  BY <1>3, <1>4 DEF Held
<1>6. \A c \in Cursor : \/ c = NoNode
                        \/ \E r \in Result : c = One(r)
                        \/ \E s \in Seq(Value) : c = Many(s)
  BY DEF Cursor
<1>7. \A c \in Cursor : /\ Held(c) \in Result
                        /\ c # NoNode /\ "one" \notin DOMAIN c => c.many \in Seq(Value)
  BY <1>2, <1>3, <1>4, <1>5, <1>6, ValuesAreResults
<1> QED
  BY <1>1, <1>2, <1>5, <1>7

LEMMA CursorKinds ==
    ASSUME NEW c \in Cursor
    PROVE  \/ c = NoNode
           \/ /\ c # NoNode /\ "one" \in DOMAIN c /\ c.one \in Result /\ Held(c) = c.one
           \/ /\ c # NoNode /\ "one" \notin DOMAIN c /\ c.many \in Seq(Value)
              /\ Held(c) = Array(c.many)
<1>1. \A r : One(r) # NoNode /\ "one" \in DOMAIN One(r) /\ One(r).one = r
  BY DEF One, NoNode
<1>2. \A s : Many(s) # NoNode /\ "one" \notin DOMAIN Many(s) /\ Many(s).many = s
  BY DEF Many, NoNode
<1>3. CASE \E r \in Result : c = One(r)
  BY <1>1, <1>3, CursorIs
<1>4. CASE \E s \in Seq(Value) : c = Many(s)
  BY <1>2, <1>4, CursorIs
<1> QED
  BY <1>3, <1>4 DEF Cursor

LEMMA CollectNodesIs ==
    ASSUME NEW found \in Found, NEW c \in Cursor
    PROVE  CollectNodes(found, c) = Collect(found, Held(c))
<1>1. CASE c = NoNode
  BY <1>1, CursorIs, UndefinedIs DEF CollectNodes, Collect, NoNode
<1>2. CASE c # NoNode /\ "one" \in DOMAIN c
  BY <1>2, CursorKinds DEF CollectNodes
<1>3. CASE c # NoNode /\ "one" \notin DOMAIN c
  <2>1. Held(c) = Array(c.many)
    BY <1>3, CursorKinds
  <2>2. Collect(found, Array(c.many)) = [any |-> TRUE, items |-> found.items \o c.many]
    BY ArrayIs DEF Collect
  <2> QED
    BY <1>3, <2>1, <2>2 DEF CollectNodes
<1> QED
  BY <1>1, <1>2, <1>3

\* What the cursors of the steps stand for.
HeldBy(steps) == [i \in DOMAIN steps |-> Held(steps[i])]

LEMMA HeldByType ==
    ASSUME NEW steps \in Seq(Cursor)
    PROVE  HeldBy(steps) \in Seq(Result) /\ Len(HeldBy(steps)) = Len(steps)
<1>1. /\ Len(steps) \in Nat /\ DOMAIN steps = 1 .. Len(steps)
      /\ \A i \in 1 .. Len(steps) : steps[i] \in Cursor
  BY LenProperties
<1>2. \A i \in 1 .. Len(steps) : Held(steps[i]) \in Result
  BY <1>1, CursorIs
<1> QED
  BY <1>1, <1>2 DEF HeldBy

LEMMA NodesFold ==
    ASSUME NEW steps \in Seq(Cursor)
    PROVE  FoldLeft(CollectNodes, Nothing, steps) = FoldLeft(Collect, Nothing, HeldBy(steps))
<1> DEFINE S == SUBSET DOMAIN steps
           Is(it) == it = [t \in S |-> IF t = {} THEN Nothing
                                       ELSE CollectNodes(it[t \ {Max(t)}], steps[Max(t)])]
           g == CHOOSE it : Is(it)
           f == [r \in Found |-> [x \in Cursor |-> CollectNodes(r, x)]]
<1>0. Len(steps) \in Nat
  BY LenProperties
<1>1. \A r \in Found : \A x \in Cursor :
          f[r][x] = CollectNodes(r, x) /\ f[r][x] = Collect(r, Held(x)) /\ f[r][x] \in Found
  <2> SUFFICES ASSUME NEW r \in Found, NEW x \in Cursor
               PROVE  /\ f[r][x] = CollectNodes(r, x) /\ f[r][x] = Collect(r, Held(x))
                      /\ f[r][x] \in Found
    OBVIOUS
  <2>1. f[r][x] = CollectNodes(r, x)
    OBVIOUS
  <2>2. Held(x) \in Result
    BY CursorIs
  <2> QED
    BY <2>1, <2>2, CollectNodesIs, CollectFinds
<1> HIDE DEF f
<1>2. Steps(Found, Cursor, f)
  BY <1>1 DEF Steps
<1>3. \A t \in S : t # {} => t \ {Max(t)} \in S /\ steps[Max(t)] \in Cursor
  BY LenProperties, GreatestOf
<1>4. PICK it \in [SUBSET DOMAIN steps -> Found] : FollowsFold(f, Nothing, steps, it)
  BY <1>2, NothingFound, FoldExists
<1>5. Is(it)
  <2>1. \A t \in S : t # {} => it[t] = CollectNodes(it[t \ {Max(t)}], steps[Max(t)])
    BY <1>1, <1>3, <1>4 DEF FollowsFold
  <2>2. it[{}] = Nothing
    BY <1>4 DEF FollowsFold
  <2> HIDE DEF S
  <2> QED
    BY <1>4, <2>1, <2>2 DEF S
<1>6. Is(g)
  <2> HIDE DEF Is
  <2> QED
    BY <1>5
<1>7. FoldLeft(CollectNodes, Nothing, steps) = g[DOMAIN steps]
  BY DEF FoldLeft, MapThenFoldSet
<1> HIDE DEF g
<1>8. FollowsWithin(Found, f, Nothing, steps, g)
  <2>1. \A t \in S : t # {} => g[t] = CollectNodes(g[t \ {Max(t)}], steps[Max(t)])
    BY <1>6
  <2>2. g[{}] = Nothing
    BY <1>6
  <2> QED
    BY <1>1, <1>3, <2>1, <2>2 DEF FollowsWithin
<1>9. PICK at : UnrollsTo(Found, f, Nothing, steps, at, g[DOMAIN steps])
  BY <1>2, <1>8, NothingFound, FoldUnrolls
<1>10. PICK bt \in [0 .. Len(steps) -> Found] :
           /\ bt[0] = Nothing
           /\ \A k \in 1 .. Len(steps) : bt[k] = Collect(bt[k - 1], HeldBy(steps)[k])
           /\ FoldLeft(Collect, Nothing, HeldBy(steps)) = bt[Len(steps)]
  BY HeldByType, CollectFold
<1> DEFINE T == {k \in 0 .. Len(steps) : at[k] = bt[k]}
<1>11. 0 \in T
  BY <1>0, <1>9, <1>10 DEF UnrollsTo
<1>12. ASSUME NEW k \in 0 .. Len(steps) - 1, k \in T PROVE k + 1 \in T
  <2>1. /\ k + 1 \in 1 .. Len(steps) /\ k + 1 \in 0 .. Len(steps) /\ (k + 1) - 1 = k
        /\ k \in 0 .. Len(steps)
    BY <1>0
  <2>2. steps[k + 1] \in Cursor /\ HeldBy(steps)[k + 1] = Held(steps[k + 1])
    BY <2>1, LenProperties DEF HeldBy
  <2>3. bt[k + 1] = Collect(bt[k], Held(steps[k + 1])) /\ bt[k] \in Found
    <3>1. bt[k + 1] = Collect(bt[(k + 1) - 1], HeldBy(steps)[k + 1])
      BY <1>10, <2>1
    <3> QED
      BY <1>10, <2>1, <2>2, <3>1
  <2>4. at[k + 1] = f[at[k]][steps[k + 1]]
    <3>1. at[k + 1] = f[at[(k + 1) - 1]][steps[k + 1]]
      BY <1>9, <2>1 DEF UnrollsTo
    <3> QED
      BY <2>1, <3>1
  <2> QED
    BY <1>1, <1>12, <2>1, <2>2, <2>3, <2>4
<1>13. at[Len(steps)] = bt[Len(steps)]
  <2> HIDE DEF T
  <2>1. \A k \in 0 .. Len(steps) : k \in T
    BY <1>0, <1>11, <1>12, NumbersUpTo
  <2> QED
    BY <1>0, <2>1 DEF T
<1> QED
  BY <1>7, <1>9, <1>10, <1>13 DEF UnrollsTo

(* The nodes found over an array stand for what the values there give.      *)
LEMMA TapeStepOverIs ==
    ASSUME NEW steps \in Seq(Cursor)
    PROVE  /\ TapeStepOver(steps) \in Cursor
           /\ Held(TapeStepOver(steps)) = MappedOver(HeldBy(steps))
<1> DEFINE rs == HeldBy(steps)
           all == FoldLeft(Collect, Nothing, rs)
<1>1. rs \in Seq(Result)
  BY HeldByType
<1>2. all.items \in Seq(Value) /\ (all.items # <<>> => all.any)
  BY <1>1, CollectedItems
<1>3. TapeStepOver(steps) = CASE all.items = <<>> /\ ~all.any -> NoNode
                              [] Len(all.items) = 1 -> One(all.items[1])
                              [] OTHER -> Many(all.items)
  BY NodesFold DEF TapeStepOver
<1>4. MappedOver(rs) = IF all.items = <<>>
                       THEN IF all.any THEN Array(<<>>) ELSE Undefined
                       ELSE IntoValue(all.items, FALSE)
  BY <1>1, MappedIs DEF Collected
<1> HIDE DEF all, rs
<1>5. CASE all.items = <<>> /\ ~all.any
  <2>1. TapeStepOver(steps) = NoNode
    BY <1>3, <1>5
  <2> QED
    BY <1>4, <1>5, <2>1, CursorIs DEF rs
<1>6. CASE all.items = <<>> /\ all.any
  <2>1. TapeStepOver(steps) = Many(all.items)
    BY <1>3, <1>6
  <2>2. MappedOver(rs) = Array(all.items)
    BY <1>4, <1>6
  <2> QED
    BY <1>2, <2>1, <2>2, CursorIs DEF rs
<1>7. CASE Len(all.items) = 1
  <2>1. /\ all.items # <<>> /\ all.items[1] \in Value
        /\ IntoValue(all.items, FALSE) = all.items[1]
    BY <1>2, <1>7, IntoValueResult
  <2>2. TapeStepOver(steps) = One(all.items[1]) /\ MappedOver(rs) = all.items[1]
    BY <1>3, <1>4, <1>7, <2>1
  <2>3. all.items[1] \in Result
    BY <2>1, ValuesAreResults
  <2> QED
    BY <2>2, <2>3, CursorIs DEF rs
<1>8. CASE all.items # <<>> /\ Len(all.items) # 1
  <2>1. TapeStepOver(steps) = Many(all.items)
    BY <1>3, <1>8
  <2>2. MappedOver(rs) = Array(all.items)
    BY <1>2, <1>4, <1>8, IntoValueResult
  <2> QED
    BY <1>2, <2>1, <2>2, CursorIs DEF rs
<1> QED
  BY <1>5, <1>6, <1>7, <1>8

(* The nodes a name finds in the items of an array.                         *)
LEMMA TapeInHolds ==
    ASSUME NEW g, \A u \in Value : g[u] \in Cursor, NEW name, NEW v \in Result,
           IsArray(v) => \A i \in DOMAIN v.array : Held(g[v.array[i]]) = EvalName(name, v.array[i])
    PROVE  Held(TapeIn(g, name, v)) = EvalName(name, v)
<1>1. CASE IsArray(v)
  <2>1. v.array \in Seq(Value) /\ ~IsObject(v)
    BY <1>1, ResultIs, ArrayIs
  <2>2. Over(g, v.array) \in Seq(Cursor)
    BY <2>1, OverType
  <2>3. TapeIn(g, name, v) = TapeStepOver(Over(g, v.array))
    BY <1>1, <2>1 DEF TapeIn, Over
  <2>4. HeldBy(Over(g, v.array)) = Over(ByName(name), v.array)
    <3>1. \A i \in DOMAIN v.array : v.array[i] \in Value
      BY <2>1
    <3>2. \A u \in Value : ByName(name)[u] = EvalName(name, u)
      BY EvalNameIs, ValuesAreResults
    <3> QED
      BY <1>1, <3>1, <3>2 DEF HeldBy, Over
  <2> QED
    BY <1>1, <2>2, <2>3, <2>4, TapeStepOverIs, EvalNameIs
<1>2. CASE IsObject(v) /\ ~IsArray(v)
  <2>1. v \in Value
    BY <1>2, ResultIs, UndefinedIs
  <2>2. FieldOf(v, name) \in Result /\ EvalName(name, v) = FieldOf(v, name)
    BY <1>2, <2>1, FieldReached, ValuesAreResults, EvalNameIs
  <2>3. CASE name \in DOMAIN v.object
    BY <1>2, <2>2, <2>3, CursorIs DEF TapeIn, FieldOf
  <2>4. CASE name \notin DOMAIN v.object
    BY <1>2, <2>2, <2>4, CursorIs DEF TapeIn, FieldOf
  <2> QED
    BY <2>3, <2>4
<1>3. CASE ~IsObject(v) /\ ~IsArray(v)
  BY <1>3, CursorIs, EvalNameIs DEF TapeIn
<1> QED
  BY <1>1, <1>2, <1>3

LEMMA TapeInType ==
    ASSUME NEW g, \A u \in Value : g[u] \in Cursor, NEW name, NEW v \in Result
    PROVE  TapeIn(g, name, v) \in Cursor
<1>1. CASE IsArray(v)
  <2>1. v.array \in Seq(Value) /\ ~IsObject(v)
    BY <1>1, ResultIs, ArrayIs
  <2>2. Over(g, v.array) \in Seq(Cursor)
    BY <2>1, OverType
  <2>3. TapeIn(g, name, v) = TapeStepOver(Over(g, v.array))
    BY <1>1, <2>1 DEF TapeIn, Over
  <2> QED
    BY <2>2, <2>3, TapeStepOverIs
<1>2. CASE IsObject(v) /\ ~IsArray(v)
  <2>1. v \in Value
    BY <1>2, ResultIs, UndefinedIs
  <2>2. FieldOf(v, name) \in Result
    BY <1>2, <2>1, FieldReached, ValuesAreResults
  <2>3. CASE name \in DOMAIN v.object
    BY <1>2, <2>2, <2>3, CursorIs DEF TapeIn, FieldOf
  <2>4. CASE name \notin DOMAIN v.object
    BY <1>2, <2>4, CursorIs DEF TapeIn
  <2> QED
    BY <2>3, <2>4
<1>3. CASE ~IsObject(v) /\ ~IsArray(v)
  BY <1>3, CursorIs DEF TapeIn
<1> QED
  BY <1>1, <1>2, <1>3

LEMMA TapeInLocal ==
    ASSUME NEW g, NEW h, NEW name, NEW v \in Value,
           \A u \in Value : Height[u] < Height[v] => g[u] = h[u]
    PROVE  TapeIn(g, name, v) = TapeIn(h, name, v)
<1>1. CASE IsArray(v)
  <2>1. \A i \in DOMAIN v.array : g[v.array[i]] = h[v.array[i]]
    BY <1>1, ItemReached
  <2>2. Over(g, v.array) = Over(h, v.array)
    BY <2>1 DEF Over
  <2>3. ~IsObject(v)
    BY <1>1, ValueKinds
  <2> QED
    BY <1>1, <2>2, <2>3 DEF TapeIn, Over
<1>2. CASE ~IsArray(v)
  BY <1>2 DEF TapeIn
<1> QED
  BY <1>1, <1>2

(* On the tape, a name finds what it finds in a parsed value: the nodes     *)
(* found stand for it.                                                      *)
LEMMA TapePathStepIs ==
    ASSUME NEW name, NEW r \in Result
    PROVE  TapePathStep(name, r) \in Cursor /\ Held(TapePathStep(name, r)) = EvalName(name, r)
<1> DEFINE G == [g \in [Value -> Cursor] |-> [u \in Value |-> TapeIn(g, name, u)]]
           Is(g) == g = [u \in Value |-> TapeIn(g, name, u)]
           inside == CHOOSE g : Is(g)
<1>0. \A u \in Value : u \in Result
  BY ValuesAreResults
<1>1. Contractive(Value, Cursor, Height, G)
  <2>1. \A g \in [Value -> Cursor] : \A u \in Value :
            TapeIn(g, name, u) \in Cursor /\ G[g][u] = TapeIn(g, name, u)
    BY <1>0, TapeInType
  <2>2. \A g \in [Value -> Cursor] : G[g] \in [Value -> Cursor]
    BY <2>1
  <2>3. ASSUME NEW g \in [Value -> Cursor], NEW h \in [Value -> Cursor], NEW v \in Value,
               \A u \in Value : Height[u] < Height[v] => g[u] = h[u]
        PROVE  G[g][v] = G[h][v]
    BY <2>1, <2>3, TapeInLocal
  <2> HIDE DEF G
  <2> QED
    BY <2>2, <2>3, ValuesAreJson DEF Contractive
<1>2. Cursor # {}
  BY CursorIs
<1>3. PICK f \in [Value -> Cursor] : f = G[f]
  <2> HIDE DEF G
  <2> QED
    BY <1>1, <1>2, RecursionExists
<1>4. Is(inside)
  <2>1. Is(f)
    BY <1>3
  <2> HIDE DEF Is
  <2> QED
    BY <2>1
<1>5. \A v : TapePathStep(name, v) = TapeIn(inside, name, v)
  BY DEF TapePathStep
<1> HIDE DEF inside
<1>6. \A u \in Value : inside[u] = f[u] /\ f[u] \in Cursor
  <2> DEFINE T == {u \in Value : inside[u] = f[u]}
  <2>1. ASSUME NEW v \in Value, \A u \in Value : Height[u] < Height[v] => u \in T
        PROVE  v \in T
    <3>1. TapeIn(inside, name, v) = TapeIn(f, name, v)
      BY <2>1, TapeInLocal
    <3>2. inside[v] = TapeIn(inside, name, v) /\ f[v] = TapeIn(f, name, v)
      BY <1>3, <1>4
    <3> QED
      BY <3>1, <3>2
  <2> HIDE DEF T
  <2>2. \A v \in Value : v \in T
    BY <2>1, ValueInduction
  <2> QED
    BY <2>2 DEF T
<1>7. \A v \in Value : Held(inside[v]) = EvalName(name, v)
  <2> DEFINE T == {u \in Value : Held(inside[u]) = EvalName(name, u)}
  <2>1. ASSUME NEW v \in Value, \A u \in Value : Height[u] < Height[v] => u \in T
        PROVE  v \in T
    <3>1. IsArray(v) => \A i \in DOMAIN v.array :
                            Held(inside[v.array[i]]) = EvalName(name, v.array[i])
      BY <2>1, ItemReached
    <3>2. inside[v] = TapeIn(inside, name, v)
      BY <1>4
    <3>3. \A u \in Value : inside[u] \in Cursor
      BY <1>6
    <3> QED
      BY <1>0, <3>1, <3>2, <3>3, TapeInHolds
  <2> HIDE DEF T
  <2>2. \A v \in Value : v \in T
    BY <2>1, ValueInduction
  <2> QED
    BY <2>2 DEF T
<1>8. IsArray(r) => \A i \in DOMAIN r.array :
                        Held(inside[r.array[i]]) = EvalName(name, r.array[i])
  <2> SUFFICES ASSUME IsArray(r), NEW i \in DOMAIN r.array
               PROVE  Held(inside[r.array[i]]) = EvalName(name, r.array[i])
    OBVIOUS
  <2>1. r.array \in Seq(Value)
    BY ResultIs
  <2>2. r.array[i] \in Value
    BY <2>1
  <2> QED
    BY <1>7, <2>2
<1>9. \A u \in Value : inside[u] \in Cursor
  BY <1>6
<1> QED
  BY <1>5, <1>8, <1>9, TapeInHolds, TapeInType

LEMMA TapeNextIs ==
    ASSUME NEW cur \in Cursor, NEW name
    PROVE  TapeNext(cur, name) \in Cursor /\ Held(TapeNext(cur, name)) = EvalName(name, Held(cur))
<1>1. CASE cur = NoNode
  <2>1. TapeNext(cur, name) = NoNode
    BY <1>1 DEF TapeNext, NoNode
  <2>2. EvalName(name, Undefined) = Undefined
    BY EvalNameIs, UndefinedIs, ValuesAreResults
  <2> QED
    BY <1>1, <2>1, <2>2, CursorIs
<1>2. CASE cur # NoNode /\ "one" \in DOMAIN cur
  <2>1. cur.one \in Result /\ Held(cur) = cur.one
    BY <1>2, CursorKinds
  <2> QED
    BY <1>2, <2>1, TapePathStepIs DEF TapeNext
<1>3. CASE cur # NoNode /\ "one" \notin DOMAIN cur
  <2>1. cur.many \in Seq(Value) /\ Held(cur) = Array(cur.many)
    BY <1>3, CursorKinds
  <2> DEFINE g == [u \in Value |-> TapePathStep(name, u)]
  <2>2. \A u \in Value : g[u] \in Cursor /\ Held(g[u]) = EvalName(name, u)
    BY TapePathStepIs, ValuesAreResults
  <2>3. \A i \in DOMAIN cur.many : cur.many[i] \in Value /\ g[cur.many[i]] = TapePathStep(name, cur.many[i])
    BY <2>1
  <2>4. TapeNext(cur, name) = TapeStepOver(Over(g, cur.many))
    BY <1>3, <2>3 DEF TapeNext, Over
  <2> HIDE DEF g
  <2>5. TapeIn(g, name, Array(cur.many)) = TapeStepOver(Over(g, cur.many))
    BY ArrayIs DEF TapeIn, Over
  <2>6. Array(cur.many) \in Result /\ Array(cur.many).array = cur.many
    BY <2>1, ValuesAreResults, ArrayIs
  <2> QED
    BY <2>1, <2>2, <2>3, <2>4, <2>5, <2>6, TapeInHolds, TapeInType
<1> QED
  BY <1>1, <1>2, <1>3

(* The walk on the tape of a document finds what the path selects in it.    *)
LEMMA TapeWalkIs ==
    ASSUME NEW segments \in Seq(STRING), NEW v \in Reached
    PROVE  TapeWalk(v, segments) = EvalPath(segments, FALSE, v)
<1> DEFINE S == SUBSET DOMAIN segments
           Is(it) == it = [t \in S |-> IF t = {} THEN One(v)
                                       ELSE TapeNext(it[t \ {Max(t)}], segments[Max(t)])]
           g == CHOOSE it : Is(it)
           f == [c \in Cursor |-> [x \in STRING |-> TapeNext(c, x)]]
<1>0. Len(segments) \in Nat /\ v \in Result /\ One(v) \in Cursor /\ Held(One(v)) = v
  BY LenProperties, ValuesAreResults, CursorIs
<1>1. \A c \in Cursor : \A x \in STRING : f[c][x] = TapeNext(c, x) /\ f[c][x] \in Cursor
  BY TapeNextIs
<1> HIDE DEF f
<1>2. Steps(Cursor, STRING, f)
  BY <1>1 DEF Steps
<1>3. \A t \in S : t # {} => t \ {Max(t)} \in S /\ segments[Max(t)] \in STRING
  BY LenProperties, GreatestOf
<1>4. PICK it \in [SUBSET DOMAIN segments -> Cursor] : FollowsFold(f, One(v), segments, it)
  BY <1>0, <1>2, FoldExists
<1>5. Is(it)
  <2>1. \A t \in S : t # {} => it[t] = TapeNext(it[t \ {Max(t)}], segments[Max(t)])
    BY <1>1, <1>3, <1>4 DEF FollowsFold
  <2>2. it[{}] = One(v)
    BY <1>4 DEF FollowsFold
  <2> HIDE DEF S
  <2> QED
    BY <1>4, <2>1, <2>2 DEF S
<1>6. Is(g)
  <2> HIDE DEF Is
  <2> QED
    BY <1>5
<1>7. FoldLeft(TapeNext, One(v), segments) = g[DOMAIN segments]
  BY DEF FoldLeft, MapThenFoldSet
<1> HIDE DEF g
<1>8. FollowsWithin(Cursor, f, One(v), segments, g)
  <2>1. \A t \in S : t # {} => g[t] = TapeNext(g[t \ {Max(t)}], segments[Max(t)])
    BY <1>6
  <2>2. g[{}] = One(v)
    BY <1>6
  <2> QED
    BY <1>1, <1>3, <2>1, <2>2 DEF FollowsWithin
<1>9. PICK at : UnrollsTo(Cursor, f, One(v), segments, at, g[DOMAIN segments])
  BY <1>0, <1>2, <1>8, FoldUnrolls
<1> DEFINE bt == [k \in 0 .. Len(segments) |-> Held(at[k])]
<1>10. IsWalk(segments, v, bt)
  <2>1. \A k \in 0 .. Len(segments) : at[k] \in Cursor /\ bt[k] = Held(at[k])
    BY <1>9 DEF UnrollsTo
  <2>2. bt \in [0 .. Len(segments) -> Result]
    BY <2>1, CursorIs
  <2>3. bt[0] = v
    BY <1>0, <1>9, <2>1 DEF UnrollsTo
  <2>4. ASSUME NEW k \in 1 .. Len(segments) PROVE bt[k] = EvalName(segments[k], bt[k - 1])
    <3>1. k - 1 \in 0 .. Len(segments) /\ k \in 0 .. Len(segments) /\ segments[k] \in STRING
      BY <1>0, LenProperties
    <3>2. at[k] = TapeNext(at[k - 1], segments[k])
      BY <1>1, <1>9, <2>1, <3>1 DEF UnrollsTo
    <3> HIDE DEF bt
    <3> QED
      BY <2>1, <3>1, <3>2, TapeNextIs
  <2> HIDE DEF bt
  <2> QED
    BY <2>2, <2>3, <2>4 DEF IsWalk
<1>11. PICK ct : IsWalk(segments, v, ct) /\ EvalPath(segments, FALSE, v) = ct[Len(segments)]
  BY PathWalk
<1>12. bt[Len(segments)] = ct[Len(segments)]
  <2> HIDE DEF bt
  <2> QED
    BY <1>0, <1>10, <1>11, WalkUnique
<1>13. Len(segments) \in 0 .. Len(segments)
  BY <1>0
<1>14. TapeWalk(v, segments) = Held(at[Len(segments)])
  BY <1>7, <1>9 DEF TapeWalk, Held, UnrollsTo
<1> QED
  BY <1>11, <1>12, <1>13, <1>14

-----------------------------------------------------------------------------
(* What a path selects on a document is no error, nothing to be collapsed,  *)
(* and the same for all three evaluators.                                   *)
LEMMA PathResult ==
    ASSUME NEW segments \in Seq(STRING), NEW v \in Reached
    PROVE  /\ EvalPath(segments, FALSE, v) \in Result
           /\ EvalPurePath(segments, v) = EvalPath(segments, FALSE, v)
           /\ TapeWalk(v, segments) = EvalPath(segments, FALSE, v)
<1>1. PICK at : /\ IsWalk(segments, v, at)
                /\ EvalPath(segments, FALSE, v) = at[Len(segments)]
                /\ EvalPurePath(segments, v) = at[Len(segments)]
  BY PathWalk
<1>2. Len(segments) \in 0 .. Len(segments)
  BY LenProperties
<1> QED
  BY <1>1, <1>2, TapeWalkIs DEF IsWalk

-----------------------------------------------------------------------------
(* The lists that a path selects, name after name *)

(* What one name selects in a value, as a list.                             *)
Named(name) == [x \in Value |-> Items(EvalName(name, x))]

LEMMA NamedType == ASSUME NEW name PROVE Gives(Named(name), Value, Value)
<1>1. \A x \in Value : EvalName(name, x) \in Result
  BY EvalNameIs, ValuesAreResults
<1>2. \A x \in Value : Items(EvalName(name, x)) \in Seq(Value)
  BY <1>1, ResultIs
<1> QED
  BY <1>2 DEF Named, Gives

LEMMA NamedIs ==
    ASSUME NEW name, NEW x \in Value
    PROVE  /\ Named(name)[x] = Items(EvalName(name, x))
           /\ IsObject(x) => Named(name)[x] = Items(FieldOf(x, name))
           /\ ~IsObject(x) /\ ~IsArray(x) => Named(name)[x] = <<>>
<1>1. Named(name)[x] = Items(EvalName(name, x))
  BY DEF Named
<1>2. Items(Undefined) = <<>>
  BY UndefinedIs DEF Items
<1> QED
  BY <1>1, <1>2, EvalNameIs, ValuesAreResults

LEMMA OneItem ==
    ASSUME NEW X, NEW s \in Seq(X), Len(s) = 1
    PROVE  s = <<s[1]>> /\ s[1] \in X /\ DOMAIN s = {1}
<1>1. s[1] \in X /\ DOMAIN s = 1 .. 1
  OBVIOUS
<1>2. 1 .. 1 = {1}
  OBVIOUS
<1>3. s = <<s[1]>>
  BY <1>1
<1> QED
  BY <1>1, <1>2, <1>3

(* One more name, on what is held of a list.                                *)
LEMMA NameYields ==
    ASSUME NEW name, NEW items, NEW w, Yields(items, w)
    PROVE  /\ Yields(Spread(Named(name), items), EvalName(name, w))
           /\ EvalName(name, w) # Undefined
                  <=> \E i \in DOMAIN items : EvalName(name, items[i]) # Undefined
<1>0. w \in Result /\ items \in Seq(Value) /\ EvalName(name, w) \in Result
  BY EvalNameIs DEF Yields
<1>n. Gives(Named(name), Value, Value)
  BY NamedType
<1>1. CASE w = Undefined /\ Items(w) = items
  <2>1. items = <<>> /\ EvalName(name, w) = Undefined
    BY <1>0, <1>1, UndefinedIs, EvalNameIs DEF Items
  <2>2. Spread(Named(name), items) = <<>> /\ DOMAIN items = {}
    BY <2>1, SpreadEmpty
  <2>3. Yields(<<>>, Undefined)
    BY <1>0, <1>1, <2>1 DEF Yields
  <2> QED
    BY <2>1, <2>2, <2>3
<1>2. CASE IsArray(w) /\ Items(w) = items
  <2> DEFINE rs == Over(ByName(name), items)
  <2>1. items = w.array /\ EvalName(name, w) = MappedOver(rs)
    <3>1. w # Undefined
      BY <1>0, <1>2, ResultIs
    <3>2. items = w.array
      BY <1>2, <3>1 DEF Items
    <3> QED
      BY <1>0, <1>2, <3>2, EvalNameIs
  <2>2. \A x \in Value : ByName(name)[x] = EvalName(name, x) /\ EvalName(name, x) \in Result
    BY EvalNameIs, ValuesAreResults
  <2>3. rs \in Seq(Result)
    BY <1>0, <2>2, OverType
  <2>4. DOMAIN items = 1 .. Len(items) /\ \A i \in DOMAIN items : items[i] \in Value
    BY <1>0, LenProperties
  <2>5. DOMAIN rs = DOMAIN items /\ \A i \in DOMAIN items : rs[i] = EvalName(name, items[i])
    BY <2>2, <2>4 DEF Over
  <2>6. Spread(ItemsOf, rs) = Spread(Named(name), items)
    <3>1. \A i \in DOMAIN items : ItemsOf[rs[i]] = Named(name)[items[i]]
      BY <2>2, <2>4, <2>5, NamedIs DEF ItemsOf
    <3>2. [i \in DOMAIN rs |-> ItemsOf[rs[i]]] = [i \in DOMAIN items |-> Named(name)[items[i]]]
      BY <2>5, <3>1
    <3> QED
      BY <3>2 DEF Spread
  <2> HIDE DEF rs
  <2>7. AnyOf(rs) <=> \E i \in DOMAIN items : EvalName(name, items[i]) # Undefined
    BY <2>5 DEF AnyOf
  <2>8. /\ Yields(Spread(ItemsOf, rs), MappedOver(rs))
        /\ MappedOver(rs) # Undefined <=> AnyOf(rs)
    BY <2>3, MappedIs
  <2> QED
    BY <2>1, <2>6, <2>7, <2>8
<1>3. CASE Len(items) = 1 /\ w = items[1]
  <2>1. items = <<w>> /\ w \in Value /\ DOMAIN items = {1} /\ items[1] = w
    BY <1>0, <1>3, OneItem
  <2>2. Spread(Named(name), items) = Items(EvalName(name, w))
    BY <1>n, <2>1, SpreadOne, NamedIs
  <2>3. Yields(Items(EvalName(name, w)), EvalName(name, w))
    BY <1>0, ResultIs DEF Yields
  <2> QED
    BY <2>1, <2>2, <2>3
<1>4. CASE Items(w) = items /\ w # Undefined /\ ~IsArray(w)
  <2>1. items = <<w>>
    BY <1>4 DEF Items
  <2> QED
    BY <1>3, <2>1
<1> QED
  BY <1>1, <1>2, <1>3, <1>4 DEF Yields

(* The lists that the names of a path select, one after the other.          *)
IsLists(segments, v, L) ==
    /\ L \in [0 .. Len(segments) -> Seq(Value)]
    /\ L[0] = Items(v)
    /\ \A k \in 1 .. Len(segments) : L[k] = Spread(Named(segments[k]), L[k - 1])

LEMMA SpreadNamed ==
    ASSUME NEW name, NEW s \in Seq(Value) PROVE Spread(Named(name), s) \in Seq(Value)
<1>1. \A x \in Value : Named(name)[x] \in Seq(Value)
  BY NamedType DEF Gives
<1> QED
  BY <1>1, SpreadType

LEMMA ListsExist ==
    ASSUME NEW segments \in Seq(STRING), NEW v \in Reached
    PROVE  \E L : IsLists(segments, v, L)
<1> DEFINE f == [r \in Seq(Value) |-> [x \in STRING |-> Spread(Named(x), r)]]
           base == Items(v)
<1>1. base \in Seq(Value)
  BY ResultIs, ValuesAreResults
<1>2. Steps(Seq(Value), STRING, f)
  BY SpreadNamed DEF Steps
<1>3. \A r \in Seq(Value) : \A x \in STRING : f[r][x] = Spread(Named(x), r)
  OBVIOUS
<1> HIDE DEF f, base
<1>4. PICK it \in [SUBSET DOMAIN segments -> Seq(Value)] : FollowsFold(f, base, segments, it)
  BY <1>1, <1>2, FoldExists
<1>5. FollowsWithin(Seq(Value), f, base, segments, it)
  BY <1>4 DEF FollowsFold, FollowsWithin
<1>6. PICK L : UnrollsTo(Seq(Value), f, base, segments, L, it[DOMAIN segments])
  BY <1>1, <1>2, <1>5, FoldUnrolls
<1>7. ASSUME NEW k \in 1 .. Len(segments)
      PROVE  L[k] = Spread(Named(segments[k]), L[k - 1])
  <2>1. k - 1 \in 0 .. Len(segments) /\ segments[k] \in STRING
    BY LenProperties
  <2>2. L[k - 1] \in Seq(Value) /\ L[k] = f[L[k - 1]][segments[k]]
    BY <1>6, <2>1 DEF UnrollsTo
  <2> QED
    BY <1>3, <2>1, <2>2
<1> QED
  BY <1>6, <1>7 DEF UnrollsTo, IsLists, base

LEMMA ListsYield ==
    ASSUME NEW segments \in Seq(STRING), NEW v \in Reached, NEW L, NEW at,
           IsLists(segments, v, L), IsWalk(segments, v, at)
    PROVE  \A k \in 0 .. Len(segments) : Yields(L[k], at[k])
<1> DEFINE T == {k \in 0 .. Len(segments) : Yields(L[k], at[k])}
<1>0. Len(segments) \in Nat
  BY LenProperties
<1>1. 0 \in T
  <2>1. L[0] = Items(v) /\ at[0] = v /\ v \in Result
    BY ValuesAreResults DEF IsLists, IsWalk
  <2>2. Yields(Items(v), v)
    BY <2>1, ResultIs DEF Yields
  <2> QED
    BY <1>0, <2>1, <2>2
<1>2. ASSUME NEW k \in 0 .. Len(segments) - 1, k \in T PROVE k + 1 \in T
  <2>1. k + 1 \in 1 .. Len(segments) /\ k + 1 \in 0 .. Len(segments) /\ (k + 1) - 1 = k
    BY <1>0
  <2>2. /\ L[k + 1] = Spread(Named(segments[k + 1]), L[(k + 1) - 1])
        /\ at[k + 1] = EvalName(segments[k + 1], at[(k + 1) - 1])
    BY <2>1 DEF IsLists, IsWalk
  <2>3. Yields(L[k], at[k])
    BY <1>2
  <2>4. Yields(Spread(Named(segments[k + 1]), L[k]), EvalName(segments[k + 1], at[k]))
    BY <2>3, NameYields
  <2> QED
    BY <2>1, <2>2, <2>4
<1> HIDE DEF T
<1>3. \A k \in 0 .. Len(segments) : k \in T
  BY <1>0, <1>1, <1>2, NumbersUpTo
<1> QED
  BY <1>3 DEF T

(* What the names from the k-th on give for a value, when the last one      *)
(* gives what base does.                                                    *)
IsLevels(segments, Y, base, M) ==
    /\ \A k \in 1 .. Len(segments) : Gives(M[k], Value, Y)
    /\ M[Len(segments)] = base
    /\ \A k \in 1 .. Len(segments) - 1 : M[k] = Through(M[k + 1], Named(segments[k]))

LEMMA LevelsExist ==
    ASSUME NEW segments \in Seq(STRING), segments # <<>>, NEW Y, NEW base, Gives(base, Value, Y)
    PROVE  \E M : IsLevels(segments, Y, base, M)
<1> DEFINE n == Len(segments) - 1
           R == [Value -> Seq(Y)]
           step == [k \in 1 .. n |-> [r \in R |-> Through(r, Named(segments[k]))]]
<1>1. n \in Nat /\ n + 1 = Len(segments) /\ n = Len(segments) - 1
  BY LenProperties, EmptySeq
<1>2. Descends(n, R, step)
  <2>1. \A r \in R : Gives(r, Value, Y)
    BY DEF Gives
  <2>2. \A r \in R : \A k \in 1 .. n : Gives(Through(r, Named(segments[k])), Value, Y)
    BY <2>1, NamedType, ThroughType
  <2> HIDE DEF n
  <2>3. \A r \in R : \A k \in 1 .. n : step[k][r] \in R
    BY <2>2 DEF Gives
  <2> QED
    BY <2>3 DEF Descends
<1>3. base \in R
  BY DEF Gives
<1>4. \A k \in 1 .. n : \A r \in R : step[k][r] = Through(r, Named(segments[k]))
  OBVIOUS
<1> HIDE DEF step, R, n
<1>5. PICK M \in [1 .. n + 1 -> R] : FollowsDown(n, base, step, M)
  BY <1>1, <1>2, <1>3, DescentExists
<1>6. \A k \in 1 .. n : k + 1 \in 1 .. n + 1
  BY <1>1
<1>7. \A k \in 1 .. n : M[k] = Through(M[k + 1], Named(segments[k]))
  BY <1>4, <1>5, <1>6 DEF FollowsDown
<1>8. \A k \in 1 .. n + 1 : Gives(M[k], Value, Y)
  BY <1>5 DEF R, Gives
<1>9. IsLevels(segments, Y, base, M)
  BY <1>1, <1>5, <1>7, <1>8 DEF IsLevels, FollowsDown
<1> QED
  BY <1>9

(* Selecting with the first name and then with the rest is selecting with   *)
(* all names but the last, and then with it.                                *)
LEMMA LevelsKeep ==
    ASSUME NEW segments \in Seq(STRING), segments # <<>>, NEW v \in Reached, NEW L,
           NEW Y, NEW base, NEW M, IsLists(segments, v, L), IsLevels(segments, Y, base, M)
    PROVE  Spread(M[1], Items(v)) = Spread(base, L[Len(segments) - 1])
<1> DEFINE n == Len(segments) - 1
           T == {k \in 0 .. n : Spread(M[k + 1], L[k]) = Spread(M[1], L[0])}
<1>1. n \in Nat /\ n + 1 = Len(segments) /\ Len(segments) \in Nat
  BY LenProperties, EmptySeq
<1>2. 0 \in T
  BY <1>1
<1>3. ASSUME NEW k \in 0 .. n - 1, k \in T PROVE k + 1 \in T
  <2>1. /\ k + 1 \in 1 .. Len(segments) /\ k + 1 \in 1 .. Len(segments) - 1 /\ (k + 1) - 1 = k
        /\ k \in 0 .. Len(segments) /\ k + 2 \in 1 .. Len(segments) /\ (k + 1) + 1 = k + 2
        /\ k + 1 \in 0 .. n
    BY <1>1
  <2> DEFINE g == Named(segments[k + 1])
             h == M[k + 2]
             s == L[k]
  <2>2. L[k + 1] = Spread(g, s)
    <3>1. L[k + 1] = Spread(Named(segments[k + 1]), L[(k + 1) - 1])
      BY <2>1 DEF IsLists
    <3> QED
      BY <2>1, <3>1
  <2>3. M[k + 1] = Through(h, g)
    <3>1. M[k + 1] = Through(M[(k + 1) + 1], Named(segments[k + 1]))
      BY <2>1 DEF IsLevels
    <3> QED
      BY <2>1, <3>1
  <2>4. Gives(g, Value, Value) /\ Gives(h, Value, Y) /\ s \in Seq(Value)
    BY <2>1, NamedType DEF IsLists, IsLevels
  <2>5. Spread(M[k + 1], s) = Spread(M[1], L[0])
    BY <1>3
  <2> HIDE DEF T, g, h, s
  <2>6. Spread(h, Spread(g, s)) = Spread(Through(h, g), s)
    BY <2>4, SpreadSpread
  <2>7. Spread(M[(k + 1) + 1], L[k + 1]) = Spread(M[1], L[0])
    BY <2>1, <2>2, <2>3, <2>5, <2>6 DEF h
  <2> QED
    BY <2>1, <2>7 DEF T
<1> HIDE DEF T
<1>4. \A k \in 0 .. n : k \in T
  <2> HIDE DEF n
  <2> QED
    BY <1>1, <1>2, <1>3, NumbersUpTo
<1>5. n \in T
  BY <1>1, <1>4
<1>6. M[n + 1] = base /\ L[0] = Items(v)
  BY <1>1 DEF IsLists, IsLevels
<1> QED
  BY <1>5, <1>6 DEF T

(* What the names from the k-th on give for an object is what the rest give *)
(* for its field.                                                           *)
LEMMA LevelIs ==
    ASSUME NEW segments \in Seq(STRING), NEW Y, NEW base, NEW M,
           IsLevels(segments, Y, base, M), NEW k \in 1 .. Len(segments), NEW x \in Value
    PROVE  /\ k = Len(segments) => M[k][x] = base[x]
           /\ k < Len(segments) => k + 1 \in 1 .. Len(segments)
           /\ IsObject(x) /\ k < Len(segments) =>
                  M[k][x] = Spread(M[k + 1], Items(FieldOf(x, segments[k])))
           /\ ~IsObject(x) /\ ~IsArray(x) /\ k < Len(segments) => M[k][x] = <<>>
<1>0. Len(segments) \in Nat
  BY LenProperties
<1>1. k = Len(segments) => M[k][x] = base[x]
  BY DEF IsLevels
<1>2. ASSUME k < Len(segments)
      PROVE  M[k][x] = Spread(M[k + 1], Named(segments[k])[x])
  <2>1. k \in 1 .. Len(segments) - 1
    BY <1>0, <1>2
  <2>2. M[k] = Through(M[k + 1], Named(segments[k]))
    BY <2>1 DEF IsLevels
  <2>3. x \in DOMAIN Named(segments[k])
    BY DEF Named
  <2> QED
    BY <2>2, <2>3 DEF Through
<1>3. Spread(M[k + 1], <<>>) = <<>>
  BY SpreadEmpty
<1>4. k < Len(segments) => k + 1 \in 1 .. Len(segments)
  BY <1>0
<1> QED
  BY <1>1, <1>2, <1>3, <1>4, NamedIs
===============================================================================

-------------------------- MODULE ClosureEnvsProofs --------------------------
(* Proofs about module ClosureEnvs, for any number of environments and any *)
(* sweep threshold.                                                         *)
EXTENDS ClosureEnvs, FiniteSetTheorems, FunctionTheorems, NaturalsInduction,
        WellFoundedInduction, TLAPS

(* What a function calls and runs in it also keeps, in the environments of P. *)
Keeps(f, P) == /\ f \in Function
               /\ f.calls \subseteq f.keeps
               /\ f.runs \subseteq f.keeps
               /\ f.keeps \subseteq P

(* Environments and functions refer to environments that exist. *)
Shape == /\ made \subseteq Env /\ IsFiniteSet(made)
         /\ alive \subseteq made
         /\ chain \in [Env -> Seq(Env)]
         /\ holds \in [Env -> SUBSET Function]
         /\ \A e \in Env : \A f \in holds[e] : Keeps(f, alive)
         /\ \A f \in hand : Keeps(f, alive)
         /\ frames \in Seq(alive)
         /\ ~done => frames # <<>>
         /\ born \in [Env -> Nat]
         /\ done \in BOOLEAN /\ risky \in BOOLEAN

(* The suspects and their bound. *)
Suspected == /\ suspects \in Seq(Env)
             /\ Range(suspects) \subseteq made
             /\ sweepAt \in Nat
             /\ Len(suspects) < sweepAt
             /\ sweepAt <= SweepMin \/ sweepAt <= 2 * Cardinality(made)

(* No bound and no flying function calls an unregistered scope. *)
Registered ==
    ~done => /\ \A e \in Env : \A f \in holds[e] : f.calls \subseteq Range(suspects)
             /\ \A f \in hand : f.calls \subseteq Range(suspects)

(* The inductive invariant. *)
IInv == Shape /\ Suspected /\ Registered

-----------------------------------------------------------------------------
LEMMA MaxOfTwo ==
    ASSUME NEW a \in Nat, NEW b \in Nat
    PROVE  /\ Max({a, b}) \in Nat
           /\ a <= Max({a, b}) /\ b <= Max({a, b})
           /\ Max({a, b}) = a \/ Max({a, b}) = b
<1>1. \E x \in {a, b} : \A y \in {a, b} : x >= y
  OBVIOUS
<1>2. Max({a, b}) \in {a, b} /\ \A y \in {a, b} : Max({a, b}) >= y
  BY <1>1 DEF Max
<1> QED
  BY <1>2

LEMMA RangeFinite ==
    ASSUME NEW S, NEW s \in Seq(S)
    PROVE  Range(s) \subseteq S /\ IsFiniteSet(Range(s))
<1>1. Len(s) \in Nat /\ DOMAIN s = 1 .. Len(s) /\ s \in [1 .. Len(s) -> S]
  OBVIOUS
<1>2. Range(s) \subseteq S
  BY <1>1 DEF Range
<1>3. s \in Surjection(1 .. Len(s), Range(s))
  BY <1>1, Fun_RangeProperties
<1>4. IsFiniteSet(1 .. Len(s))
  BY <1>1, FS_Interval
<1> QED
  BY <1>2, <1>3, <1>4, FS_Surjection

LEMMA RangeAppend ==
    ASSUME NEW S, NEW s \in Seq(S), NEW x
    PROVE  Range(Append(s, x)) = Range(s) \cup {x}
<1>1. Len(s) \in Nat /\ DOMAIN s = 1 .. Len(s)
  OBVIOUS
<1>2. /\ DOMAIN Append(s, x) = 1 .. (Len(s) + 1)
      /\ \A i \in 1 .. Len(s) : Append(s, x)[i] = s[i]
      /\ Append(s, x)[Len(s) + 1] = x
  BY <1>1
<1>3. /\ \A i \in 1 .. (Len(s) + 1) : i \in 1 .. Len(s) \/ i = Len(s) + 1
      /\ Len(s) + 1 \in 1 .. (Len(s) + 1) /\ \A i \in 1 .. Len(s) : i \in 1 .. (Len(s) + 1)
  BY <1>1
<1> QED
  BY <1>1, <1>2, <1>3 DEF Range

LEMMA LastInRange ==
    ASSUME NEW S, NEW s \in Seq(S), s # <<>>
    PROVE  Last(s) \in Range(s)
<1>1. Len(s) \in DOMAIN s
  OBVIOUS
<1> QED
  BY <1>1 DEF Last, Range

(* A sweep keeps exactly the live suspects, once each. *)
LEMMA SweepKeepsAlive ==
    ASSUME NEW list \in Seq(Env), NEW swept \in Compacted(list)
    PROVE  /\ swept \in Seq(Env)
           /\ Range(swept) = Range(list) \cap alive
           /\ IsFiniteSet(Range(list) \cap alive)
           /\ Len(swept) = Cardinality(Range(list) \cap alive)
<1> DEFINE K == Range(list) \cap alive
           n == Cardinality(K)
<1>0. Range(list) \subseteq Env /\ IsFiniteSet(Range(list))
  BY RangeFinite
<1>1. IsFiniteSet(K)
  BY <1>0, FS_Subset
<1>2. n \in Nat
  BY <1>1, FS_CardinalityType
<1>3. swept \in [1 .. n -> K] /\ \A i, j \in 1 .. n : i # j => swept[i] # swept[j]
  BY DEF Compacted, SetToSeqs
<1>4. swept \in Injection(1 .. n, K)
  BY <1>3 DEF Injection, IsInjective
<1>5. Cardinality(1 .. n) = Cardinality(K)
  BY <1>2, FS_Interval
<1>6. swept \in Surjection(1 .. n, K)
  BY <1>1, <1>4, <1>5, FS_Injection
<1>7. Range(swept) = K
  <2>1. DOMAIN swept = 1 .. n /\ \A i \in 1 .. n : swept[i] \in K
    BY <1>3
  <2>2. \A t \in K : \E i \in 1 .. n : swept[i] = t
    BY <1>6 DEF Surjection
  <2> HIDE DEF K, n
  <2> QED
    BY <2>1, <2>2 DEF Range
<1>8. K \subseteq Env
  BY <1>0
<1>9. swept \in Seq(Env) /\ Len(swept) = n
  <2>1. swept \in [1 .. n -> Env]
    BY <1>3, <1>8
  <2> HIDE DEF K, n
  <2> QED
    BY <1>2, <2>1
<1> QED
  BY <1>1, <1>7, <1>9

(* Registering a live scope keeps every live suspect and the bound. *)
LEMMA NoteRegisters ==
    ASSUME Shape, Suspected, NEW e \in alive, NoteClosureEnv(e), made' = made
    PROVE  /\ Suspected'
           /\ e \in Range(suspects')
           /\ Range(suspects) \cap alive \subseteq Range(suspects')
<1> DEFINE list == Append(suspects, e)
<1>1. /\ suspects \in Seq(Env) /\ e \in Env /\ e \in made /\ Range(suspects) \subseteq made
      /\ sweepAt \in Nat /\ Len(suspects) < sweepAt /\ Len(suspects) \in Nat
      /\ sweepAt <= SweepMin \/ sweepAt <= 2 * Cardinality(made)
  BY DEF Shape, Suspected
<1>2. /\ list \in Seq(Env) /\ Range(list) = Range(suspects) \cup {e}
  <2>1. list \in Seq(Env)
    BY <1>1
  <2>2. Range(list) = Range(suspects) \cup {e}
    BY <1>1, RangeAppend
  <2> QED
    BY <2>1, <2>2
<1>3. CASE suspects # <<>> /\ Last(suspects) = e /\ e \in alive
  <2>1. suspects' = suspects /\ sweepAt' = sweepAt
    BY <1>3 DEF NoteClosureEnv
  <2>2. e \in Range(suspects)
    <3>1. suspects # <<>>
      BY <1>3
    <3>2. Last(suspects) \in Range(suspects)
      BY <1>1, <3>1, LastInRange
    <3> QED
      BY <1>3, <3>2
  <2> QED
    BY <1>1, <2>1, <2>2 DEF Suspected
<1>4. CASE /\ ~(suspects # <<>> /\ Last(suspects) = e /\ e \in alive)
           /\ Len(list) < sweepAt
  <2>1. suspects' = list /\ sweepAt' = sweepAt
    BY <1>4 DEF NoteClosureEnv
  <2> QED
    BY <1>1, <1>2, <1>4, <2>1 DEF Suspected
<1>5. CASE /\ ~(suspects # <<>> /\ Last(suspects) = e /\ e \in alive)
           /\ ~(Len(list) < sweepAt)
  <2>1. suspects' \in Compacted(list) /\ sweepAt' = Max({2 * Len(suspects'), SweepMin})
    BY <1>5 DEF NoteClosureEnv
  <2>2. /\ suspects' \in Seq(Env) /\ Range(suspects') = Range(list) \cap alive
        /\ Len(suspects') = Cardinality(Range(list) \cap alive)
    <3> HIDE DEF list
    <3> QED
      BY <1>2, <2>1, SweepKeepsAlive
  <2>3. Len(suspects') \in Nat
    BY <2>2
  <2>4. Len(suspects') <= Cardinality(made) /\ Cardinality(made) \in Nat
    <3>1. Range(list) \cap alive \in SUBSET made /\ IsFiniteSet(made)
      BY DEF Shape
    <3> QED
      BY <2>2, <3>1, FS_Subset, FS_CardinalityType
  <2>5. /\ sweepAt' \in Nat /\ 2 * Len(suspects') <= sweepAt' /\ SweepMin <= sweepAt'
        /\ sweepAt' = 2 * Len(suspects') \/ sweepAt' = SweepMin
    BY <2>1, <2>3, MaxOfTwo, SweepMinAssumption
  <2>6. /\ Len(suspects') < sweepAt'
        /\ sweepAt' <= SweepMin \/ sweepAt' <= 2 * Cardinality(made)
    BY <2>3, <2>4, <2>5, SweepMinAssumption
  <2>7. Range(suspects') \subseteq made' /\ e \in Range(suspects')
        /\ Range(suspects) \cap alive \subseteq Range(suspects')
    BY <1>1, <1>2, <2>2
  <2> QED
    BY <2>2, <2>5, <2>6, <2>7 DEF Suspected
<1> QED
  BY <1>3, <1>4, <1>5

-----------------------------------------------------------------------------
(* Nothing that the stack or a function refers to is freed. *)
LEMMA SettleKeepsReferents ==
    ASSUME NEW up, NEW bound, NEW stack, NEW flight, NEW pool,
           pool = alive \cup (made' \ made), pool \subseteq Env,
           stack \in Seq(pool),
           bound \in [Env -> SUBSET Function],
           \A e \in Env : \A f \in bound[e] : Keeps(f, pool),
           \A f \in flight : Keeps(f, pool),
           Settle(up, bound, stack, flight)
    PROVE  /\ alive' \subseteq pool
           /\ frames' \in Seq(alive')
           /\ \A f \in hand' : Keeps(f, alive')
           /\ holds' \in [Env -> SUBSET Function]
           /\ \A e \in Env : holds'[e] \subseteq bound[e]
           /\ \A e \in Env : \A f \in holds'[e] : Keeps(f, alive')
<1> DEFINE roots == Range(stack) \cup UNION {f.keeps : f \in flight}
           Kept(S) == \A e \in S : \/ e \in roots
                                   \/ \E d \in S : e \in Refs(d, up, bound)
<1>1. alive' = UNION {S \in SUBSET pool : Kept(S)}
  BY DEF Settle, Surviving
<1>2. alive' \subseteq pool
  BY <1>1
<1>3. ASSUME NEW e \in pool, e \in roots PROVE e \in alive'
  <2>1. Kept({e})
    BY <1>3
  <2> HIDE DEF Kept
  <2> QED
    BY <1>1, <2>1
<1>4. ASSUME NEW e \in pool, NEW d \in alive', e \in Refs(d, up, bound) PROVE e \in alive'
  <2>1. PICK S \in SUBSET pool : d \in S /\ Kept(S)
    BY <1>1
  <2>2. Kept(S \cup {e})
    BY <1>4, <2>1
  <2>3. S \cup {e} \in SUBSET pool
    BY <1>4
  <2> HIDE DEF Kept
  <2> QED
    BY <1>1, <2>2, <2>3
<1>5. frames' \in Seq(alive')
  <2>1. Len(stack) \in Nat /\ stack \in [1 .. Len(stack) -> pool]
    OBVIOUS
  <2>2. \A i \in 1 .. Len(stack) : stack[i] \in alive'
    BY <1>3, <2>1 DEF Range
  <2>3. stack \in [1 .. Len(stack) -> alive']
    BY <2>1, <2>2
  <2>4. stack \in Seq(alive')
    BY <2>1, <2>3
  <2> QED
    BY <2>4 DEF Settle
<1>6. ASSUME NEW f \in hand' PROVE Keeps(f, alive')
  <2>1. f \in flight /\ Keeps(f, pool)
    BY <1>6 DEF Settle
  <2>2. \A e \in f.keeps : e \in pool /\ e \in roots
    BY <2>1 DEF Keeps
  <2>3. f.keeps \subseteq alive'
    BY <1>3, <2>2
  <2> QED
    BY <2>1, <2>3 DEF Keeps
<1>7. /\ holds' = [e \in Env |-> IF e \in alive' THEN bound[e] ELSE {}]
      /\ holds' \in [Env -> SUBSET Function]
      /\ \A e \in Env : holds'[e] \subseteq bound[e]
  BY DEF Settle
<1>8. ASSUME NEW e \in Env, NEW f \in holds'[e] PROVE Keeps(f, alive')
  <2>1. e \in alive' /\ f \in bound[e] /\ Keeps(f, pool)
    BY <1>7
  <2>2. \A x \in f.keeps : x \in pool /\ x \in Refs(e, up, bound)
    BY <2>1 DEF Keeps, Refs
  <2>3. f.keeps \subseteq alive'
    BY <1>4, <2>1, <2>2
  <2> QED
    BY <2>1, <2>3 DEF Keeps
<1> QED
  BY <1>2, <1>5, <1>6, <1>7, <1>8

(* What a step has to establish besides its use of Settle. *)
LEMMA StepKeepsInvariant ==
    ASSUME IInv,
           NEW up \in [Env -> Seq(Env)], NEW bound \in [Env -> SUBSET Function],
           NEW stack, NEW flight, NEW pool,
           pool = alive \cup (made' \ made), made' \subseteq Env,
           made \subseteq made', IsFiniteSet(made'),
           stack \in Seq(pool), ~done' => stack # <<>>,
           \A e \in Env : \A f \in bound[e] : Keeps(f, pool),
           \A f \in flight : Keeps(f, pool),
           Settle(up, bound, stack, flight),
           done' \in BOOLEAN, risky' \in BOOLEAN, born' \in [Env -> Nat],
           Suspected',
           ~done' => /\ \A e \in Env : \A f \in bound[e] : f.calls \subseteq Range(suspects')
                     /\ \A f \in flight : f.calls \subseteq Range(suspects')
    PROVE  IInv'
<1>1. pool \subseteq made' /\ pool \subseteq Env
  BY DEF IInv, Shape
<1>2. /\ alive' \subseteq pool
      /\ frames' \in Seq(alive')
      /\ \A f \in hand' : Keeps(f, alive')
      /\ holds' \in [Env -> SUBSET Function]
      /\ \A e \in Env : holds'[e] \subseteq bound[e]
      /\ \A e \in Env : \A f \in holds'[e] : Keeps(f, alive')
  BY <1>1, SettleKeepsReferents
<1>3. chain' = up /\ frames' = stack /\ hand' = flight
  BY DEF Settle
<1>4. Shape'
  BY <1>1, <1>2, <1>3 DEF Shape
<1>5. Registered'
  BY <1>2, <1>3 DEF Registered
<1> QED
  BY <1>4, <1>5 DEF IInv

(* The scope being evaluated in exists, and so do the functions in sight. *)
LEMMA ScopeFacts ==
    ASSUME IInv, ~done
    PROVE  /\ Top \in alive /\ Top \in Env
           /\ \A f \in hand \cup Visible : Keeps(f, alive) /\ f.calls \subseteq Range(suspects)
           /\ Transformer(Top) \in Function /\ Keeps(Transformer(Top), alive)
<1>1. frames \in Seq(alive) /\ frames # <<>> /\ alive \subseteq Env
  BY DEF IInv, Shape
<1>2. Last(frames) \in alive
  BY <1>1 DEF Last
<1>3. Top \in alive /\ Top \in Env
  BY <1>1, <1>2 DEF Top
<1>4. ASSUME NEW f \in Visible
      PROVE  \E e \in Env : f \in holds[e]
  <2>1. PICK a \in {Top} \cup Range(chain[Top]) : f \in holds[a]
    BY DEF Visible
  <2>2. chain[Top] \in Seq(Env)
    BY <1>3 DEF IInv, Shape
  <2>3. Range(chain[Top]) \subseteq Env
    BY <2>2, RangeFinite
  <2> QED
    BY <1>3, <2>1, <2>3
<1>5. \A f \in hand \cup Visible : Keeps(f, alive) /\ f.calls \subseteq Range(suspects)
  BY <1>4 DEF IInv, Shape, Registered
<1>6. Transformer(Top) \in Function /\ Keeps(Transformer(Top), alive)
  BY <1>3 DEF Transformer, Function, Keeps
<1> QED
  BY <1>3, <1>5, <1>6

-----------------------------------------------------------------------------
(* The list is left alone and no more environment is created. *)
LEMMA SuspectsUnchanged ==
    ASSUME IInv, UNCHANGED <<suspects, sweepAt>>, made \subseteq made',
           IsFiniteSet(made')
    PROVE  Suspected'
<1>1. Cardinality(made) <= Cardinality(made') /\ Cardinality(made) \in Nat /\ Cardinality(made') \in Nat
  BY FS_Subset, FS_CardinalityType DEF IInv, Shape
<1>2. Range(suspects') = Range(suspects)
  OBVIOUS
<1> QED
  BY <1>1, <1>2 DEF IInv, Suspected

(* Steps that leave the environments created and the suspects alone. *)
LEMMA QuietStep ==
    ASSUME IInv, ~done,
           UNCHANGED <<made, born, suspects, sweepAt, done>>, risky' \in BOOLEAN,
           NEW bound \in [Env -> SUBSET Function], NEW stack \in Seq(alive), NEW flight,
           stack # <<>>,
           \A e \in Env : \A f \in bound[e] :
               Keeps(f, alive) /\ f.calls \subseteq Range(suspects),
           \A f \in flight : Keeps(f, alive) /\ f.calls \subseteq Range(suspects),
           Settle(chain, bound, stack, flight)
    PROVE  IInv'
<1>1. /\ IsFiniteSet(made') /\ made \subseteq made' /\ made' \subseteq Env
      /\ alive = alive \cup (made' \ made) /\ done' \in BOOLEAN
      /\ chain \in [Env -> Seq(Env)] /\ born' \in [Env -> Nat]
  BY DEF IInv, Shape
<1>2. Suspected'
  BY <1>1, SuspectsUnchanged
<1>3. Range(suspects') = Range(suspects)
  OBVIOUS
<1> QED
  BY <1>1, <1>2, <1>3, StepKeepsInvariant

(* What the functions in bindings and in flight are known to keep. *)
LEMMA FunctionFacts ==
    ASSUME IInv, ~done
    PROVE  /\ holds \in [Env -> SUBSET Function]
           /\ frames \in Seq(alive) /\ frames # <<>>
           /\ \A e \in Env : \A f \in holds[e] :
                 Keeps(f, alive) /\ f.calls \subseteq Range(suspects)
           /\ \A f \in hand : Keeps(f, alive) /\ f.calls \subseteq Range(suspects)
BY DEF IInv, Shape, Registered

(* A child scope: parent is alive, args are functions in flight. *)
LEMMA ChildStep ==
    ASSUME IInv, ~done, NEW e \in Env \ made, NEW scope \in alive,
           NEW args \in SUBSET hand, NEW bound,
           bound = holds \/ bound = [holds EXCEPT ![e] = args],
           Create(e), UNCHANGED <<suspects, sweepAt, done, risky>>,
           Settle([chain EXCEPT ![e] = <<scope>> \o chain[scope]], bound, Append(frames, e), hand)
    PROVE  IInv'
<1> DEFINE pool == alive \cup {e}
           up == [chain EXCEPT ![e] = <<scope>> \o chain[scope]]
           stack == Append(frames, e)
<1>1. /\ made \subseteq Env /\ IsFiniteSet(made) /\ alive \subseteq made
      /\ chain \in [Env -> Seq(Env)] /\ done \in BOOLEAN /\ risky \in BOOLEAN
  BY DEF IInv, Shape
<1>0. made' = made \cup {e} /\ born' \in [Env -> Nat]
  <2>1. Cardinality(made) \in Nat
    BY <1>1, FS_CardinalityType
  <2> QED
    BY <2>1 DEF Create, IInv, Shape
<1>2. made' \subseteq Env /\ made \subseteq made' /\ IsFiniteSet(made')
  BY <1>0, <1>1, FS_AddElement
<1>3. pool = alive \cup (made' \ made)
  BY <1>0, <1>1
<1>4. up \in [Env -> Seq(Env)]
  <2>1. scope \in Env /\ chain[scope] \in Seq(Env)
    BY <1>1
  <2>2. <<scope>> \o chain[scope] \in Seq(Env)
    BY <2>1
  <2> QED
    BY <1>1, <2>2
<1>5. bound \in [Env -> SUBSET Function]
  <2>1. args \in SUBSET Function
    BY DEF IInv, Shape, Keeps
  <2> QED
    BY <2>1, FunctionFacts
<1>6. stack \in Seq(pool) /\ stack # <<>>
  <2>1. frames \in Seq(pool)
    BY FunctionFacts
  <2> QED
    BY <2>1
<1>7. \A d \in Env : \A f \in bound[d] : f \in hand \/ f \in holds[d]
  BY FunctionFacts
<1>8. /\ \A d \in Env : \A f \in bound[d] : Keeps(f, pool) /\ f.calls \subseteq Range(suspects)
      /\ \A f \in hand : Keeps(f, pool) /\ f.calls \subseteq Range(suspects)
  BY <1>7, FunctionFacts DEF Keeps
<1>9. Suspected'
  BY <1>2, SuspectsUnchanged
<1>10. Range(suspects') = Range(suspects) /\ done' = done /\ risky' = risky
  OBVIOUS
<1> HIDE DEF pool, up, stack
<1>11. Settle(up, bound, stack, hand)
  BY DEF up, stack
<1> QED
  BY <1>0, <1>1, <1>2, <1>3, <1>4, <1>5, <1>6, <1>8, <1>9, <1>10, <1>11, StepKeepsInvariant

LEMMA EnterBlockStep ==
    ASSUME IInv, NEW e \in Env, EnterBlock(e)
    PROVE  IInv'
<1>1. /\ ~done /\ e \in Env \ made /\ Create(e)
      /\ Settle([chain EXCEPT ![e] = <<Top>> \o chain[Top]], holds, Append(frames, e), hand)
      /\ UNCHANGED <<suspects, sweepAt, done, risky>>
  BY DEF EnterBlock
<1>2. Top \in alive /\ {} \in SUBSET hand
  BY <1>1, ScopeFacts
<1> QED
  BY <1>1, <1>2, ChildStep

LEMMA CallStep ==
    ASSUME IInv, NEW e \in Env, NEW f, NEW args, Call(e, f, args)
    PROVE  IInv'
<1>1. /\ ~done /\ e \in Env \ made /\ Create(e)
      /\ f \in hand \cup Visible /\ args \in SUBSET hand
      /\ UNCHANGED <<suspects, sweepAt, done, risky>>
  BY DEF Call
<1>2. PICK scope \in f.calls :
        Settle([chain EXCEPT ![e] = <<scope>> \o chain[scope]], [holds EXCEPT ![e] = args],
               Append(frames, e), hand)
  BY DEF Call
<1>3. scope \in alive
  BY <1>1, ScopeFacts DEF Keeps
<1> QED
  BY <1>1, <1>2, <1>3, ChildStep

LEMMA TransformStep ==
    ASSUME IInv, NEW f, Transform(f)
    PROVE  IInv'
<1>1. /\ ~done /\ f \in hand \cup Visible
      /\ UNCHANGED <<made, born, suspects, sweepAt, done, risky>>
  BY DEF Transform
<1>2. PICK scope \in f.runs : Settle(chain, holds, Append(frames, scope), hand)
  BY DEF Transform
<1>3. scope \in alive
  BY <1>1, ScopeFacts DEF Keeps
<1>4. Append(frames, scope) \in Seq(alive) /\ Append(frames, scope) # <<>>
  BY <1>1, <1>3, FunctionFacts
<1>5. risky' \in BOOLEAN
  BY <1>1 DEF IInv, Shape
<1> QED
  BY <1>1, <1>2, <1>4, <1>5, FunctionFacts, QuietStep

LEMMA LeaveStep ==
    ASSUME IInv, Leave
    PROVE  IInv'
<1>1. /\ ~done /\ Len(frames) > 1
      /\ UNCHANGED <<made, born, suspects, sweepAt, done, risky>>
      /\ Settle(chain, holds, Front(frames), hand)
  BY DEF Leave
<1>2. Front(frames) \in Seq(alive) /\ Front(frames) # <<>>
  <2>1. frames \in Seq(alive) /\ Len(frames) \in Nat /\ Len(frames) > 1
    BY <1>1, FunctionFacts
  <2>2. Front(frames) \in Seq(alive) /\ Len(Front(frames)) = Len(frames) - 1
    BY <2>1 DEF Front
  <2>3. Len(Front(frames)) # 0
    BY <2>1, <2>2
  <2> QED
    BY <2>2, <2>3
<1>3. risky' \in BOOLEAN
  BY <1>1 DEF IInv, Shape
<1> QED
  BY <1>1, <1>2, <1>3, FunctionFacts, QuietStep

(* Steps that only change the functions in flight. *)
LEMMA FlightStep ==
    ASSUME IInv, ~done, UNCHANGED <<made, born, suspects, sweepAt, done, risky>>,
           NEW flight, Settle(chain, holds, frames, flight),
           \A f \in flight : Keeps(f, alive) /\ f.calls \subseteq Range(suspects)
    PROVE  IInv'
<1>1. risky' \in BOOLEAN
  BY DEF IInv, Shape
<1> QED
  BY <1>1, FunctionFacts, QuietStep

(* What a lambda keeps exists, and only its own scope may be missing from   *)
(* the list: the functions in its focus are registered already.             *)
LEMMA LambdaFacts ==
    ASSUME IInv, ~done, NEW focus \in SUBSET hand, NEW found \in {{}, focus}
    PROVE  /\ Keeps(Lambda(Top, focus, found), alive)
           /\ Lambda(Top, focus, found).calls \subseteq {Top} \cup (Range(suspects) \cap alive)
<1> DEFINE c == Lambda(Top, focus, found)
<1>1. /\ Top \in alive /\ alive \subseteq Env /\ found \subseteq focus
      /\ \A f \in focus : Keeps(f, alive) /\ f.calls \subseteq Range(suspects)
  BY ScopeFacts, FunctionFacts DEF IInv, Shape
<1>2. /\ c.calls = {Top} \cup UNION {f.calls : f \in found}
      /\ c.runs = UNION {f.runs : f \in found}
      /\ c.keeps = {Top} \cup UNION {f.keeps : f \in focus}
  BY DEF Lambda
<1>3. c.calls \subseteq c.keeps /\ c.runs \subseteq c.keeps /\ c.keeps \subseteq alive
  BY <1>1, <1>2 DEF Keeps
<1>4. c \in Function
  BY <1>1, <1>2, <1>3 DEF Lambda, Function
<1>5. c.calls \subseteq {Top} \cup (Range(suspects) \cap alive)
  BY <1>1, <1>2, <1>3
<1> QED
  BY <1>3, <1>4, <1>5 DEF Keeps

LEMMA MakeLambdaStep ==
    ASSUME IInv, NEW focus \in SUBSET hand, NEW found \in SUBSET hand, NEW left \in SUBSET hand,
           MakeLambda(focus, found, left)
    PROVE  IInv'
<1> DEFINE c == Lambda(Top, focus, found)
           flight == left \cup {c}
<1>1. /\ ~done /\ NoteClosureEnv(Top) /\ UNCHANGED <<made, born, done, risky>>
      /\ Settle(chain, holds, frames, flight) /\ found \in {{}, focus}
  BY DEF MakeLambda
<1>2. /\ Top \in alive /\ Keeps(c, alive)
      /\ c.calls \subseteq {Top} \cup (Range(suspects) \cap alive)
  BY <1>1, ScopeFacts, LambdaFacts
<1> HIDE DEF c
<1>3. /\ Suspected' /\ Top \in Range(suspects')
      /\ Range(suspects) \cap alive \subseteq Range(suspects')
  BY <1>1, <1>2, NoteRegisters DEF IInv
<1>4. /\ \A e \in Env : \A f \in holds[e] : f.calls \subseteq Range(suspects')
      /\ \A f \in hand : f.calls \subseteq Range(suspects')
  BY <1>1, <1>3, FunctionFacts DEF Keeps
<1>5. c.calls \subseteq Range(suspects')
  BY <1>2, <1>3
<1>6. /\ \A f \in flight : Keeps(f, alive)
      /\ \A f \in flight : f.calls \subseteq Range(suspects')
  BY <1>1, <1>2, <1>3, <1>4, <1>5, FunctionFacts
<1>7. /\ IsFiniteSet(made') /\ made \subseteq made' /\ made' \subseteq Env
      /\ alive = alive \cup (made' \ made) /\ done' \in BOOLEAN /\ risky' \in BOOLEAN
      /\ chain \in [Env -> Seq(Env)] /\ born' \in [Env -> Nat]
  BY <1>1 DEF IInv, Shape
<1>8. /\ holds \in [Env -> SUBSET Function] /\ frames \in Seq(alive) /\ frames # <<>>
      /\ \A e \in Env : \A f \in holds[e] : Keeps(f, alive)
  BY <1>1, FunctionFacts
<1> HIDE DEF flight
<1> QED
  BY <1>1, <1>3, <1>4, <1>6, <1>7, <1>8, StepKeepsInvariant

LEMMA MakeTransformStep ==
    ASSUME IInv, MakeTransform
    PROVE  IInv'
<1>1. /\ ~done /\ UNCHANGED <<made, born, suspects, sweepAt, done, risky>>
      /\ Settle(chain, holds, frames, hand \cup {Transformer(Top)})
  BY DEF MakeTransform
<1>2. Keeps(Transformer(Top), alive) /\ Transformer(Top).calls = {}
  BY <1>1, ScopeFacts DEF Transformer
<1>3. \A f \in hand \cup {Transformer(Top)} : Keeps(f, alive) /\ f.calls \subseteq Range(suspects)
  BY <1>1, <1>2, FunctionFacts
<1> QED
  BY <1>1, <1>3, FlightStep

LEMMA CombineStep ==
    ASSUME IInv, NEW parts \in SUBSET hand, Combine(parts)
    PROVE  IInv'
<1> DEFINE c == Combined(Top, parts)
<1>1. /\ ~done /\ UNCHANGED <<made, born, suspects, sweepAt, done, risky>>
      /\ Settle(chain, holds, frames, (hand \ parts) \cup {c})
  BY DEF Combine
<1>2. /\ Top \in alive /\ alive \subseteq Env
      /\ \A f \in parts : Keeps(f, alive) /\ f.calls \subseteq Range(suspects)
  BY <1>1, ScopeFacts, FunctionFacts DEF IInv, Shape
<1>3. /\ c.calls = UNION {f.calls : f \in parts}
      /\ c.runs = UNION {f.runs : f \in parts}
      /\ c.keeps = {Top} \cup UNION {f.keeps : f \in parts}
  BY DEF Combined
<1>4. c.calls \subseteq c.keeps /\ c.runs \subseteq c.keeps /\ c.keeps \subseteq alive
  BY <1>2, <1>3 DEF Keeps
<1>5. c \in Function
  BY <1>2, <1>3, <1>4 DEF Combined, Function
<1>6. Keeps(c, alive) /\ c.calls \subseteq Range(suspects)
  BY <1>2, <1>3, <1>4, <1>5 DEF Keeps
<1>7. \A f \in (hand \ parts) \cup {c} : Keeps(f, alive) /\ f.calls \subseteq Range(suspects)
  BY <1>1, <1>6, FunctionFacts
<1> HIDE DEF c
<1> QED
  BY <1>1, <1>7, FlightStep

LEMMA BindStep ==
    ASSUME IInv, NEW f \in hand, NEW old, Bind(f, old)
    PROVE  IInv'
<1> DEFINE bound == [holds EXCEPT ![Top] = (@ \ old) \cup {f}]
<1>1. /\ ~done /\ UNCHANGED <<made, born, suspects, sweepAt, done>>
      /\ Settle(chain, bound, frames, hand)
  BY DEF Bind
<1>2. risky' \in BOOLEAN
  BY DEF Bind
<1>3. Top \in Env
  BY <1>1, ScopeFacts
<1>4. f \in Function
  BY <1>1, FunctionFacts DEF Keeps
<1>5. bound \in [Env -> SUBSET Function]
  BY <1>1, <1>3, <1>4, FunctionFacts
<1>6. \A e \in Env : \A g \in bound[e] : g = f \/ g \in holds[e]
  BY <1>1, <1>3, FunctionFacts
<1>7. \A e \in Env : \A g \in bound[e] : Keeps(g, alive) /\ g.calls \subseteq Range(suspects)
  BY <1>1, <1>6, FunctionFacts
<1> HIDE DEF bound
<1> QED
  BY <1>1, <1>2, <1>5, <1>7, FunctionFacts, QuietStep

LEMMA FinishStep ==
    ASSUME IInv, Finish
    PROVE  IInv'
<1> DEFINE bound == [e \in Env |-> IF e \in Range(suspects) \cap alive THEN {} ELSE holds[e]]
<1>1. /\ ~done /\ done' = TRUE /\ made' = made /\ born' = born /\ risky' = risky
      /\ suspects' = <<>> /\ sweepAt' = SweepMin
      /\ Settle(chain, bound, <<>>, hand)
  BY DEF Finish
<1>2. bound \in [Env -> SUBSET Function] /\ \A e \in Env : bound[e] \subseteq holds[e]
  BY <1>1, FunctionFacts
<1>3. /\ \A e \in Env : \A f \in bound[e] : Keeps(f, alive)
      /\ \A f \in hand : Keeps(f, alive)
  BY <1>1, <1>2, FunctionFacts
<1>4. Suspected'
  <2>1. Range(<<>>) = {} /\ Len(<<>>) = 0 /\ <<>> \in Seq(Env)
    BY DEF Range
  <2> QED
    BY <1>1, <2>1, SweepMinAssumption DEF Suspected
<1>5. /\ IsFiniteSet(made') /\ made \subseteq made' /\ made' \subseteq Env
      /\ alive = alive \cup (made' \ made) /\ done' \in BOOLEAN /\ risky' \in BOOLEAN
      /\ chain \in [Env -> Seq(Env)] /\ <<>> \in Seq(alive) /\ born' \in [Env -> Nat]
  BY <1>1 DEF IInv, Shape
<1> HIDE DEF bound
<1> QED
  BY <1>1, <1>2, <1>3, <1>4, <1>5, StepKeepsInvariant

LEMMA InitSound == Init => IInv
<1> SUFFICES ASSUME Init PROVE IInv
  OBVIOUS
<1>1. IsFiniteSet({Scope}) /\ Scope \in Env
  BY FS_Singleton, ScopeAssumption
<1>2. <<Scope>> \in Seq({Scope}) /\ <<Scope>> # <<>>
  OBVIOUS
<1>3. Range(<<>>) = {} /\ Len(<<>>) = 0 /\ <<>> \in Seq(Env)
  BY DEF Range
<1>4. Shape
  BY <1>1, <1>2, <1>3 DEF Init, Shape
<1>5. Suspected
  BY <1>1, <1>3, SweepMinAssumption DEF Init, Suspected
<1>6. Registered
  BY DEF Init, Registered
<1> QED
  BY <1>4, <1>5, <1>6 DEF IInv

LEMMA StepSound == IInv /\ [Next]_vars => IInv'
<1> SUFFICES ASSUME IInv, [Next]_vars PROVE IInv'
  OBVIOUS
<1>1. ASSUME NEW e \in Env, EnterBlock(e) PROVE IInv'
  BY <1>1, EnterBlockStep
<1>2. ASSUME NEW e \in Env, NEW f, NEW args, Call(e, f, args) PROVE IInv'
  BY <1>2, CallStep
<1>3. ASSUME NEW f, Transform(f) PROVE IInv'
  BY <1>3, TransformStep
<1>4. ASSUME Leave PROVE IInv'
  BY <1>4, LeaveStep
<1>5. ASSUME NEW f \in hand, Discard(f) PROVE IInv'
  <2>1. /\ ~done /\ UNCHANGED <<made, born, suspects, sweepAt, done, risky>>
        /\ Settle(chain, holds, frames, hand \ {f})
    BY <1>5 DEF Discard
  <2>2. \A g \in hand \ {f} : Keeps(g, alive) /\ g.calls \subseteq Range(suspects)
    BY <2>1, FunctionFacts
  <2> QED
    BY <2>1, <2>2, FlightStep
<1>6. ASSUME NEW focus \in SUBSET hand, NEW found \in SUBSET hand, NEW left \in SUBSET hand,
             MakeLambda(focus, found, left)
      PROVE  IInv'
  BY <1>6, MakeLambdaStep
<1>7. ASSUME MakeTransform PROVE IInv'
  BY <1>7, MakeTransformStep
<1>8. ASSUME NEW parts \in SUBSET hand, Combine(parts) PROVE IInv'
  BY <1>8, CombineStep
<1>9. ASSUME NEW f \in hand, NEW old, Bind(f, old) PROVE IInv'
  BY <1>9, BindStep
<1>10. ASSUME NEW f \in Visible, Lookup(f) PROVE IInv'
  <2>1. /\ ~done /\ UNCHANGED <<made, born, suspects, sweepAt, done, risky>>
        /\ Settle(chain, holds, frames, hand \cup {f})
    BY <1>10 DEF Lookup
  <2>2. \A g \in hand \cup {f} : Keeps(g, alive) /\ g.calls \subseteq Range(suspects)
    BY <2>1, ScopeFacts
  <2> QED
    BY <2>1, <2>2, FlightStep
<1>11. ASSUME Finish PROVE IInv'
  BY <1>11, FinishStep
<1>12. ASSUME UNCHANGED vars PROVE IInv'
  BY <1>12 DEF vars, IInv, Shape, Suspected, Registered
<1> QED
  BY <1>1, <1>2, <1>3, <1>4, <1>5, <1>6, <1>7, <1>8, <1>9, <1>10, <1>11, <1>12 DEF Next

LEMMA Invariant == Spec => []IInv
<1>1. Init => IInv
  BY InitSound
<1>2. IInv /\ [Next]_vars => IInv'
  BY StepSound
<1> QED
  BY <1>1, <1>2, PTL DEF Spec

-----------------------------------------------------------------------------
(* Every variable of the ownership model keeps its type. *)
THEOREM TypeCorrect == Spec => []TypeOK
<1>1. IInv => TypeOK
  <2> SUFFICES ASSUME IInv PROVE TypeOK
    OBVIOUS
  <2>1. hand \subseteq Function
    BY DEF IInv, Shape, Keeps
  <2> QED
    BY <2>1 DEF IInv, Shape, Suspected, TypeOK
<1> QED
  BY <1>1, Invariant, PTL

(* Through all the sweeps, the scope of every lambda that can still run is  *)
(* in the list teardown_cycles drains.                                      *)
THEOREM RegisteredUntilTeardown == Spec => []LambdasRegistered
<1>1. IInv => LambdasRegistered
  <2> SUFFICES ASSUME IInv, ~done, NEW f \in Functions PROVE f.calls \subseteq Range(suspects)
    BY DEF LambdasRegistered
  <2>1. f \in hand \/ \E e \in Env : f \in holds[e]
    <3>1. alive \subseteq Env
      BY DEF IInv, Shape
    <3>2. f \in UNION {holds[e] : e \in alive} \/ f \in hand
      BY DEF Functions
    <3>3. ASSUME f \in UNION {holds[e] : e \in alive} PROVE \E e \in alive : f \in holds[e]
      BY <3>3
    <3> QED
      BY <3>1, <3>2, <3>3
  <2> QED
    BY <2>1, FunctionFacts
<1> QED
  BY <1>1, Invariant, PTL

(* The suspects are fewer than the threshold, and the threshold is no more  *)
(* than twice the environments.                                             *)
THEOREM ListBounded == Spec => []SuspectsBounded
<1>1. IInv => SuspectsBounded
  <2> SUFFICES ASSUME IInv PROVE SuspectsBounded
    OBVIOUS
  <2>1. Cardinality(made) \in Nat
    BY FS_CardinalityType DEF IInv, Shape
  <2>2. /\ Max({SweepMin, 2 * Cardinality(made)}) \in Nat
        /\ SweepMin <= Max({SweepMin, 2 * Cardinality(made)})
        /\ 2 * Cardinality(made) <= Max({SweepMin, 2 * Cardinality(made)})
    BY <2>1, MaxOfTwo, SweepMinAssumption
  <2> QED
    BY <2>1, <2>2, SweepMinAssumption DEF IInv, Suspected, SuspectsBounded
<1> QED
  BY <1>1, Invariant, PTL

-----------------------------------------------------------------------------
(* What teardown_cycles frees. *)

(* Environments have different ages, and a parent is older than its child. *)
Aged == /\ \A e \in made : born[e] < Cardinality(made)
        /\ \A d, e \in made : born[d] = born[e] => d = e
        /\ \A e \in Env : chain[e] # <<>> =>
              /\ e \in made /\ chain[e][1] \in made
              /\ born[chain[e][1]] < born[e]

(* No binding leads to a younger environment, and one that leads to its own *)
(* environment is of a function that calls it.                             *)
Outgrown == \A d \in Env : \A f \in holds[d] : \A e \in f.keeps :
                born[e] <= born[d] /\ (e = d => e \in f.calls)

(* The inductive invariant. *)
TInv == /\ IInv
        /\ Aged
        /\ ~risky => Outgrown
        /\ done => DisciplinedNeverLeaks

-----------------------------------------------------------------------------
(* A freed environment holds nothing, and one that is kept what it held.   *)
LEMMA SettleShrinks ==
    ASSUME NEW up, NEW bound, NEW stack, NEW flight, Settle(up, bound, stack, flight)
    PROVE  /\ chain' = up /\ frames' = stack /\ hand' = flight
           /\ \A e \in Env : \A f \in holds'[e] : f \in bound[e]
           /\ \A e \in Env : e \in alive' => holds'[e] = bound[e]
BY DEF Settle

(* Steps that create no environment and bind nothing but what is listed.   *)
LEMMA QuietKeeps ==
    ASSUME TInv, ~done, UNCHANGED <<made, born, done>>,
           NEW bound, NEW stack, NEW flight, Settle(chain, bound, stack, flight),
           ~risky' => /\ ~risky
                      /\ \A d \in Env : \A f \in bound[d] : \A e \in f.keeps :
                            born[e] <= born[d] /\ (e = d => e \in f.calls)
    PROVE  Aged' /\ (~risky' => Outgrown') /\ (done' => DisciplinedNeverLeaks')
<1>1. chain' = chain /\ \A e \in Env : \A f \in holds'[e] : f \in bound[e]
  BY SettleShrinks
<1>2. Aged'
  BY <1>1 DEF TInv, Aged
<1> QED
  BY <1>1, <1>2 DEF Outgrown

(* A new environment is younger than its parent and than what its          *)
(* arguments keep.                                                         *)
LEMMA ChildKeeps ==
    ASSUME TInv, ~done, NEW e \in Env \ made, Create(e), NEW scope \in alive,
           NEW args \in SUBSET hand, NEW bound,
           bound = holds \/ bound = [holds EXCEPT ![e] = args],
           UNCHANGED <<done, risky>>, NEW stack, NEW flight,
           Settle([chain EXCEPT ![e] = <<scope>> \o chain[scope]], bound, stack, flight)
    PROVE  Aged' /\ (~risky' => Outgrown') /\ (done' => DisciplinedNeverLeaks')
<1> DEFINE c == Cardinality(made)
<1>1. /\ made \subseteq Env /\ IsFiniteSet(made) /\ alive \subseteq made
      /\ chain \in [Env -> Seq(Env)] /\ born \in [Env -> Nat]
      /\ holds \in [Env -> SUBSET Function]
  BY DEF TInv, IInv, Shape
<1>2. made' = made \cup {e} /\ born' = [born EXCEPT ![e] = c]
  BY DEF Create
<1>3. c \in Nat /\ Cardinality(made') = c + 1
  BY <1>1, <1>2, FS_CardinalityType, FS_AddElement
<1>4. /\ \A d \in made : born'[d] = born[d] /\ born[d] \in Nat /\ born[d] < c
      /\ born'[e] = c /\ e \in Env /\ e \notin made /\ scope \in made
      /\ \A d \in Env : born'[d] \in Nat /\ (d # e => born'[d] = born[d])
  BY <1>1, <1>2, <1>3 DEF TInv, Aged
<1> HIDE DEF c
<1>5. chain' = [chain EXCEPT ![e] = <<scope>> \o chain[scope]]
  BY SettleShrinks
<1>6. /\ \A d \in Env : d # e => chain'[d] = chain[d]
      /\ chain'[e] # <<>> /\ chain'[e][1] = scope
  <2>1. chain[scope] \in Seq(Env) /\ chain'[e] = <<scope>> \o chain[scope]
    BY <1>1, <1>4, <1>5
  <2>2. (<<scope>> \o chain[scope])[1] = scope /\ Len(<<scope>> \o chain[scope]) > 0
    BY <2>1
  <2> QED
    BY <1>1, <1>5, <2>1, <2>2
<1>7. Aged'
  <2>1. \A d \in made' : born'[d] < Cardinality(made')
    BY <1>2, <1>3, <1>4
  <2>2. \A d, x \in made' : born'[d] = born'[x] => d = x
    BY <1>2, <1>3, <1>4 DEF TInv, Aged
  <2>3. \A d \in Env : chain'[d] # <<>> =>
           /\ d \in made' /\ chain'[d][1] \in made'
           /\ born'[chain'[d][1]] < born'[d]
    <3> TAKE d \in Env
    <3>1. CASE d = e
      BY <1>2, <1>4, <1>6, <3>1
    <3>2. CASE d # e
      BY <1>2, <1>4, <1>6, <3>2 DEF TInv, Aged
    <3> QED
      BY <3>1, <3>2
  <2> QED
    BY <2>1, <2>2, <2>3 DEF Aged
<1>8. ASSUME ~risky' PROVE Outgrown'
  <2> SUFFICES ASSUME NEW d \in Env, NEW f \in holds'[d], NEW x \in f.keeps
               PROVE  born'[x] <= born'[d] /\ (x = d => x \in f.calls)
    BY DEF Outgrown
  <2>1. f \in bound[d]
    BY SettleShrinks
  <2>2. f \in holds[d] \/ (d = e /\ f \in hand)
    BY <1>1, <2>1
  <2>3. x \in made
    BY <1>1, <2>2 DEF TInv, IInv, Shape, Keeps
  <2>4. CASE d = e
    BY <1>3, <1>4, <2>3, <2>4
  <2>5. CASE d # e
    BY <1>4, <1>8, <2>2, <2>3, <2>5 DEF TInv, Outgrown
  <2> QED
    BY <2>4, <2>5
<1> QED
  BY <1>7, <1>8

(* Of a set of environments, the youngest. *)
LEMMA Youngest ==
    ASSUME TInv, NEW X \in SUBSET made, X # {}
    PROVE  \E e \in X : \A d \in X : born[d] <= born[e]
<1> DEFINE age(e) == Cardinality(made) - born[e]
           ages == {age(e) : e \in X}
<1>1. Cardinality(made) \in Nat /\ \A e \in X : born[e] \in Nat /\ age(e) \in Nat
  BY FS_CardinalityType DEF TInv, IInv, Shape, Aged
<1>2. ages \subseteq Nat /\ ages # {}
  BY <1>1
<1>3. PICK a \in ages : \A b \in ages : ~(b < a)
  <2> HIDE DEF ages
  <2>1. IsWellFoundedOn(OpToRel(<, Nat), Nat)
    BY NatLessThanWellFounded
  <2>2. PICK a \in ages : \A b \in ages : <<b, a>> \notin OpToRel(<, Nat)
    BY <1>2, <2>1, WFMin
  <2> QED
    BY <1>2, <2>2 DEF OpToRel
<1>4. PICK e \in X : a = age(e)
  BY <1>3
<1>5. \A d \in X : ~(age(d) < age(e))
  BY <1>3, <1>4
<1>6. \A d \in X : born[d] <= born[e]
  BY <1>1, <1>5
<1> QED
  BY <1>6

-----------------------------------------------------------------------------
(* teardown_cycles: of the environments it leaves that the result does not *)
(* need, take the youngest.  Another one left refers to it, which is no     *)
(* older: not its child, so by a binding, of a function that keeps it, in   *)
(* itself.  That function calls it, so it was a suspect and holds nothing. *)
LEMMA FinishFrees ==
    ASSUME TInv, Finish, ~risky
    PROVE  NoLeak'
<1> DEFINE swept == Range(suspects) \cap alive
           bound == [e \in Env |-> IF e \in swept THEN {} ELSE holds[e]]
<1>1. /\ ~done /\ made' = made /\ Settle(chain, bound, <<>>, hand)
  BY DEF Finish
<1>2. /\ made \subseteq Env /\ alive \subseteq made /\ alive \cup (made' \ made) = alive
      /\ \A e \in Env : \A f \in holds[e] : Keeps(f, alive) /\ f.calls \subseteq Range(suspects)
  BY <1>1, FunctionFacts DEF TInv, IInv, Shape
<1>3. /\ chain' = chain /\ hand' = hand
      /\ \A e \in Env : e \in alive' => holds'[e] = bound[e]
  BY <1>1, SettleShrinks
<1>4. ASSUME NEW e \in alive',
             e \notin UNION {f.keeps : f \in hand}
      PROVE  \E d \in alive' : e \in Refs(d, chain, bound)
  <2> DEFINE Kept(S) == \A x \in S : \/ x \in Range(<<>>) \cup UNION {f.keeps : f \in hand}
                                     \/ \E d \in S : x \in Refs(d, chain, bound)
  <2>1. alive' = UNION {S \in SUBSET alive : Kept(S)}
    BY <1>1, <1>2 DEF Settle, Surviving
  <2>2. PICK S \in SUBSET alive : e \in S /\ Kept(S)
    BY <2>1
  <2>3. S \subseteq alive'
    BY <2>1, <2>2
  <2>4. Range(<<>>) = {}
    BY DEF Range
  <2> QED
    BY <1>4, <2>2, <2>3, <2>4
<1>5. alive' \subseteq alive
  BY <1>1, <1>2 DEF Settle, Surviving
<1>6. ASSUME NEW S \in SUBSET Env,
             UNION {f.keeps : f \in hand} \subseteq S,
             \A d \in S : Refs(d, chain, holds') \subseteq S
      PROVE  alive' \subseteq S
  <2> DEFINE X == alive' \ S
  <2> SUFFICES ASSUME X # {} PROVE FALSE
    OBVIOUS
  <2>1. PICK e \in X : \A d \in X : born[d] <= born[e]
    BY <1>2, <1>5, Youngest
  <2>2. PICK d \in alive' : e \in Refs(d, chain, bound)
    BY <1>4, <1>6, <2>1
  <2>3. d \in Env /\ d \in alive /\ d \in made /\ e \in made /\ e \in alive
    BY <1>2, <1>5, <2>1
  <2>4. Refs(d, chain, holds') = Refs(d, chain, bound)
    BY <1>3, <2>3 DEF Refs
  <2>5. d \in X
    BY <1>6, <2>1, <2>2, <2>4
  <2>6. born[d] <= born[e] /\ born[d] \in Nat /\ born[e] \in Nat
    BY <1>2, <2>1, <2>3, <2>5 DEF TInv, IInv, Shape
  <2>7. e # chain[d][1] \/ chain[d] = <<>>
    BY <2>3, <2>6 DEF TInv, Aged
  <2>8. PICK f \in bound[d] : e \in f.keeps
    <3>1. DOMAIN <<>> = {}
      OBVIOUS
    <3> QED
      BY <2>2, <2>7, <3>1 DEF Refs
  <2>9. d \notin swept /\ f \in holds[d]
    BY <2>3, <2>8
  <2>10. born[e] <= born[d] /\ (e = d => e \in f.calls)
    BY <2>3, <2>8, <2>9 DEF TInv, Outgrown
  <2>11. e = d
    BY <2>3, <2>6, <2>10 DEF TInv, Aged
  <2>12. e \in Range(suspects)
    BY <1>2, <2>3, <2>9, <2>10, <2>11
  <2> QED
    BY <2>3, <2>9, <2>11, <2>12
<1> HIDE DEF bound
<1>7. alive' \subseteq Reachable'
  <2> SUFFICES ASSUME NEW e \in alive', NEW S \in SUBSET Env,
                      UNION {f.keeps : f \in hand'} \subseteq S,
                      \A d \in S : Refs(d, chain', holds') \subseteq S
               PROVE  e \in S
    BY <1>2, <1>5 DEF Reachable
  <2> QED
    BY <1>3, <1>6
<1> QED
  BY <1>7 DEF NoLeak

LEMMA FinishKeeps ==
    ASSUME TInv, Finish
    PROVE  Aged' /\ (~risky' => Outgrown') /\ (done' => DisciplinedNeverLeaks')
<1> DEFINE bound == [e \in Env |-> IF e \in Range(suspects) \cap alive THEN {} ELSE holds[e]]
<1>1. /\ ~done /\ UNCHANGED <<made, born, risky>> /\ Settle(chain, bound, <<>>, hand)
  BY DEF Finish
<1>2. chain' = chain /\ \A e \in Env : \A f \in holds'[e] : f \in holds[e]
  <2>1. \A e \in Env : \A f \in bound[e] : f \in holds[e]
    OBVIOUS
  <2> HIDE DEF bound
  <2> QED
    BY <1>1, <2>1, SettleShrinks
<1>3. Aged'
  BY <1>1, <1>2 DEF TInv, Aged
<1>4. ~risky' => Outgrown'
  BY <1>1, <1>2 DEF TInv, Outgrown
<1>5. DisciplinedNeverLeaks'
  BY <1>1, FinishFrees DEF DisciplinedNeverLeaks
<1> QED
  BY <1>3, <1>4, <1>5

(* A function bound in discipline keeps no younger environment. *)
LEMMA BindKeeps ==
    ASSUME TInv, NEW f, NEW old, Bind(f, old)
    PROVE  Aged' /\ (~risky' => Outgrown') /\ (done' => DisciplinedNeverLeaks')
<1> DEFINE bound == [holds EXCEPT ![Top] = (@ \ old) \cup {f}]
<1>1. /\ ~done /\ UNCHANGED <<made, born, done>> /\ Settle(chain, bound, frames, hand)
      /\ risky' = (risky \/ ~Disciplined(f))
  BY DEF Bind
<1>2. holds \in [Env -> SUBSET Function] /\ risky \in BOOLEAN /\ risky' \in BOOLEAN
  BY <1>1 DEF TInv, IInv, Shape
<1>3. ~risky' => ~risky /\ Disciplined(f)
  BY <1>1, <1>2
<1>4. \A d \in Env : \A g \in bound[d] : g \in holds[d] \/ (d = Top /\ g = f)
  BY <1>2
<1>5. ~risky' => \A d \in Env : \A g \in bound[d] : \A e \in g.keeps :
                    born[e] <= born[d] /\ (e = d => e \in g.calls)
  BY <1>3, <1>4 DEF TInv, Outgrown, Disciplined
<1> HIDE DEF bound
<1> QED
  BY <1>1, <1>3, <1>5, QuietKeeps

(* The other steps bind nothing. *)
LEMMA PassingKeeps ==
    ASSUME TInv, ~done, UNCHANGED <<made, born, done, risky>>,
           NEW stack, NEW flight, Settle(chain, holds, stack, flight)
    PROVE  Aged' /\ (~risky' => Outgrown') /\ (done' => DisciplinedNeverLeaks')
<1>1. ~risky' => ~risky /\ \A d \in Env : \A f \in holds[d] : \A e \in f.keeps :
                              born[e] <= born[d] /\ (e = d => e \in f.calls)
  BY DEF TInv, Outgrown
<1> QED
  BY <1>1, QuietKeeps

LEMMA StepKeeps == TInv /\ [Next]_vars => TInv'
<1> SUFFICES ASSUME TInv, [Next]_vars PROVE TInv'
  OBVIOUS
<1>0. IInv'
  BY StepSound DEF TInv
<1> DEFINE Goal == Aged' /\ (~risky' => Outgrown') /\ (done' => DisciplinedNeverLeaks')
<1>1. ASSUME NEW e \in Env, EnterBlock(e) PROVE Goal
  <2>1. /\ ~done /\ e \in Env \ made /\ Create(e) /\ UNCHANGED <<done, risky>>
        /\ Settle([chain EXCEPT ![e] = <<Top>> \o chain[Top]], holds, Append(frames, e), hand)
    BY <1>1 DEF EnterBlock
  <2>2. Top \in alive /\ {} \in SUBSET hand
    BY <2>1, ScopeFacts DEF TInv
  <2> QED
    BY <2>1, <2>2, ChildKeeps
<1>2. ASSUME NEW e \in Env, NEW f, NEW args, Call(e, f, args) PROVE Goal
  <2>1. /\ ~done /\ e \in Env \ made /\ Create(e) /\ UNCHANGED <<done, risky>>
        /\ f \in hand \cup Visible /\ args \in SUBSET hand
    BY <1>2 DEF Call
  <2>2. PICK scope \in f.calls :
          Settle([chain EXCEPT ![e] = <<scope>> \o chain[scope]], [holds EXCEPT ![e] = args],
                 Append(frames, e), hand)
    BY <1>2 DEF Call
  <2>3. scope \in alive
    BY <2>1, ScopeFacts DEF Keeps, TInv
  <2> QED
    BY <2>1, <2>2, <2>3, ChildKeeps
<1>3. ASSUME NEW f, Transform(f) PROVE Goal
  BY <1>3, PassingKeeps DEF Transform
<1>4. ASSUME Leave PROVE Goal
  BY <1>4, PassingKeeps DEF Leave
<1>5. ASSUME NEW f, Discard(f) PROVE Goal
  BY <1>5, PassingKeeps DEF Discard
<1>6. ASSUME NEW focus, NEW found, NEW left, MakeLambda(focus, found, left) PROVE Goal
  BY <1>6, PassingKeeps DEF MakeLambda
<1>7. ASSUME MakeTransform PROVE Goal
  BY <1>7, PassingKeeps DEF MakeTransform
<1>8. ASSUME NEW parts, Combine(parts) PROVE Goal
  BY <1>8, PassingKeeps DEF Combine
<1>9. ASSUME NEW f, NEW old, Bind(f, old) PROVE Goal
  BY <1>9, BindKeeps
<1>10. ASSUME NEW f, Lookup(f) PROVE Goal
  BY <1>10, PassingKeeps DEF Lookup
<1>11. ASSUME Finish PROVE Goal
  BY <1>11, FinishKeeps
<1>12. ASSUME UNCHANGED vars PROVE Goal
  BY <1>12 DEF vars, TInv, Aged, Outgrown, DisciplinedNeverLeaks, NoLeak, Reachable, Refs
<1>13. Goal
  BY <1>1, <1>2, <1>3, <1>4, <1>5, <1>6, <1>7, <1>8, <1>9, <1>10, <1>11, <1>12 DEF Next
<1> QED
  BY <1>0, <1>13 DEF TInv

LEMMA InitKeeps == Init => TInv
<1> SUFFICES ASSUME Init PROVE TInv
  OBVIOUS
<1>1. Cardinality({Scope}) = 1
  BY FS_Singleton
<1>2. Aged
  BY <1>1, ScopeAssumption DEF Init, Aged
<1> QED
  BY <1>2, InitSound DEF Init, TInv, Outgrown

(* For any number of environments: an evaluation that binds functions only  *)
(* where nothing they keep is younger, and in an environment they keep only *)
(* to call it, leaves nothing allocated but what its result needs           *)
(* (environment.rs:340-357): the suspects are then enough.                  *)
THEOREM NeverLeaks == Spec => []DisciplinedNeverLeaks
<1>1. TInv => DisciplinedNeverLeaks
  <2>1. ~done => NoLeak
    BY DEF NoLeak
  <2> QED
    BY <2>1 DEF TInv, DisciplinedNeverLeaks
<1> QED
  BY <1>1, InitKeeps, StepKeeps, PTL DEF Spec
=============================================================================

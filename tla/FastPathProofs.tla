---------------------------- MODULE FastPathProofs ----------------------------
(* Proofs about module FastPath: what the entry points owe to the fast      *)
(* evaluators, and what those owe to the general one.  What is said of one  *)
(* name of a path is in WalkProofs; here are the folds and counts that      *)
(* build nothing, the builtins they are lifted for, and the theorems.       *)
EXTENDS WalkProofs

-----------------------------------------------------------------------------
(* The entry points, whatever the evaluators answer *)

(* Where the answer comes from, and when a fast evaluator may give it. *)
FromTape == bound = {} /\ answer = EvalTapePath(expr, input) /\ answer # Deferred
FromFast == /\ answer = EvalFast(expr, input) /\ answer # Deferred
            /\ bound # {} => input \in Documents /\ FastClass(expr) # "Function"

(* The inductive invariant. *)
IInv == /\ expr \in Exprs
        /\ bound \subseteq Called(expr)
        /\ phase \in {"called", "parsed"} => bound = {}
        /\ input \in Documents \cup {Undefined}
        /\ phase = "called" => input \in Documents
        /\ phase = "done" => Agrees \/ FromTape \/ FromFast

-----------------------------------------------------------------------------
LEMMA InitSound == Init => IInv
  BY DEF Init, IInv

LEMMA TextSound == IInv /\ EvaluateText => IInv'
<1> SUFFICES ASSUME IInv, EvaluateText PROVE IInv'
  OBVIOUS
<1>1. expr' = expr /\ bound' = bound /\ bound = {}
  BY DEF EvaluateText, IInv
<1>2. phase' = "parsed" \/ (phase' = "done" /\ FromTape')
  BY <1>1 DEF EvaluateText, Settle, FromTape
<1>3. input' \in Documents \cup {Undefined}
  BY DEF EvaluateText, IInv
<1> QED
  BY <1>1, <1>2, <1>3 DEF IInv

LEMMA ValueSound == IInv /\ EvaluateValue => IInv'
<1> SUFFICES ASSUME IInv, EvaluateValue PROVE IInv'
  OBVIOUS
<1>1. expr' = expr /\ bound' = bound /\ bound = {} /\ input' = input
  BY DEF EvaluateValue, IInv
<1>2. phase' = "deferred" \/ (phase' = "done" /\ FromFast')
  BY <1>1 DEF EvaluateValue, Settle, FromFast
<1> QED
  BY <1>1, <1>2 DEF IInv

LEMMA BoundSound == IInv /\ EvaluateBound => IInv'
<1> SUFFICES ASSUME IInv, EvaluateBound PROVE IInv'
  OBVIOUS
<1>1. expr' = expr /\ bound' \subseteq Called(expr) /\ input' = input /\ input \in Documents
  BY DEF EvaluateBound, IInv
<1>2. phase' = "deferred" \/ (phase' = "done" /\ FromFast')
  BY <1>1 DEF EvaluateBound, EvalFastWithBindings, Settle, FromFast
<1> QED
  BY <1>1, <1>2 DEF IInv

LEMMA GeneralSound == IInv /\ EvaluateGeneral => IInv'
<1> SUFFICES ASSUME IInv, EvaluateGeneral PROVE IInv'
  OBVIOUS
<1>1. expr' = expr /\ bound' = bound /\ input' = input /\ phase' = "done" /\ Agrees'
  BY DEF EvaluateGeneral, Agrees
<1> QED
  BY <1>1 DEF IInv

LEMMA StepSound == IInv /\ [Next]_vars => IInv'
<1>1. IInv /\ UNCHANGED vars => IInv'
  BY DEF IInv, vars, Agrees, FromTape, FromFast
<1> QED
  BY <1>1, TextSound, ValueSound, BoundSound, GeneralSound DEF Next

LEMMA AlwaysSound == Spec => []IInv
  BY InitSound, StepSound, PTL DEF Spec

-----------------------------------------------------------------------------
(* What calls a builtin by its name is of the class of functions, or no     *)
(* fast evaluator answers for it (analyze).                                 *)
LEMMA CallsClassified == CallsAreFunctions
<1> SUFFICES ASSUME NEW e \in Exprs, Called(e) # {}
             PROVE  FastClass(e) = "Function" \/ \A v \in Documents : EvalFast(e, v) = Deferred
  BY DEF CallsAreFunctions
<1>1. e.kind = "function"
  BY DEF Called
<1>2. ~CollectsPurePath(e) /\ ~TriesComparison(e)
  BY <1>1 DEF CollectsPurePath, TriesComparison
<1>3. FastClass(e) \in {"Function", "None"}
  BY <1>2 DEF FastClass
<1>4. FastClass(e) = "None" => \A v \in Documents : EvalFast(e, v) = Deferred
  BY DEF EvalFast
<1> QED
  BY <1>3, <1>4

(* Whatever the fast evaluators answer, right or wrong: when the caller     *)
(* bound something over the builtin that is called, the answer is the       *)
(* general evaluator's under those bindings (eval_fast_with_bindings and    *)
(* the entry points that use it).                                           *)
THEOREM BoundNamesWin == Spec => []BindingsWin
<1>1. IInv => BindingsWin
  <2> SUFFICES ASSUME IInv, bound # {}, phase = "done" PROVE Agrees
    BY DEF BindingsWin, Agrees
  <2>1. expr \in Exprs /\ Called(expr) # {}
    BY DEF IInv
  <2>2. ~FromTape /\ ~FromFast
    BY <2>1, CallsClassified DEF FromTape, FromFast, CallsAreFunctions
  <2> QED
    BY <2>2 DEF IInv
<1> QED
  BY <1>1, AlwaysSound, PTL

(* Nothing but the evaluators decides an answer: by every entry point and   *)
(* under every binding, an expression on which they agree where they answer *)
(* has the general evaluator's answer (expression.rs).                      *)
LEMMA EntriesAgree == IInv => EntriesTransparent
<1> SUFFICES ASSUME IInv, Faithful(expr, input), phase = "done" PROVE Agrees
  BY DEF EntriesTransparent, Agrees
<1>1. CASE bound = {}
  BY <1>1 DEF IInv, Faithful, FromTape, FromFast, Agrees
<1>2. CASE bound # {}
  <2>1. expr \in Exprs /\ Called(expr) # {}
    BY <1>2 DEF IInv
  <2> QED
    BY <1>2, <2>1, CallsClassified DEF IInv, FromTape, FromFast, CallsAreFunctions
<1> QED
  BY <1>1, <1>2

THEOREM EntriesAddNothing == Spec => []EntriesTransparent
  BY EntriesAgree, AlwaysSound, PTL

-----------------------------------------------------------------------------
(* Paths and comparisons *)

LEMMA ScalarIs ==
    ASSUME NEW v, IsScalar(v), IsJson(v)
    PROVE  ~IsError(v) /\ ~IsSequence(v) /\ ~IsArray(v) /\ v # Undefined /\ v # NoNode
<1>1. \/ v = Null
      \/ v = Boolean(v.boolean)
      \/ v = Number(v.number)
      \/ v = Text(v.string)
      \/ v = Array(v.array)
      \/ v = Object(v.object)
  BY DEF IsJson
<1>2. v # Array(v.array) /\ v # Object(v.object)
  BY DEF IsScalar, IsText, IsNumber, IsBoolean, Null, Array, Object
<1> QED
  BY <1>1, <1>2 DEF Null, Boolean, Number, Text, IsError, IsSequence, IsArray, Undefined, NoNode

LEMMA PathOperand ==
    ASSUME NEW e, IsArgument(e), CollectsPurePath(e), NEW v \in Reached
    PROVE  /\ e.segments \in Seq(STRING)
           /\ EvalArgument(e, v) = EvalPath(e.segments, FALSE, v)
           /\ EvalArgument(e, v) \in Result /\ Collapsed(EvalArgument(e, v)) = EvalArgument(e, v)
           /\ EvalPurePath(e.segments, v) = EvalArgument(e, v)
           /\ TapeWalk(v, e.segments) = EvalArgument(e, v)
<1>1. e.kind = "path" /\ e.postfix = "none"
  BY DEF CollectsPurePath
<1>2. IsPath(e) /\ e.segments \in Seq(STRING)
  BY <1>1 DEF IsArgument, IsOperand, IsPath
<1>3. EvalArgument(e, v) = EvalPath(e.segments, FALSE, v)
  BY <1>1 DEF EvalArgument, EvalOperand, Grouped
<1> QED
  BY <1>2, <1>3, PathResult, ResultIs

LEMMA LiteralOperand ==
    ASSUME NEW e, IsArgument(e), e.kind = "literal", NEW v
    PROVE  /\ IsScalar(e.value) /\ IsJson(e.value)
           /\ EvalArgument(e, v) = e.value /\ Collapsed(EvalArgument(e, v)) = e.value
<1>1. IsScalar(e.value) /\ IsJson(e.value) /\ e.postfix = "none"
  BY DEF IsArgument, IsOperand, IsPath
<1>2. EvalArgument(e, v) = e.value
  BY <1>1 DEF EvalArgument, EvalOperand, Grouped
<1> QED
  BY <1>1, <1>2, ScalarIs DEF Collapsed

LEMMA NotDeferred ==
    /\ \A b : Boolean(b) # Deferred
    /\ Undefined # Deferred
  BY DEF Boolean, Undefined, Deferred

LEMMA PathFaithful ==
    ASSUME NEW e \in Exprs, e.kind = "path", NEW v \in Reached PROVE Faithful(e, v)
<1>1. IsPath(e)
  BY ExpressionsAreShallow
<1>2. ~TriesComparison(e) /\ ~TriesFunction(e)
  BY DEF TriesComparison, TriesFunction
<1>3. CASE CollectsPurePath(e)
  <2>1. FastClass(e) = "PurePath"
    BY <1>2, <1>3 DEF FastClass
  <2>2. IsArgument(e)
    BY <1>1 DEF IsArgument, IsOperand
  <2>3. Eval(e, v, {}) = Collapsed(EvalArgument(e, v))
    BY DEF Eval, EvalInner
  <2>4. EvalTapePath(e, v) = TapeWalk(v, e.segments) /\ EvalFast(e, v) = EvalPurePath(e.segments, v)
    BY <2>1 DEF EvalTapePath, EvalFast
  <2> QED
    BY <1>3, <2>2, <2>3, <2>4, PathOperand DEF Faithful
<1>4. CASE ~CollectsPurePath(e)
  <2>1. FastClass(e) = "None"
    BY <1>2, <1>4 DEF FastClass
  <2>2. EvalTapePath(e, v) = Deferred /\ EvalFast(e, v) = Deferred
    BY <2>1 DEF EvalTapePath, EvalFast
  <2> QED
    BY <2>2 DEF Faithful
<1> QED
  BY <1>3, <1>4

LEMMA ComparisonFaithful ==
    ASSUME NEW e \in Exprs, e.kind = "binary", NEW v \in Reached PROVE Faithful(e, v)
<1>1. /\ e.postfix = "none" /\ e.op \in {"Eq", "Ne"}
      /\ IsArgument(e.lhs) /\ IsArgument(e.rhs)
  BY ExpressionsAreShallow DEF IsPath
<1>2. ~CollectsPurePath(e) /\ ~TriesFunction(e)
  BY DEF CollectsPurePath, TriesFunction
<1>3. CASE TriesComparison(e)
  <2> DEFINE lhs == EvalArgument(e.lhs, v)
             rhs == e.rhs.value
  <2>1. FastClass(e) = "Comparison"
    BY <1>2, <1>3 DEF FastClass
  <2>2. /\ lhs \in Result /\ Collapsed(lhs) = lhs
        /\ EvalPurePath(e.lhs.segments, v) = lhs
    BY <1>1, <1>3, PathOperand DEF TriesComparison
  <2>3. /\ IsScalar(rhs) /\ IsJson(rhs) /\ Collapsed(EvalArgument(e.rhs, v)) = rhs
        /\ rhs # Undefined
    BY <1>1, <1>3, LiteralOperand, ScalarIs DEF TriesComparison
  <2>4. EvalTapePath(e, v) = Deferred /\ EvalFast(e, v) = EvalComparison(e.op, lhs, rhs)
    BY <2>1, <2>2 DEF EvalTapePath, EvalFast
  <2>5. EvalInner(e, v, {}) = EvalEquality(e.op, lhs, rhs)
    BY <1>1, <2>2, <2>3 DEF EvalInner, Grouped
  <2>6. Eval(e, v, {}) = EvalEquality(e.op, lhs, rhs)
    <3>1. \A b : Collapsed(Boolean(b)) = Boolean(b)
      BY DEF Collapsed, Boolean, IsSequence
    <3>2. \E b : EvalEquality(e.op, lhs, rhs) = Boolean(b)
      BY DEF EvalEquality
    <3> QED
      BY <2>5, <3>1, <3>2 DEF Eval
  <2> HIDE DEF lhs, rhs
  <2>7. CASE lhs = Undefined
    BY <2>4, <2>6, <2>7 DEF Faithful, EvalComparison, EvalEquality
  <2>8. CASE lhs # Undefined /\ IsArray(lhs)
    BY <2>4, <2>8 DEF Faithful, EvalComparison
  <2>9. CASE lhs # Undefined /\ ~IsArray(lhs)
    <3>1. Undefined \notin {lhs, rhs}
      BY <2>3, <2>9
    <3>2. CASE lhs = rhs
      BY <1>1, <2>4, <2>6, <2>9, <3>1, <3>2 DEF Faithful, EvalComparison, EvalEquality, DeepEqual
    <3>3. CASE lhs # rhs
      BY <1>1, <2>4, <2>6, <2>9, <3>1, <3>3 DEF Faithful, EvalComparison, EvalEquality, DeepEqual
    <3> QED
      BY <3>2, <3>3
  <2> QED
    BY <2>7, <2>8, <2>9
<1>4. CASE ~TriesComparison(e)
  <2>1. FastClass(e) = "None"
    BY <1>2, <1>4 DEF FastClass
  <2>2. EvalTapePath(e, v) = Deferred /\ EvalFast(e, v) = Deferred
    BY <2>1 DEF EvalTapePath, EvalFast
  <2> QED
    BY <2>2 DEF Faithful
<1> QED
  BY <1>3, <1>4

LEMMA InputReached == IInv => expr \in Exprs /\ input \in Reached
  BY DocumentsAreValues, ValuesAreResults DEF IInv, Reached

(* A dotted path selects the same values on the tape of a text, on a parsed *)
(* value and in the general evaluator, and a lifted comparison says what    *)
(* the general evaluator says, whatever the documents and their depth       *)
(* (eval_tape_path, eval_pure_path, eval_comparison).                       *)
THEOREM PathsAlwaysTransparent == Spec => []PathsTransparent
<1>1. IInv => PathsTransparent
  <2> SUFFICES ASSUME IInv, expr.kind \in {"path", "binary"} PROVE Agrees
    BY DEF PathsTransparent
  <2>1. Faithful(expr, input)
    BY InputReached, PathFaithful, ComparisonFaithful
  <2> QED
    BY <2>1, EntriesAgree DEF EntriesTransparent
<1> QED
  BY <1>1, AlwaysSound, PTL

-----------------------------------------------------------------------------
(* Folding *)

LeafSet == [clean : BOOLEAN, values : Seq(Value)]

LEMMA LeafIs ==
    /\ Leaves(TRUE, <<>>) \in LeafSet /\ Leaves(FALSE, <<>>) \in LeafSet
    /\ \A u \in Reached : /\ LeavesOf(u) \in LeafSet /\ LeavesOf(u).values = Items(u)
    /\ \A l, m \in LeafSet : JoinLeaves(l, m) \in LeafSet
<1>1. \A c \in BOOLEAN : \A s \in Seq(Value) : Leaves(c, s) \in LeafSet /\ Leaves(c, s).values = s
  BY DEF Leaves, LeafSet
<1>2. \A u \in Reached : Items(u) \in Seq(Value)
  BY ResultIs, ValuesAreResults
<1>3. \A l, m \in LeafSet : JoinLeaves(l, m) \in LeafSet
  <2> SUFFICES ASSUME NEW l \in LeafSet, NEW m \in LeafSet PROVE JoinLeaves(l, m) \in LeafSet
    OBVIOUS
  <2>1. l.values \in Seq(Value) /\ m.values \in Seq(Value)
    BY DEF LeafSet
  <2>2. l.values \o m.values \in Seq(Value)
    BY <2>1, ConcatProperties
  <2>3. (l.clean /\ m.clean) \in BOOLEAN
    OBVIOUS
  <2> QED
    BY <1>1, <2>2, <2>3 DEF JoinLeaves
<1> QED
  BY <1>1, <1>2, <1>3, EmptySeq DEF LeavesOf

LEMMA LeavesFold ==
    ASSUME NEW ls \in Seq(LeafSet)
    PROVE  \E at \in [0 .. Len(ls) -> LeafSet] :
               /\ at[0] = Leaves(TRUE, <<>>)
               /\ \A k \in 1 .. Len(ls) : at[k] = JoinLeaves(at[k - 1], ls[k])
               /\ FoldLeft(JoinLeaves, Leaves(TRUE, <<>>), ls) = at[Len(ls)]
<1> DEFINE base == Leaves(TRUE, <<>>)
           S == SUBSET DOMAIN ls
           Is(it) == it = [t \in S |-> IF t = {} THEN base
                                       ELSE JoinLeaves(it[t \ {Max(t)}], ls[Max(t)])]
           g == CHOOSE it : Is(it)
           f == [r \in LeafSet |-> [x \in LeafSet |-> JoinLeaves(r, x)]]
<1>1. Steps(LeafSet, LeafSet, f) /\ base \in LeafSet
  BY LeafIs DEF Steps
<1>2. \A r \in LeafSet : \A x \in LeafSet : f[r][x] = JoinLeaves(r, x)
  OBVIOUS
<1>3. \A t \in S : t # {} => t \ {Max(t)} \in S /\ ls[Max(t)] \in LeafSet
  BY LenProperties, GreatestOf
<1>7. FoldLeft(JoinLeaves, base, ls) = g[DOMAIN ls]
  BY DEF FoldLeft, MapThenFoldSet
<1> HIDE DEF f, base
<1>4. PICK it \in [SUBSET DOMAIN ls -> LeafSet] : FollowsFold(f, base, ls, it)
  BY <1>1, FoldExists
<1>5. Is(it)
  <2>1. \A t \in S : t # {} => it[t] = JoinLeaves(it[t \ {Max(t)}], ls[Max(t)])
    BY <1>2, <1>3, <1>4 DEF FollowsFold
  <2>2. it[{}] = base
    BY <1>4 DEF FollowsFold
  <2> HIDE DEF S
  <2> QED
    BY <1>4, <2>1, <2>2 DEF S
<1>6. Is(g)
  <2> HIDE DEF Is
  <2> QED
    BY <1>5
<1> HIDE DEF g
<1>8. FollowsWithin(LeafSet, f, base, ls, g)
  BY <1>2, <1>3, <1>6 DEF FollowsWithin
<1>9. PICK at : UnrollsTo(LeafSet, f, base, ls, at, g[DOMAIN ls])
  BY <1>1, <1>8, FoldUnrolls
<1>10. \A k \in 1 .. Len(ls) : at[k] = JoinLeaves(at[k - 1], ls[k])
  <2> SUFFICES ASSUME NEW k \in 1 .. Len(ls) PROVE at[k] = JoinLeaves(at[k - 1], ls[k])
    OBVIOUS
  <2>1. k - 1 \in 0 .. Len(ls) /\ ls[k] \in LeafSet
    BY LenProperties
  <2> QED
    BY <1>2, <1>9, <2>1 DEF UnrollsTo
<1> QED
  BY <1>7, <1>9, <1>10 DEF UnrollsTo, base

(* When no array lay in an array, the leaves of the items of an array are   *)
(* what g gives for each, one after the other.                              *)
LeavesAre(one, g) ==
    \A x \in Value : one[x] \in LeafSet /\ (one[x].clean => one[x].values = g[x])

LEMMA JoinedLeaves ==
    ASSUME NEW s \in Seq(Value), NEW g, Gives(g, Value, Value), NEW one, LeavesAre(one, g)
    PROVE  LET l == FoldLeft(JoinLeaves, Leaves(TRUE, <<>>), Over(one, s))
           IN  l \in LeafSet /\ (l.clean => l.values = Spread(g, s))
<1> DEFINE ls == Over(one, s)
<1>0. Len(s) \in Nat /\ DOMAIN s = 1 .. Len(s)
  BY LenProperties
<1>1. ls \in Seq(LeafSet)
  BY OverType DEF LeavesAre
<1>2. Len(ls) = Len(s) /\ \A k \in 1 .. Len(s) : ls[k] = one[s[k]]
  BY <1>0 DEF Over
<1> HIDE DEF ls
<1>3. PICK at \in [0 .. Len(s) -> LeafSet] :
          /\ at[0] = Leaves(TRUE, <<>>)
          /\ \A k \in 1 .. Len(s) : at[k] = JoinLeaves(at[k - 1], ls[k])
          /\ FoldLeft(JoinLeaves, Leaves(TRUE, <<>>), ls) = at[Len(s)]
  BY <1>1, <1>2, LeavesFold
<1> DEFINE upTo(k) == SubSeq(s, 1, k)
           T == {k \in 0 .. Len(s) : at[k].clean => at[k].values = Spread(g, upTo(k))}
<1>4. 0 \in T
  <2>1. upTo(0) = <<>>
    BY PrefixGrows
  <2>2. Spread(g, <<>>) = <<>>
    BY SpreadEmpty
  <2>3. at[0].values = <<>>
    BY <1>3 DEF Leaves
  <2> HIDE DEF upTo
  <2> QED
    BY <1>0, <2>1, <2>2, <2>3
<1>5. ASSUME NEW k \in 0 .. Len(s) - 1, k \in T PROVE k + 1 \in T
  <2>1. /\ k + 1 \in 1 .. Len(s) /\ k + 1 \in 0 .. Len(s) /\ (k + 1) - 1 = k
        /\ k \in 0 .. Len(s)
    BY <1>0
  <2>2. s[k + 1] \in Value /\ upTo(k + 1) = Append(upTo(k), s[k + 1]) /\ upTo(k) \in Seq(Value)
    BY <2>1, PrefixGrows
  <2>3. at[k + 1] = JoinLeaves(at[k], one[s[k + 1]]) /\ at[k] \in LeafSet
    <3>1. at[k + 1] = JoinLeaves(at[(k + 1) - 1], ls[k + 1])
      BY <1>3, <2>1
    <3> QED
      BY <1>2, <1>3, <2>1, <3>1
  <2>4. at[k].clean => at[k].values = Spread(g, upTo(k))
    BY <1>5
  <2> HIDE DEF upTo, T
  <2> DEFINE x == s[k + 1]
             u == upTo(k)
  <2>5. x \in Value /\ u \in Seq(Value)
    BY <2>2
  <2> HIDE DEF x, u
  <2>6. Spread(g, Append(u, x)) = Spread(g, u) \o g[x]
    BY <2>5, SpreadAppend
  <2>7. one[x].clean => one[x].values = g[x]
    BY <2>5 DEF LeavesAre
  <2>8. /\ JoinLeaves(at[k], one[x]).clean = (at[k].clean /\ one[x].clean)
        /\ JoinLeaves(at[k], one[x]).values = at[k].values \o one[x].values
    BY DEF JoinLeaves, Leaves
  <2>9. at[k + 1].clean => at[k + 1].values = Spread(g, upTo(k + 1))
    <3> SUFFICES ASSUME at[k + 1].clean PROVE at[k + 1].values = Spread(g, upTo(k + 1))
      OBVIOUS
    <3>1. at[k].clean /\ one[x].clean
      BY <2>3, <2>8 DEF x
    <3>2. at[k + 1].values = Spread(g, u) \o g[x]
      BY <2>3, <2>4, <2>7, <2>8, <3>1 DEF x, u
    <3> QED
      BY <2>2, <2>6, <3>2 DEF x, u
  <2> QED
    BY <2>1, <2>9 DEF T
<1> HIDE DEF T
<1>6. \A k \in 0 .. Len(s) : k \in T
  BY <1>0, <1>4, <1>5, NumbersUpTo
<1>7. Len(s) \in 0 .. Len(s) /\ upTo(Len(s)) = s
  BY <1>0, PrefixGrows
<1>8. at[Len(s)] \in LeafSet /\ (at[Len(s)].clean => at[Len(s)].values = Spread(g, s))
  BY <1>6, <1>7 DEF T
<1> QED
  BY <1>3, <1>8 DEF ls

(* One name, when the leaves of an item are what g gives for it.            *)
FoldsAs(rest, name, g) == LeavesAre([x \in Value |-> FoldOne(rest, name, x)], g)

LEMMA FoldInIs ==
    ASSUME NEW rest, NEW name, NEW g, Gives(g, Value, Value), FoldsAs(rest, name, g),
           NEW u \in Reached
    PROVE  /\ FoldIn(rest, name, u) \in LeafSet
           /\ FoldIn(rest, name, u).clean => FoldIn(rest, name, u).values = Spread(g, Items(u))
<1> DEFINE one == [x \in Value |-> FoldOne(rest, name, x)]
<1>0. \A x \in Value : one[x] = FoldOne(rest, name, x)
  OBVIOUS
<1>1. LeavesAre(one, g)
  BY DEF FoldsAs
<1> HIDE DEF one
<1>2. CASE IsArray(u)
  <2>1. u.array \in Seq(Value) /\ Items(u) = u.array
    BY <1>2, ResultIs, ValuesAreResults DEF Items
  <2>2. \A i \in DOMAIN u.array : one[u.array[i]] = FoldOne(rest, name, u.array[i])
    BY <1>0, <2>1
  <2>3. FoldIn(rest, name, u) = FoldLeft(JoinLeaves, Leaves(TRUE, <<>>), Over(one, u.array))
    BY <1>2, <2>2 DEF FoldIn, Over
  <2> DEFINE s == u.array
             l == FoldLeft(JoinLeaves, Leaves(TRUE, <<>>), Over(one, s))
  <2>4. s \in Seq(Value)
    BY <2>1
  <2> HIDE DEF s
  <2>5. l \in LeafSet /\ (l.clean => l.values = Spread(g, s))
    BY <1>1, <2>4, JoinedLeaves
  <2> HIDE DEF l
  <2>6. FoldIn(rest, name, u) = l /\ Items(u) = s
    BY <2>1, <2>3 DEF l, s
  <2> QED
    BY <2>5, <2>6
<1>3. CASE ~IsArray(u) /\ u \in Value
  <2>1. Items(u) = <<u>> /\ Spread(g, <<u>>) = g[u]
    BY <1>3, ValuesAreResults, SpreadOne DEF Items
  <2>2. FoldIn(rest, name, u) = one[u]
    BY <1>0, <1>3 DEF FoldIn
  <2> QED
    BY <1>1, <1>3, <2>1, <2>2 DEF LeavesAre
<1>4. CASE u = Undefined
  <2>1. FoldIn(rest, name, u) = Leaves(TRUE, <<>>) /\ Items(u) = <<>>
    BY <1>4, UndefinedIs DEF FoldIn, FoldOne, Items
  <2>2. Spread(g, <<>>) = <<>> /\ Leaves(TRUE, <<>>).values = <<>>
    BY SpreadEmpty DEF Leaves
  <2> QED
    BY <2>1, <2>2, LeafIs
<1> QED
  BY <1>2, <1>3, <1>4 DEF Reached

LEMMA FoldInType ==
    ASSUME NEW rest, \A u \in Reached : rest[u] \in LeafSet, NEW name, NEW u \in Reached
    PROVE  FoldIn(rest, name, u) \in LeafSet
<1> DEFINE one == [x \in Value |-> FoldOne(rest, name, x)]
<1>1. ASSUME NEW x PROVE (IsObject(x) => x \in Value) => FoldOne(rest, name, x) \in LeafSet
  BY LeafIs, FieldReached DEF FoldOne
<1>2. \A x \in Value : one[x] \in LeafSet /\ one[x] = FoldOne(rest, name, x)
  BY <1>1
<1> HIDE DEF one
<1>3. CASE IsArray(u)
  <2>1. u.array \in Seq(Value)
    BY <1>3, ResultIs, ValuesAreResults
  <2>2. Over(one, u.array) \in Seq(LeafSet)
    BY <1>2, <2>1, OverType
  <2>3. FoldIn(rest, name, u) = FoldLeft(JoinLeaves, Leaves(TRUE, <<>>), Over(one, u.array))
    <3>1. \A i \in DOMAIN u.array : one[u.array[i]] = FoldOne(rest, name, u.array[i])
      BY <1>2, <2>1
    <3> QED
      BY <1>3, <3>1 DEF FoldIn, Over
  <2> DEFINE ls == Over(one, u.array)
  <2>4. ls \in Seq(LeafSet) /\ Len(ls) \in 0 .. Len(ls)
    BY <2>2, LenProperties
  <2> HIDE DEF ls
  <2>5. FoldLeft(JoinLeaves, Leaves(TRUE, <<>>), ls) \in LeafSet
    <3>1. PICK at \in [0 .. Len(ls) -> LeafSet] :
              FoldLeft(JoinLeaves, Leaves(TRUE, <<>>), ls) = at[Len(ls)]
      BY <2>4, LeavesFold
    <3> QED
      BY <2>4, <3>1
  <2> QED
    BY <2>3, <2>5 DEF ls
<1>4. CASE ~IsArray(u)
  <2>1. IsObject(u) => u \in Value
    BY UndefinedIs DEF Reached
  <2> QED
    BY <1>1, <1>4, <2>1 DEF FoldIn
<1> QED
  BY <1>3, <1>4

(* What fold_pure_path carries from one name to the next.                   *)
IsFolding(segments, F) ==
    F = [k \in 1 .. Len(segments) + 1 |-> [u \in Reached |->
            IF k = Len(segments) + 1 THEN LeavesOf(u) ELSE FoldIn(F[k + 1], segments[k], u)]]

LEMMA FoldingExists ==
    ASSUME NEW segments \in Seq(STRING) PROVE \E F : IsFolding(segments, F)
<1> DEFINE n == Len(segments)
           R == [Reached -> LeafSet]
           last == [u \in Reached |-> LeavesOf(u)]
           step == [k \in 1 .. n |-> [r \in R |->
                       [u \in Reached |-> FoldIn(r, segments[k], u)]]]
<1>1. n \in Nat
  BY LenProperties
<1>2. last \in R
  BY LeafIs
<1>3. \A k \in 1 .. n : \A r \in R : step[k][r] = [u \in Reached |-> FoldIn(r, segments[k], u)]
  OBVIOUS
<1>4. Descends(n, R, step)
  <2>1. \A r \in R : \A k \in 1 .. n : \A u \in Reached : FoldIn(r, segments[k], u) \in LeafSet
    BY FoldInType
  <2> QED
    BY <1>3, <2>1 DEF Descends
<1>5. \A u \in Reached : last[u] = LeavesOf(u)
  OBVIOUS
<1>6. n = Len(segments)
  OBVIOUS
<1> HIDE DEF step, n, last
<1>7. PICK F \in [1 .. n + 1 -> R] : FollowsDown(n, last, step, F)
  <2> HIDE DEF R
  <2> QED
    BY <1>1, <1>2, <1>4, DescentExists
<1>8. \A k \in 1 .. n : F[k] = [u \in Reached |-> FoldIn(F[k + 1], segments[k], u)]
  BY <1>1, <1>3, <1>7 DEF FollowsDown
<1>9. F[n + 1] = [u \in Reached |-> LeavesOf(u)]
  BY <1>7 DEF FollowsDown, last
<1>10. ASSUME NEW k \in 1 .. n + 1
       PROVE  F[k] = [u \in Reached |->
                  IF k = n + 1 THEN LeavesOf(u) ELSE FoldIn(F[k + 1], segments[k], u)]
  <2>1. CASE k = n + 1
    BY <1>9, <2>1
  <2>2. CASE k # n + 1
    <3>1. k \in 1 .. n
      BY <1>1, <2>2
    <3> QED
      BY <1>8, <2>2, <3>1
  <2> QED
    BY <2>1, <2>2
<1> DEFINE W == [k \in 1 .. n + 1 |-> [u \in Reached |->
                    IF k = n + 1 THEN LeavesOf(u) ELSE FoldIn(F[k + 1], segments[k], u)]]
<1>11. F = W
  <2>1. DOMAIN F = DOMAIN W /\ F = [k \in DOMAIN F |-> F[k]] /\ W = [k \in DOMAIN W |-> W[k]]
    BY <1>7
  <2>2. \A k \in DOMAIN W : F[k] = W[k]
    BY <1>10
  <2> HIDE DEF W
  <2> QED
    BY <2>1, <2>2
<1>12. IsFolding(segments, F)
  BY <1>6, <1>11 DEF IsFolding
<1> QED
  BY <1>12

LEMMA FoldingIs ==
    ASSUME NEW segments \in Seq(STRING), NEW v
    PROVE  \E F : IsFolding(segments, F) /\ FoldPurePath(segments, v) = F[1][v]
<1> DEFINE F == CHOOSE F : IsFolding(segments, F)
<1>1. IsFolding(segments, F)
  BY FoldingExists
<1>2. FoldPurePath(segments, v) = F[1][v]
  BY DEF FoldPurePath, IsFolding
<1> QED
  BY <1>1, <1>2

(* The leaves that a fold visits, when no array lies in an array on the     *)
(* way, are the items of the path's value (fold_pure_path).                 *)
LEMMA FoldedIs ==
    ASSUME NEW segments \in Seq(STRING), segments # <<>>, NEW v \in Reached
    PROVE  LET l == FoldPurePath(segments, v)
           IN  /\ l \in LeafSet
               /\ l.clean => Yields(l.values, EvalPath(segments, FALSE, v))
<1> DEFINE n == Len(segments)
           base == Named(segments[n])
<1>0. n \in Nat /\ n # 0 /\ n = Len(segments)
  BY LenProperties, EmptySeq
<1>1. Gives(base, Value, Value)
  BY NamedType
<1>b. \A x \in Value : base[x] = Named(segments[n])[x]
  OBVIOUS
<1> HIDE DEF base
<1>2. PICK E : IsLevels(segments, Value, base, E)
  BY <1>1, LevelsExist
<1>3. PICK F : IsFolding(segments, F) /\ FoldPurePath(segments, v) = F[1][v]
  BY FoldingIs
<1> HIDE DEF n
<1>4. /\ \A k \in 1 .. n : \A u \in Reached : F[k][u] = FoldIn(F[k + 1], segments[k], u)
      /\ \A u \in Reached : F[n + 1][u] = LeavesOf(u)
  <2>1. \A k \in 1 .. n + 1 : F[k] = [u \in Reached |->
            IF k = n + 1 THEN LeavesOf(u) ELSE FoldIn(F[k + 1], segments[k], u)]
    BY <1>0, <1>3 DEF IsFolding
  <2>2. \A k \in 1 .. n : k \in 1 .. n + 1 /\ k # n + 1
    BY <1>0
  <2>3. n + 1 \in 1 .. n + 1
    BY <1>0
  <2> QED
    BY <2>1, <2>2, <2>3
<1> DEFINE Want(k, u) == IF k = n + 1 THEN Items(u) ELSE Spread(E[k], Items(u))
           T == {k \in 1 .. n + 1 : \A u \in Reached :
                     F[k][u] \in LeafSet /\ (F[k][u].clean => F[k][u].values = Want(k, u))}
<1>5. n + 1 \in T
  BY <1>0, <1>4, LeafIs
<1>6. ASSUME NEW k \in 1 .. n, k + 1 \in T PROVE k \in T
  <2>1. \A u \in Reached : /\ F[k + 1][u] \in LeafSet
                           /\ F[k + 1][u].clean => F[k + 1][u].values = Want(k + 1, u)
    BY <1>6
  <2>k. k \in 1 .. Len(segments) /\ k \in 1 .. n + 1 /\ k # n + 1 /\ (k = n <=> k + 1 = n + 1)
        /\ (k # n => k < Len(segments))
    BY <1>0
  <2> HIDE DEF T
  <2>2. ASSUME NEW x \in Value
        PROVE  LET l == FoldOne(F[k + 1], segments[k], x)
               IN  l \in LeafSet /\ (l.clean => l.values = E[k][x])
    <3>1. CASE IsObject(x)
      <4>1. /\ FieldOf(x, segments[k]) \in Reached
            /\ FoldOne(F[k + 1], segments[k], x) = F[k + 1][FieldOf(x, segments[k])]
        <5>1. FieldOf(x, segments[k]) \in Reached /\ ~IsArray(x)
          BY <3>1, FieldReached, ValueKinds
        <5> QED
          BY <3>1, <5>1 DEF FoldOne
      <4>2. E[k][x] = Want(k + 1, FieldOf(x, segments[k]))
        <5>1. CASE k = n
          <6>1. E[k][x] = Named(segments[k])[x]
            BY <1>0, <1>2, <1>b, <5>1, LevelIs
          <6> QED
            BY <2>k, <3>1, <5>1, <6>1, NamedIs
        <5>2. CASE k # n
          <6>1. E[k][x] = Spread(E[k + 1], Items(FieldOf(x, segments[k])))
            BY <1>2, <2>k, <3>1, <5>2, LevelIs
          <6> QED
            BY <2>k, <5>2, <6>1
        <5> QED
          BY <5>1, <5>2
      <4> HIDE DEF Want
      <4> QED
        BY <2>1, <4>1, <4>2
    <3>2. CASE ~IsObject(x) /\ IsArray(x)
      <4>1. FoldOne(F[k + 1], segments[k], x) = Leaves(FALSE, <<>>)
        BY <3>2 DEF FoldOne
      <4> QED
        BY <4>1, LeafIs DEF Leaves
    <3>3. CASE ~IsObject(x) /\ ~IsArray(x)
      <4>1. FoldOne(F[k + 1], segments[k], x) = Leaves(TRUE, <<>>)
        BY <3>3 DEF FoldOne
      <4>2. E[k][x] = <<>>
        <5>1. CASE k = n
          <6>1. E[k][x] = Named(segments[k])[x]
            BY <1>0, <1>2, <1>b, <5>1, LevelIs
          <6> QED
            BY <3>3, <6>1, NamedIs
        <5>2. CASE k # n
          BY <1>2, <2>k, <3>3, <5>2, LevelIs
        <5> QED
          BY <5>1, <5>2
      <4> QED
        BY <4>1, <4>2, LeafIs DEF Leaves
    <3> QED
      BY <3>1, <3>2, <3>3
  <2>3. FoldsAs(F[k + 1], segments[k], E[k])
    BY <2>2 DEF FoldsAs, LeavesAre
  <2>4. Gives(E[k], Value, Value)
    BY <1>2, <2>k DEF IsLevels
  <2>5. ASSUME NEW u \in Reached
        PROVE  F[k][u] \in LeafSet /\ (F[k][u].clean => F[k][u].values = Want(k, u))
    <3> DEFINE g == E[k]
               rest == F[k + 1]
               name == segments[k]
    <3>1. Gives(g, Value, Value) /\ FoldsAs(rest, name, g)
      BY <2>3, <2>4
    <3>2. Want(k, u) = Spread(g, Items(u)) /\ F[k][u] = FoldIn(rest, name, u)
      BY <1>4, <2>k
    <3> HIDE DEF g, rest, name, Want
    <3>3. /\ FoldIn(rest, name, u) \in LeafSet
          /\ FoldIn(rest, name, u).clean => FoldIn(rest, name, u).values = Spread(g, Items(u))
      BY <3>1, FoldInIs
    <3> QED
      BY <3>2, <3>3
  <2> QED
    BY <2>5, <2>k DEF T
<1> HIDE DEF T
<1>7. 1 \in T
  <2>1. \A k \in 1 .. n + 1 : k \in T
    BY <1>0, <1>5, <1>6, NumbersDownTo
  <2> QED
    BY <1>0, <2>1
<1>8. F[1][v] \in LeafSet /\ (F[1][v].clean => F[1][v].values = Spread(E[1], Items(v)))
  BY <1>0, <1>7 DEF T
<1>9. PICK L : IsLists(segments, v, L)
  BY ListsExist
<1>10. PICK at : IsWalk(segments, v, at) /\ EvalPath(segments, FALSE, v) = at[Len(segments)]
  BY PathWalk
<1>11. Yields(L[n], at[n])
  BY <1>0, <1>9, <1>10, ListsYield
<1>12. Spread(E[1], Items(v)) = L[n]
  <2>1. Spread(E[1], Items(v)) = Spread(base, L[Len(segments) - 1])
    BY <1>2, <1>9, LevelsKeep
  <2>2. L[n] = Spread(Named(segments[n]), L[n - 1])
    BY <1>0, <1>9 DEF IsLists
  <2> QED
    BY <1>0, <2>1, <2>2 DEF base
<1> QED
  BY <1>0, <1>3, <1>8, <1>10, <1>11, <1>12

-----------------------------------------------------------------------------
(* Counting *)

CountSet == {Deferred} \cup [n : Nat, found : BOOLEAN]

\* A value as the list of what is defined of it.
HeldOf(u) == IF u = Undefined THEN <<>> ELSE <<u>>

\* What one name selects in a value, if anything.
HeldName(name) == [x \in Value |-> HeldOf(EvalName(name, x))]

LEMMA HeldNameIs ==
    ASSUME NEW name
    PROVE  /\ Gives(HeldName(name), Value, Result)
           /\ \A x \in Value :
                  /\ HeldName(name)[x] # <<>> <=> EvalName(name, x) # Undefined
                  /\ IsObject(x) => HeldName(name)[x] = HeldOf(FieldOf(x, name))
                  /\ ~IsObject(x) /\ ~IsArray(x) => HeldName(name)[x] = <<>>
<1>1. \A r \in Result : HeldOf(r) \in Seq(Result) /\ (HeldOf(r) # <<>> <=> r # Undefined)
  BY EmptySeq DEF HeldOf
<1>2. HeldOf(Undefined) = <<>>
  BY DEF HeldOf
<1>3. \A x \in Value : EvalName(name, x) \in Result /\ HeldName(name)[x] = HeldOf(EvalName(name, x))
  BY EvalNameIs, ValuesAreResults DEF HeldName
<1>4. \A x \in Value : /\ IsObject(x) => EvalName(name, x) = FieldOf(x, name)
                       /\ ~IsObject(x) /\ ~IsArray(x) => EvalName(name, x) = Undefined
  BY EvalNameIs, ValuesAreResults
<1>5. HeldName(name) \in [Value -> Seq(Result)]
  BY <1>1, <1>3 DEF HeldName
<1> QED
  BY <1>1, <1>2, <1>3, <1>4, <1>5 DEF Gives

LEMMA CountIs ==
    /\ \A k \in Nat : \A b \in BOOLEAN :
           /\ Count(k, b) \in CountSet /\ Count(k, b) # Deferred
           /\ Count(k, b).n = k /\ Count(k, b).found = b
    /\ Count(0, FALSE) \in CountSet /\ Deferred \in CountSet
    /\ \A c \in CountSet : c # Deferred => c.n \in Nat /\ c.found \in BOOLEAN
<1>1. \A k \in Nat : \A b \in BOOLEAN :
           /\ Count(k, b) \in CountSet /\ Count(k, b) # Deferred
           /\ Count(k, b).n = k /\ Count(k, b).found = b
  BY DEF Count, CountSet, Deferred
<1>2. Count(0, FALSE) \in CountSet
  BY <1>1
<1> QED
  BY <1>1, <1>2 DEF CountSet

LEMMA AddCountIs ==
    ASSUME NEW c \in CountSet, NEW d \in CountSet
    PROVE  /\ AddCount(c, d) \in CountSet
           /\ AddCount(c, d) # Deferred => /\ c # Deferred /\ d # Deferred
                                           /\ AddCount(c, d).n = c.n + d.n
                                           /\ AddCount(c, d).found <=> c.found \/ d.found
<1>1. CASE c # Deferred /\ d # Deferred
  <2>1. c.n \in Nat /\ d.n \in Nat /\ c.found \in BOOLEAN /\ d.found \in BOOLEAN
    BY <1>1, CountIs
  <2>2. c.n + d.n \in Nat /\ (c.found \/ d.found) \in BOOLEAN
    BY <2>1
  <2>3. AddCount(c, d) = Count(c.n + d.n, c.found \/ d.found)
    BY <1>1 DEF AddCount
  <2> QED
    BY <1>1, <2>2, <2>3, CountIs
<1>2. CASE ~(c # Deferred /\ d # Deferred)
  BY <1>2 DEF AddCount, CountSet
<1> QED
  BY <1>1, <1>2

LEMMA CountLeafIs ==
    ASSUME NEW u \in Reached
    PROVE  /\ CountLeaf(u) \in CountSet /\ CountLeaf(u) # Deferred
           /\ CountLeaf(u).n = Len(Items(u)) /\ CountLeaf(u).n \in Nat
           /\ CountLeaf(u).found <=> HeldOf(u) # <<>>
           /\ CountLeafInArray(u) \in {Deferred, CountLeaf(u)}
<1>1. CASE u = Undefined
  BY <1>1, CountIs, UndefinedIs DEF CountLeaf, CountLeafInArray, Items, HeldOf
<1>2. CASE u # Undefined /\ IsArray(u)
  <2>1. u.array \in Seq(Value)
    BY <1>2, ResultIs, ValuesAreResults
  <2>2. Len(u.array) \in Nat
    BY <2>1, LenProperties
  <2>3. CountLeaf(u) = Count(Len(u.array), TRUE) /\ Items(u) = u.array /\ HeldOf(u) = <<u>>
    BY <1>2 DEF CountLeaf, Items, HeldOf
  <2>4. CountLeafInArray(u) \in {Deferred, CountLeaf(u)}
    BY DEF CountLeafInArray
  <2>5. <<u>> # <<>>
    OBVIOUS
  <2> QED
    BY <2>2, <2>3, <2>4, <2>5, CountIs
<1>3. CASE u # Undefined /\ ~IsArray(u)
  <2>1. CountLeaf(u) = Count(1, TRUE) /\ Items(u) = <<u>> /\ HeldOf(u) = <<u>>
    BY <1>3 DEF CountLeaf, Items, HeldOf
  <2>2. CountLeafInArray(u) = CountLeaf(u)
    BY <1>3 DEF CountLeafInArray
  <2>3. Len(<<u>>) = 1 /\ <<u>> # <<>> /\ 1 \in Nat
    OBVIOUS
  <2> QED
    BY <2>1, <2>2, <2>3, CountIs
<1> QED
  BY <1>1, <1>2, <1>3

LEMMA CountsFold ==
    ASSUME NEW cs \in Seq(CountSet)
    PROVE  \E at \in [0 .. Len(cs) -> CountSet] :
               /\ at[0] = Count(0, FALSE)
               /\ \A k \in 1 .. Len(cs) : at[k] = AddCount(at[k - 1], cs[k])
               /\ FoldLeft(AddCount, Count(0, FALSE), cs) = at[Len(cs)]
<1> DEFINE base == Count(0, FALSE)
           S == SUBSET DOMAIN cs
           Is(it) == it = [t \in S |-> IF t = {} THEN base
                                       ELSE AddCount(it[t \ {Max(t)}], cs[Max(t)])]
           g == CHOOSE it : Is(it)
           f == [r \in CountSet |-> [x \in CountSet |-> AddCount(r, x)]]
<1>1. Steps(CountSet, CountSet, f) /\ base \in CountSet
  BY CountIs, AddCountIs DEF Steps
<1>2. \A r \in CountSet : \A x \in CountSet : f[r][x] = AddCount(r, x)
  OBVIOUS
<1>3. \A t \in S : t # {} => t \ {Max(t)} \in S /\ cs[Max(t)] \in CountSet
  BY LenProperties, GreatestOf
<1>7. FoldLeft(AddCount, base, cs) = g[DOMAIN cs]
  BY DEF FoldLeft, MapThenFoldSet
<1> HIDE DEF f, base
<1>4. PICK it \in [SUBSET DOMAIN cs -> CountSet] : FollowsFold(f, base, cs, it)
  BY <1>1, FoldExists
<1>5. Is(it)
  <2>1. \A t \in S : t # {} => it[t] = AddCount(it[t \ {Max(t)}], cs[Max(t)])
    BY <1>2, <1>3, <1>4 DEF FollowsFold
  <2>2. it[{}] = base
    BY <1>4 DEF FollowsFold
  <2> HIDE DEF S
  <2> QED
    BY <1>4, <2>1, <2>2 DEF S
<1>6. Is(g)
  <2> HIDE DEF Is
  <2> QED
    BY <1>5
<1> HIDE DEF g
<1>8. FollowsWithin(CountSet, f, base, cs, g)
  BY <1>2, <1>3, <1>6 DEF FollowsWithin
<1>9. PICK at : UnrollsTo(CountSet, f, base, cs, at, g[DOMAIN cs])
  BY <1>1, <1>8, FoldUnrolls
<1>10. \A k \in 1 .. Len(cs) : at[k] = AddCount(at[k - 1], cs[k])
  <2> SUFFICES ASSUME NEW k \in 1 .. Len(cs) PROVE at[k] = AddCount(at[k - 1], cs[k])
    OBVIOUS
  <2>1. k - 1 \in 0 .. Len(cs) /\ cs[k] \in CountSet
    BY LenProperties
  <2> QED
    BY <1>2, <1>9, <2>1 DEF UnrollsTo
<1> QED
  BY <1>7, <1>9, <1>10 DEF UnrollsTo, base

(* A count that no shape defers is of what g gives, and finds what h does.  *)
CountIsOf(c, items, held) ==
    /\ c \in CountSet
    /\ c # Deferred => c.n = Len(items) /\ (c.found <=> held # <<>>)

CountsAre(one, g, h) == \A x \in Value : CountIsOf(one[x], g[x], h[x])

LEMMA AddedCounts ==
    ASSUME NEW s \in Seq(Value), NEW g, Gives(g, Value, Value), NEW h, Gives(h, Value, Result),
           NEW one, CountsAre(one, g, h)
    PROVE  CountIsOf(FoldLeft(AddCount, Count(0, FALSE), Over(one, s)), Spread(g, s), Spread(h, s))
<1> DEFINE cs == Over(one, s)
<1>0. Len(s) \in Nat /\ DOMAIN s = 1 .. Len(s)
  BY LenProperties
<1>1. cs \in Seq(CountSet)
  BY OverType DEF CountsAre, CountIsOf
<1>2. Len(cs) = Len(s) /\ \A k \in 1 .. Len(s) : cs[k] = one[s[k]]
  BY <1>0 DEF Over
<1> HIDE DEF cs
<1>3. PICK at \in [0 .. Len(s) -> CountSet] :
          /\ at[0] = Count(0, FALSE)
          /\ \A k \in 1 .. Len(s) : at[k] = AddCount(at[k - 1], cs[k])
          /\ FoldLeft(AddCount, Count(0, FALSE), cs) = at[Len(s)]
  BY <1>1, <1>2, CountsFold
<1> DEFINE upTo(k) == SubSeq(s, 1, k)
           T == {k \in 0 .. Len(s) : CountIsOf(at[k], Spread(g, upTo(k)), Spread(h, upTo(k)))}
<1>4. 0 \in T
  <2>1. upTo(0) = <<>>
    BY PrefixGrows
  <2>2. Spread(g, <<>>) = <<>> /\ Spread(h, <<>>) = <<>> /\ Len(<<>>) = 0
    BY SpreadEmpty
  <2>3. CountIsOf(at[0], <<>>, <<>>)
    BY <1>3, <2>2, CountIs DEF CountIsOf
  <2> HIDE DEF upTo
  <2> QED
    BY <1>0, <2>1, <2>2, <2>3
<1>5. ASSUME NEW k \in 0 .. Len(s) - 1, k \in T PROVE k + 1 \in T
  <2>1. /\ k + 1 \in 1 .. Len(s) /\ k + 1 \in 0 .. Len(s) /\ (k + 1) - 1 = k
        /\ k \in 0 .. Len(s)
    BY <1>0
  <2>2. s[k + 1] \in Value /\ upTo(k + 1) = Append(upTo(k), s[k + 1]) /\ upTo(k) \in Seq(Value)
    BY <2>1, PrefixGrows
  <2>3. at[k + 1] = AddCount(at[k], one[s[k + 1]]) /\ at[k] \in CountSet
    <3>1. at[k + 1] = AddCount(at[(k + 1) - 1], cs[k + 1])
      BY <1>3, <2>1
    <3> QED
      BY <1>2, <1>3, <2>1, <3>1
  <2>4. CountIsOf(at[k], Spread(g, upTo(k)), Spread(h, upTo(k)))
    BY <1>5
  <2> HIDE DEF upTo, T
  <2> DEFINE x == s[k + 1]
             u == upTo(k)
             c == at[k]
             d == one[x]
  <2>5. x \in Value /\ u \in Seq(Value) /\ c \in CountSet
    BY <2>2, <2>3
  <2>6. CountIsOf(d, g[x], h[x]) /\ CountIsOf(c, Spread(g, u), Spread(h, u))
    BY <2>2, <2>4 DEF CountsAre
  <2> HIDE DEF x, u, c, d
  <2>7. /\ Spread(g, Append(u, x)) = Spread(g, u) \o g[x]
        /\ Spread(h, Append(u, x)) = Spread(h, u) \o h[x]
    BY <2>5, SpreadAppend
  <2>8. /\ Spread(g, u) \in Seq(Value) /\ g[x] \in Seq(Value)
        /\ Spread(h, u) \in Seq(Result) /\ h[x] \in Seq(Result)
    BY <2>5, SpreadType DEF Gives
  <2>9. d \in CountSet
    BY <2>6 DEF CountIsOf
  <2> DEFINE ga == Spread(g, u)
             gb == g[x]
             ha == Spread(h, u)
             hb == h[x]
  <2>10. Len(ga \o gb) = Len(ga) + Len(gb)
    BY <2>8, NotEmptyConcat
  <2>11. ha \o hb # <<>> <=> ha # <<>> \/ hb # <<>>
    BY <2>8, NotEmptyConcat
  <2> HIDE DEF ga, gb, ha, hb
  <2>12. CountIsOf(c, ga, ha) /\ CountIsOf(d, gb, hb)
    BY <2>6 DEF ga, gb, ha, hb
  <2>13. /\ AddCount(c, d) \in CountSet
         /\ AddCount(c, d) # Deferred => /\ c # Deferred /\ d # Deferred
                                         /\ AddCount(c, d).n = c.n + d.n
                                         /\ AddCount(c, d).found <=> c.found \/ d.found
    BY <2>5, <2>9, AddCountIs
  <2>14. CountIsOf(AddCount(c, d), ga \o gb, ha \o hb)
    BY <2>10, <2>11, <2>12, <2>13 DEF CountIsOf
  <2>15. CountIsOf(at[k + 1], Spread(g, Append(u, x)), Spread(h, Append(u, x)))
    BY <2>3, <2>7, <2>14 DEF ga, gb, ha, hb, c, d, x
  <2>16. CountIsOf(at[k + 1], Spread(g, upTo(k + 1)), Spread(h, upTo(k + 1)))
    BY <2>2, <2>15 DEF u, x
  <2> QED
    BY <2>1, <2>16 DEF T
<1> HIDE DEF T
<1>6. \A k \in 0 .. Len(s) : k \in T
  BY <1>0, <1>4, <1>5, NumbersUpTo
<1>7. Len(s) \in 0 .. Len(s) /\ upTo(Len(s)) = s
  BY <1>0, PrefixGrows
<1>8. CountIsOf(at[Len(s)], Spread(g, s), Spread(h, s))
  BY <1>6, <1>7 DEF T
<1> QED
  BY <1>3, <1>8 DEF cs

LEMMA CountInType ==
    ASSUME NEW rest, \A u \in Reached : rest[u] \in CountSet, NEW name, NEW last, NEW u \in Reached
    PROVE  CountIn(rest, name, last, u) \in CountSet
<1> DEFINE one == [x \in Value |-> CountOne(rest, name, last, x)]
<1>1. ASSUME NEW x \in Value PROVE CountOne(rest, name, last, x) \in CountSet
  <2>1. CASE IsObject(x)
    <3>1. FieldOf(x, name) \in Reached /\ ~IsArray(x)
      BY <2>1, FieldReached, ValueKinds
    <3>2. CountLeafInArray(FieldOf(x, name)) \in CountSet
      BY <3>1, CountLeafIs, CountIs
    <3>3. CASE last
      BY <2>1, <3>1, <3>2, <3>3 DEF CountOne
    <3>4. CASE ~last
      BY <2>1, <3>1, <3>4 DEF CountOne
    <3> QED
      BY <3>3, <3>4
  <2>2. CASE ~IsObject(x)
    BY <2>2, CountIs DEF CountOne
  <2> QED
    BY <2>1, <2>2
<1>2. \A x \in Value : one[x] \in CountSet /\ one[x] = CountOne(rest, name, last, x)
  BY <1>1
<1> HIDE DEF one
<1>3. CASE IsArray(u)
  <2>1. u.array \in Seq(Value) /\ ~IsObject(u)
    BY <1>3, ResultIs, ValuesAreResults, ValueKinds, UndefinedIs DEF Reached
  <2>2. Over(one, u.array) \in Seq(CountSet)
    BY <1>2, <2>1, OverType
  <2>3. CountIn(rest, name, last, u) = FoldLeft(AddCount, Count(0, FALSE), Over(one, u.array))
    <3>1. \A i \in DOMAIN u.array : one[u.array[i]] = CountOne(rest, name, last, u.array[i])
      BY <1>2, <2>1
    <3> QED
      BY <1>3, <2>1, <3>1 DEF CountIn, Over
  <2> DEFINE cs == Over(one, u.array)
  <2>4. cs \in Seq(CountSet) /\ Len(cs) \in 0 .. Len(cs)
    BY <2>2, LenProperties
  <2> HIDE DEF cs
  <2>5. FoldLeft(AddCount, Count(0, FALSE), cs) \in CountSet
    <3>1. PICK at \in [0 .. Len(cs) -> CountSet] :
              FoldLeft(AddCount, Count(0, FALSE), cs) = at[Len(cs)]
      BY <2>4, CountsFold
    <3> QED
      BY <2>4, <3>1
  <2> QED
    BY <2>3, <2>5 DEF cs
<1>4. CASE IsObject(u)
  <2>1. u \in Value
    BY <1>4, UndefinedIs DEF Reached
  <2>2. FieldOf(u, name) \in Reached /\ ~IsArray(u)
    BY <1>4, <2>1, FieldReached, ValueKinds
  <2> QED
    BY <1>4, <2>2 DEF CountIn
<1>5. CASE ~IsArray(u) /\ ~IsObject(u)
  BY <1>5, CountIs DEF CountIn
<1> QED
  BY <1>3, <1>4, <1>5

(* One name, when the counts of an object's field are of what g gives for   *)
(* the object and find what h does.                                         *)
CountsAs(rest, name, last, g, h) ==
    /\ \A x \in Value :
           /\ IsObject(x) => CountIsOf(rest[FieldOf(x, name)], g[x], h[x])
           /\ ~IsObject(x) /\ ~IsArray(x) => g[x] = <<>> /\ h[x] = <<>>
    /\ last => \A u \in Reached : rest[u] = CountLeaf(u)

LEMMA CountInIs ==
    ASSUME NEW rest, NEW name, NEW last, NEW g, NEW h, Gives(g, Value, Value),
           Gives(h, Value, Result), CountsAs(rest, name, last, g, h), NEW u \in Reached
    PROVE  CountIsOf(CountIn(rest, name, last, u), Spread(g, Items(u)), Spread(h, Items(u)))
<1> DEFINE one == [x \in Value |-> CountOne(rest, name, last, x)]
<1>0. \A x \in Value : one[x] = CountOne(rest, name, last, x)
  OBVIOUS
<1>d. \A a, b : CountIsOf(Deferred, a, b)
  BY CountIs DEF CountIsOf
<1>z. CountIsOf(Count(0, FALSE), <<>>, <<>>)
  <2>1. Len(<<>>) = 0
    OBVIOUS
  <2> QED
    BY <2>1, CountIs DEF CountIsOf
<1>1. CountsAre(one, g, h)
  <2> SUFFICES ASSUME NEW x \in Value PROVE CountIsOf(CountOne(rest, name, last, x), g[x], h[x])
    BY <1>0 DEF CountsAre
  <2>1. CASE IsObject(x)
    <3>1. FieldOf(x, name) \in Reached /\ ~IsArray(x)
      BY <2>1, FieldReached, ValueKinds
    <3>2. CountIsOf(rest[FieldOf(x, name)], g[x], h[x])
      BY <2>1 DEF CountsAs
    <3>3. CASE last
      <4>1. CountLeafInArray(FieldOf(x, name)) \in {Deferred, rest[FieldOf(x, name)]}
        BY <3>1, <3>3, CountLeafIs DEF CountsAs
      <4>2. CountOne(rest, name, last, x) = CountLeafInArray(FieldOf(x, name))
        BY <2>1, <3>1, <3>3 DEF CountOne
      <4> QED
        BY <1>d, <3>2, <4>1, <4>2
    <3>4. CASE ~last
      BY <2>1, <3>1, <3>2, <3>4 DEF CountOne
    <3> QED
      BY <3>3, <3>4
  <2>2. CASE ~IsObject(x) /\ IsArray(x)
    BY <1>d, <2>2 DEF CountOne
  <2>3. CASE ~IsObject(x) /\ ~IsArray(x)
    <3>1. CountOne(rest, name, last, x) = Count(0, FALSE)
      BY <2>3 DEF CountOne
    <3>2. g[x] = <<>> /\ h[x] = <<>>
      BY <2>3 DEF CountsAs
    <3> QED
      BY <1>z, <3>1, <3>2
  <2> QED
    BY <2>1, <2>2, <2>3
<1> HIDE DEF one
<1>2. CASE IsArray(u)
  <2>1. u.array \in Seq(Value) /\ Items(u) = u.array /\ ~IsObject(u)
    BY <1>2, ResultIs, ValuesAreResults, ValueKinds, UndefinedIs DEF Items, Reached
  <2>2. \A i \in DOMAIN u.array : one[u.array[i]] = CountOne(rest, name, last, u.array[i])
    BY <1>0, <2>1
  <2>3. CountIn(rest, name, last, u) = FoldLeft(AddCount, Count(0, FALSE), Over(one, u.array))
    BY <1>2, <2>1, <2>2 DEF CountIn, Over
  <2> DEFINE s == u.array
  <2>4. s \in Seq(Value)
    BY <2>1
  <2> HIDE DEF s
  <2>5. CountIsOf(FoldLeft(AddCount, Count(0, FALSE), Over(one, s)), Spread(g, s), Spread(h, s))
    BY <1>1, <2>4, AddedCounts
  <2> QED
    BY <2>1, <2>3, <2>5 DEF s
<1>3. CASE ~IsArray(u) /\ u \in Value
  <2>1. Items(u) = <<u>> /\ Spread(g, <<u>>) = g[u]
    BY <1>3, ValuesAreResults, SpreadOne DEF Items
  <2>2. Spread(h, <<u>>) = h[u]
    BY <1>3, SpreadOne
  <2>3. CASE IsObject(u)
    BY <1>3, <2>1, <2>2, <2>3 DEF CountIn, CountsAs
  <2>4. CASE ~IsObject(u)
    <3>1. CountIn(rest, name, last, u) = Count(0, FALSE)
      BY <1>3, <2>4 DEF CountIn
    <3>2. g[u] = <<>> /\ h[u] = <<>>
      BY <1>3, <2>4 DEF CountsAs
    <3> QED
      BY <1>z, <2>1, <2>2, <3>1, <3>2
  <2> QED
    BY <2>3, <2>4
<1>4. CASE u = Undefined
  <2>1. CountIn(rest, name, last, u) = Count(0, FALSE) /\ Items(u) = <<>>
    BY <1>4, UndefinedIs DEF CountIn, Items
  <2> QED
    BY <1>z, <2>1, SpreadEmpty
<1> QED
  BY <1>2, <1>3, <1>4 DEF Reached

(* What count_pure_path carries from one name to the next.                  *)
IsCounting(segments, F) ==
    F = [k \in 1 .. Len(segments) + 1 |-> [u \in Reached |->
            IF k = Len(segments) + 1 THEN CountLeaf(u)
            ELSE CountIn(F[k + 1], segments[k], k + 1 = Len(segments) + 1, u)]]

LEMMA CountingExists ==
    ASSUME NEW segments \in Seq(STRING) PROVE \E F : IsCounting(segments, F)
<1> DEFINE n == Len(segments)
           R == [Reached -> CountSet]
           base == [u \in Reached |-> CountLeaf(u)]
           step == [k \in 1 .. n |-> [r \in R |->
                       [u \in Reached |-> CountIn(r, segments[k], k + 1 = n + 1, u)]]]
<1>1. n \in Nat
  BY LenProperties
<1>2. base \in R
  BY CountLeafIs
<1>3. \A k \in 1 .. n : \A r \in R :
          step[k][r] = [u \in Reached |-> CountIn(r, segments[k], k + 1 = n + 1, u)]
  OBVIOUS
<1>4. Descends(n, R, step)
  <2>1. \A r \in R : \A k \in 1 .. n : \A u \in Reached :
            CountIn(r, segments[k], k + 1 = n + 1, u) \in CountSet
    BY CountInType
  <2> QED
    BY <1>3, <2>1 DEF Descends
<1>6. n = Len(segments)
  OBVIOUS
<1> HIDE DEF step, n, base
<1>7. PICK F \in [1 .. n + 1 -> R] : FollowsDown(n, base, step, F)
  <2> HIDE DEF R
  <2> QED
    BY <1>1, <1>2, <1>4, DescentExists
<1>8. \A k \in 1 .. n : F[k] = [u \in Reached |-> CountIn(F[k + 1], segments[k], k + 1 = n + 1, u)]
  BY <1>1, <1>3, <1>7 DEF FollowsDown
<1>9. F[n + 1] = [u \in Reached |-> CountLeaf(u)]
  BY <1>7 DEF FollowsDown, base
<1> DEFINE W == [k \in 1 .. n + 1 |-> [u \in Reached |->
                    IF k = n + 1 THEN CountLeaf(u)
                    ELSE CountIn(F[k + 1], segments[k], k + 1 = n + 1, u)]]
<1>10. ASSUME NEW k \in 1 .. n + 1 PROVE F[k] = W[k]
  <2>1. CASE k = n + 1
    BY <1>9, <2>1
  <2>2. CASE k # n + 1
    <3>1. k \in 1 .. n
      BY <1>1, <2>2
    <3> QED
      BY <1>8, <2>2, <3>1
  <2> QED
    BY <2>1, <2>2
<1>11. F = W
  <2>1. DOMAIN F = DOMAIN W /\ F = [k \in DOMAIN F |-> F[k]] /\ W = [k \in DOMAIN W |-> W[k]]
        /\ DOMAIN W = 1 .. n + 1
    BY <1>7
  <2> HIDE DEF W
  <2> QED
    BY <1>10, <2>1
<1>12. IsCounting(segments, F)
  BY <1>6, <1>11 DEF IsCounting
<1> QED
  BY <1>12

LEMMA CountingIs ==
    ASSUME NEW segments \in Seq(STRING), NEW v
    PROVE  \E F : IsCounting(segments, F) /\ CountPurePath(segments, v) = F[1][v]
<1> DEFINE F == CHOOSE F : IsCounting(segments, F)
<1>1. IsCounting(segments, F)
  BY CountingExists
<1>2. CountPurePath(segments, v) = F[1][v]
  BY DEF CountPurePath, IsCounting
<1> QED
  BY <1>1, <1>2

(* What a count finds, when no shape defers it: as many as the names select *)
(* and, of the last name, whether something is there (count_pure_path).     *)
LEMMA CountedIs ==
    ASSUME NEW segments \in Seq(STRING), segments # <<>>, NEW v \in Reached, NEW L,
           IsLists(segments, v, L), CountPurePath(segments, v) # Deferred
    PROVE  /\ CountPurePath(segments, v).n = Len(L[Len(segments)])
           /\ CountPurePath(segments, v).found \in BOOLEAN
           /\ CountPurePath(segments, v).found <=> EvalPath(segments, FALSE, v) # Undefined
<1> DEFINE n == Len(segments)
           gbase == Named(segments[n])
           hbase == HeldName(segments[n])
<1>0. n \in Nat /\ n # 0 /\ n = Len(segments)
  BY LenProperties, EmptySeq
<1>1. Gives(gbase, Value, Value) /\ Gives(hbase, Value, Result)
  BY NamedType, HeldNameIs
<1>b. \A x \in Value : gbase[x] = Named(segments[n])[x] /\ hbase[x] = HeldName(segments[n])[x]
  OBVIOUS
<1> HIDE DEF gbase, hbase
<1>2. PICK E : IsLevels(segments, Value, gbase, E)
  BY <1>1, LevelsExist
<1>h. PICK H : IsLevels(segments, Result, hbase, H)
  BY <1>1, LevelsExist
<1>3. PICK F : IsCounting(segments, F) /\ CountPurePath(segments, v) = F[1][v]
  BY CountingIs
<1> HIDE DEF n
<1>4. /\ \A k \in 1 .. n : \A u \in Reached :
             F[k][u] = CountIn(F[k + 1], segments[k], k + 1 = n + 1, u)
      /\ \A u \in Reached : F[n + 1][u] = CountLeaf(u)
  <2>1. \A k \in 1 .. n + 1 : F[k] = [u \in Reached |->
            IF k = n + 1 THEN CountLeaf(u)
            ELSE CountIn(F[k + 1], segments[k], k + 1 = n + 1, u)]
    BY <1>0, <1>3 DEF IsCounting
  <2>2. \A k \in 1 .. n : k \in 1 .. n + 1 /\ k # n + 1
    BY <1>0
  <2>3. n + 1 \in 1 .. n + 1
    BY <1>0
  <2>4. ASSUME NEW k \in 1 .. n, NEW u \in Reached
        PROVE  F[k][u] = CountIn(F[k + 1], segments[k], k + 1 = n + 1, u)
    <3>1. k \in 1 .. n + 1 /\ k # n + 1
      BY <2>2
    <3>2. F[k] = [t \in Reached |->
              IF k = n + 1 THEN CountLeaf(t)
              ELSE CountIn(F[k + 1], segments[k], k + 1 = n + 1, t)]
      BY <2>1, <3>1
    <3> QED
      BY <3>1, <3>2
  <2>5. F[n + 1] = [t \in Reached |->
            IF n + 1 = n + 1 THEN CountLeaf(t)
            ELSE CountIn(F[n + 1 + 1], segments[n + 1], n + 1 + 1 = n + 1, t)]
    BY <2>1, <2>3
  <2> QED
    BY <2>4, <2>5
<1> DEFINE WantG(k, u) == IF k = n + 1 THEN Items(u) ELSE Spread(E[k], Items(u))
           WantH(k, u) == IF k = n + 1 THEN HeldOf(u) ELSE Spread(H[k], Items(u))
           T == {k \in 1 .. n + 1 : \A u \in Reached :
                     CountIsOf(F[k][u], WantG(k, u), WantH(k, u))}
<1>5. n + 1 \in T
  <2>1. \A u \in Reached : CountIsOf(CountLeaf(u), Items(u), HeldOf(u))
    BY CountLeafIs DEF CountIsOf
  <2> QED
    BY <1>0, <1>4, <2>1
<1>6. ASSUME NEW k \in 1 .. n, k + 1 \in T PROVE k \in T
  <2>1. \A u \in Reached : CountIsOf(F[k + 1][u], WantG(k + 1, u), WantH(k + 1, u))
    BY <1>6
  <2>k. k \in 1 .. Len(segments) /\ k \in 1 .. n + 1 /\ k # n + 1 /\ (k = n <=> k + 1 = n + 1)
        /\ (k # n => k < Len(segments))
    BY <1>0
  <2> HIDE DEF T
  <2>2. ASSUME NEW x \in Value, IsObject(x)
        PROVE  CountIsOf(F[k + 1][FieldOf(x, segments[k])], E[k][x], H[k][x])
    <3> DEFINE u == FieldOf(x, segments[k])
    <3>1. u \in Reached
      BY <2>2, FieldReached
    <3>2. E[k][x] = WantG(k + 1, u) /\ H[k][x] = WantH(k + 1, u)
      <4>1. CASE k = n
        <5>1. E[k][x] = Named(segments[k])[x] /\ H[k][x] = HeldName(segments[k])[x]
          <6>1. E[k][x] = gbase[x]
            BY <1>0, <1>2, <4>1, LevelIs
          <6>2. H[k][x] = hbase[x]
            BY <1>0, <1>h, <4>1, LevelIs
          <6> QED
            BY <1>b, <4>1, <6>1, <6>2
        <5> QED
          BY <2>k, <2>2, <4>1, <5>1, NamedIs, HeldNameIs
      <4>2. CASE k # n
        <5>1. E[k][x] = Spread(E[k + 1], Items(FieldOf(x, segments[k])))
          BY <1>2, <2>k, <2>2, <4>2, LevelIs
        <5>2. H[k][x] = Spread(H[k + 1], Items(FieldOf(x, segments[k])))
          BY <1>h, <2>k, <2>2, <4>2, LevelIs
        <5> QED
          BY <2>k, <4>2, <5>1, <5>2
      <4> QED
        BY <4>1, <4>2
    <3> HIDE DEF WantG, WantH, u
    <3>3. CountIsOf(F[k + 1][u], E[k][x], H[k][x])
      BY <2>1, <3>1, <3>2
    <3> QED
      BY <3>3 DEF u
  <2>3. ASSUME NEW x \in Value, ~IsObject(x), ~IsArray(x)
        PROVE  E[k][x] = <<>> /\ H[k][x] = <<>>
    <3>1. CASE k = n
      <4>1. E[k][x] = gbase[x]
        BY <1>0, <1>2, <3>1, LevelIs
      <4>2. H[k][x] = hbase[x]
        BY <1>0, <1>h, <3>1, LevelIs
      <4> QED
        BY <1>b, <2>3, <4>1, <4>2, NamedIs, HeldNameIs
    <3>2. CASE k # n
      <4>1. E[k][x] = <<>>
        BY <1>2, <2>k, <2>3, <3>2, LevelIs
      <4>2. H[k][x] = <<>>
        BY <1>h, <2>k, <2>3, <3>2, LevelIs
      <4> QED
        BY <4>1, <4>2
    <3> QED
      BY <3>1, <3>2
  <2> DEFINE g == E[k]
             h == H[k]
             rest == F[k + 1]
             name == segments[k]
             last == k + 1 = n + 1
  <2>4. CountsAs(rest, name, last, g, h)
    BY <1>4, <2>2, <2>3 DEF CountsAs
  <2>5. Gives(g, Value, Value) /\ Gives(h, Value, Result)
    BY <1>2, <1>h, <2>k DEF IsLevels
  <2>6. ASSUME NEW u \in Reached PROVE CountIsOf(F[k][u], WantG(k, u), WantH(k, u))
    <3>1. /\ WantG(k, u) = Spread(g, Items(u)) /\ WantH(k, u) = Spread(h, Items(u))
          /\ F[k][u] = CountIn(rest, name, last, u)
      BY <1>4, <2>k
    <3> HIDE DEF g, h, rest, name, last, WantG, WantH
    <3>2. CountIsOf(CountIn(rest, name, last, u), Spread(g, Items(u)), Spread(h, Items(u)))
      BY <2>4, <2>5, CountInIs
    <3> QED
      BY <3>1, <3>2
  <2> QED
    BY <2>6, <2>k DEF T
<1> HIDE DEF T
<1>7. 1 \in T
  <2>1. \A k \in 1 .. n + 1 : k \in T
    BY <1>0, <1>5, <1>6, NumbersDownTo
  <2> QED
    BY <1>0, <2>1
<1>8. CountIsOf(F[1][v], Spread(E[1], Items(v)), Spread(H[1], Items(v)))
  BY <1>0, <1>7 DEF T
<1>9. Spread(E[1], Items(v)) = L[n]
  <2>1. Spread(E[1], Items(v)) = Spread(gbase, L[Len(segments) - 1])
    BY <1>2, LevelsKeep
  <2>2. L[n] = Spread(Named(segments[n]), L[n - 1])
    BY <1>0 DEF IsLists
  <2> QED
    BY <1>0, <2>1, <2>2 DEF gbase
<1>10. Spread(H[1], Items(v)) = Spread(hbase, L[n - 1])
  <2>1. Spread(H[1], Items(v)) = Spread(hbase, L[Len(segments) - 1])
    BY <1>h, LevelsKeep
  <2> QED
    BY <1>0, <2>1
<1>11. PICK at : IsWalk(segments, v, at) /\ EvalPath(segments, FALSE, v) = at[Len(segments)]
  BY PathWalk
<1> DEFINE s == L[n - 1]
           w == at[n - 1]
<1>12. Yields(s, w) /\ s \in Seq(Value)
  <2>1. n - 1 \in 0 .. Len(segments)
    BY <1>0
  <2>2. \A k \in 0 .. Len(segments) : Yields(L[k], at[k])
    BY <1>11, ListsYield
  <2> QED
    BY <2>1, <2>2 DEF IsLists
<1>13. at[n] = EvalName(segments[n], w)
  BY <1>0, <1>11 DEF IsWalk
<1> HIDE DEF s, w
<1>14. at[n] # Undefined <=> \E i \in DOMAIN s : EvalName(segments[n], s[i]) # Undefined
  BY <1>12, <1>13, NameYields
<1>15. Spread(hbase, s) # <<>> <=> \E i \in DOMAIN s : hbase[s[i]] # <<>>
  BY <1>1, <1>12, SpreadNothing
<1>16. \A i \in DOMAIN s : hbase[s[i]] # <<>> <=> EvalName(segments[n], s[i]) # Undefined
  <2>1. \A i \in DOMAIN s : s[i] \in Value
    BY <1>12
  <2> QED
    BY <1>b, <2>1, HeldNameIs
<1>17. Spread(hbase, s) # <<>> <=> at[n] # Undefined
  BY <1>14, <1>15, <1>16
<1>18. CountIsOf(F[1][v], L[n], Spread(hbase, s)) /\ F[1][v] # Deferred
  BY <1>3, <1>8, <1>9, <1>10 DEF s
<1>19. /\ F[1][v].n = Len(L[n]) /\ F[1][v].found \in BOOLEAN
       /\ F[1][v].found <=> Spread(hbase, s) # <<>>
  BY <1>18, CountIs DEF CountIsOf
<1> QED
  BY <1>0, <1>3, <1>11, <1>17, <1>19

-----------------------------------------------------------------------------
(* Documents without an array in an array *)

Nests(inside, u) ==
    CASE IsArray(u) -> \E i \in DOMAIN u.array : IsArray(u.array[i]) \/ inside[u.array[i]]
      [] IsObject(u) -> \E k \in DOMAIN u.object : inside[u.object[k]]
      [] OTHER -> FALSE

IsNesting(f) == f = [u \in Value |-> Nests(f, u)]

LEMMA NestingExists == \E f : IsNesting(f)
<1> DEFINE G == [g \in [Value -> BOOLEAN] |-> [u \in Value |-> Nests(g, u)]]
<1>1. \A g : \A u \in Value : Nests(g, u) \in BOOLEAN
  BY DEF Nests
<1>2. \A g \in [Value -> BOOLEAN] : \A u \in Value : G[g][u] = Nests(g, u)
  OBVIOUS
<1>3. \A g \in [Value -> BOOLEAN] : G[g] \in [Value -> BOOLEAN]
  BY <1>1
<1>4. ASSUME NEW g \in [Value -> BOOLEAN], NEW h \in [Value -> BOOLEAN], NEW v \in Value,
             \A u \in Value : Height[u] < Height[v] => g[u] = h[u]
      PROVE  Nests(g, v) = Nests(h, v)
  <2>1. CASE IsArray(v)
    <3>1. \A i \in DOMAIN v.array : g[v.array[i]] = h[v.array[i]]
      BY <1>4, <2>1, ItemReached
    <3> QED
      BY <2>1, <3>1, ValueKinds DEF Nests
  <2>2. CASE IsObject(v)
    <3>1. \A k \in DOMAIN v.object : g[v.object[k]] = h[v.object[k]]
      BY <1>4, <2>2, ValueKinds
    <3> QED
      BY <2>2, <3>1, ValueKinds DEF Nests
  <2>3. CASE ~IsArray(v) /\ ~IsObject(v)
    BY <2>3 DEF Nests
  <2> QED
    BY <2>1, <2>2, <2>3
<1> HIDE DEF G
<1>5. Contractive(Value, BOOLEAN, Height, G)
  <2>1. ASSUME NEW g \in [Value -> BOOLEAN], NEW h \in [Value -> BOOLEAN], NEW v \in Value,
               \A u \in Value : Height[u] < Height[v] => g[u] = h[u]
        PROVE  G[g][v] = G[h][v]
    BY <1>2, <1>4, <2>1
  <2> QED
    BY <1>3, <2>1, ValuesAreJson DEF Contractive
<1>6. PICK f \in [Value -> BOOLEAN] : f = G[f]
  <2> DEFINE B == BOOLEAN
  <2>1. Contractive(Value, B, Height, G) /\ B # {}
    BY <1>5
  <2> HIDE DEF B
  <2>2. \E f \in [Value -> B] : f = G[f]
    BY <2>1, RecursionExists
  <2> QED
    BY <2>2 DEF B
<1>7. IsNesting(f)
  BY <1>6 DEF G, IsNesting
<1> QED
  BY <1>7

(* Plain: no array, and with none in an array anywhere inside.              *)
Plain == {x \in Value : ~IsArray(x) /\ ~HasArrayInArray(x)}

LEMMA PlainInside ==
    ASSUME NEW u \in Reached, ~HasArrayInArray(u)
    PROVE  /\ Items(u) \in Seq(Plain)
           /\ IsObject(u) => \A name : /\ FieldOf(u, name) \in Reached
                                       /\ ~HasArrayInArray(FieldOf(u, name))
<1> DEFINE f == CHOOSE g : IsNesting(g)
<1>1. IsNesting(f)
  BY NestingExists
<1>2. \A x : HasArrayInArray(x) <=> Nests(f, x)
  BY DEF HasArrayInArray, Nests, IsNesting
<1> HIDE DEF f
<1>3. \A x \in Value : f[x] <=> HasArrayInArray(x)
  BY <1>1, <1>2 DEF IsNesting
<1>4. CASE u = Undefined
  <2>1. Items(u) = <<>>
    BY <1>4, UndefinedIs DEF Items
  <2> QED
    BY <1>4, <2>1, EmptySeq, UndefinedIs
<1>5. CASE u \in Value /\ IsArray(u)
  <2>1. u.array \in Seq(Value) /\ ~IsObject(u) /\ u # Undefined
    BY <1>5, ValueKinds
  <2>2. \A i \in DOMAIN u.array : u.array[i] \in Plain
    <3>1. \A i \in DOMAIN u.array : ~IsArray(u.array[i]) /\ ~f[u.array[i]]
      BY <1>2, <1>5, <2>1 DEF Nests
    <3>2. \A i \in DOMAIN u.array : u.array[i] \in Value
      BY <2>1
    <3> QED
      BY <1>3, <3>1, <3>2 DEF Plain
  <2>3. u.array \in Seq(Plain)
    <3>1. Len(u.array) \in Nat /\ u.array \in [1 .. Len(u.array) -> Value]
          /\ DOMAIN u.array = 1 .. Len(u.array)
      BY <2>1, LenProperties
    <3>2. u.array \in [1 .. Len(u.array) -> Plain]
      BY <2>2, <3>1
    <3> QED
      BY <3>1, <3>2
  <2> QED
    BY <1>5, <2>1, <2>3 DEF Items
<1>6. CASE u \in Value /\ ~IsArray(u)
  <2>1. u \in Plain /\ Items(u) = <<u>>
    BY <1>6, ValuesAreResults DEF Plain, Items
  <2>2. ASSUME IsObject(u), NEW name
        PROVE  FieldOf(u, name) \in Reached /\ ~HasArrayInArray(FieldOf(u, name))
    <3>1. \A k \in DOMAIN u.object : ~f[u.object[k]] /\ u.object[k] \in Value
      BY <1>2, <1>6, <2>2, ValueKinds DEF Nests
    <3>2. ~HasArrayInArray(Undefined)
      BY <1>2, UndefinedIs DEF Nests
    <3>3. FieldOf(u, name) = Undefined \/ \E k \in DOMAIN u.object : FieldOf(u, name) = u.object[k]
      BY DEF FieldOf
    <3>4. FieldOf(u, name) \in Reached
      BY <1>6, <2>2, FieldReached
    <3> QED
      BY <1>3, <3>1, <3>2, <3>3, <3>4
  <2>3. <<u>> \in Seq(Plain)
    BY <2>1
  <2> QED
    BY <2>1, <2>2, <2>3
<1> QED
  BY <1>4, <1>5, <1>6 DEF Reached

LEMMA ListsPlain ==
    ASSUME NEW segments \in Seq(STRING), NEW v \in Reached, ~HasArrayInArray(v), NEW L,
           IsLists(segments, v, L)
    PROVE  L[Len(segments)] \in Seq(Plain)
<1> DEFINE n == Len(segments)
           T == {k \in 0 .. n : L[k] \in Seq(Plain)}
<1>0. n \in Nat
  BY LenProperties
<1>1. 0 \in T
  BY <1>0, PlainInside DEF IsLists
<1>2. ASSUME NEW k \in 0 .. n - 1, k \in T PROVE k + 1 \in T
  <2>1. k + 1 \in 1 .. n /\ k + 1 \in 0 .. n /\ (k + 1) - 1 = k
    BY <1>0
  <2>2. L[k + 1] = Spread(Named(segments[k + 1]), L[k])
    <3>1. L[k + 1] = Spread(Named(segments[k + 1]), L[(k + 1) - 1])
      BY <2>1 DEF IsLists
    <3> QED
      BY <2>1, <3>1
  <2> DEFINE g == Named(segments[k + 1])
             s == L[k]
  <2>3. \A x \in Plain : g[x] \in Seq(Plain)
    <3> SUFFICES ASSUME NEW x \in Plain PROVE g[x] \in Seq(Plain)
      OBVIOUS
    <3>1. x \in Value /\ x \in Reached /\ ~IsArray(x) /\ ~HasArrayInArray(x)
      BY ValuesAreResults DEF Plain
    <3>2. CASE IsObject(x)
      <4>1. /\ FieldOf(x, segments[k + 1]) \in Reached
            /\ ~HasArrayInArray(FieldOf(x, segments[k + 1]))
        BY <3>1, <3>2, PlainInside
      <4> QED
        BY <3>1, <3>2, <4>1, NamedIs, PlainInside
    <3>3. CASE ~IsObject(x)
      BY <3>1, <3>3, NamedIs, EmptySeq
    <3> QED
      BY <3>2, <3>3
  <2>4. s \in Seq(Plain)
    BY <1>2
  <2> HIDE DEF g, s, T
  <2>5. Spread(g, s) \in Seq(Plain)
    BY <2>3, <2>4, SpreadType
  <2> QED
    BY <2>1, <2>2, <2>5 DEF T, g, s
<1> HIDE DEF T
<1>3. \A k \in 0 .. n : k \in T
  <2> HIDE DEF n
  <2> QED
    BY <1>0, <1>1, <1>2, NumbersUpTo
<1>4. n \in T
  BY <1>0, <1>3
<1> QED
  BY <1>4 DEF T

-----------------------------------------------------------------------------
(* Builtins on a value *)

LEMMA KindOf ==
    ASSUME NEW r \in Result, r # Undefined
    PROVE  \/ r = Null
           \/ \E b \in BOOLEAN : r = Boolean(b)
           \/ \E n \in Int : r = Number(n)
           \/ \E s \in STRING : r = Text(s)
           \/ \E s \in Seq(Value) : r = Array(s)
           \/ \E f : r = Object(f)
<1>1. IsArray(r) => r = Array(r.array) /\ r.array \in Seq(Value)
  BY ResultIs
<1>2. ~IsArray(r) => IsJson(r)
  BY ResultIs, ValuesAreJson
<1>3. ~IsArray(r) => \/ r = Null
                     \/ r = Boolean(r.boolean) /\ r.boolean \in BOOLEAN
                     \/ r = Number(r.number) /\ r.number \in Int
                     \/ r = Text(r.string) /\ r.string \in STRING
                     \/ r = Object(r.object)
  BY <1>2 DEF IsJson
<1> QED
  BY <1>1, <1>3

LEMMA PlainKinds ==
    /\ ~IsSequence(Null) /\ ~IsSequence(Undefined)
    /\ \A x : /\ ~IsSequence(Boolean(x)) /\ ~IsSequence(Number(x)) /\ ~IsSequence(Text(x))
              /\ ~IsSequence(Array(x)) /\ ~IsSequence(Object(x))
    /\ \A name, x : ~IsSequence(Primitive(name, x))
  BY DEF Null, Undefined, Boolean, Number, Text, Array, Object, Primitive, IsSequence

LEMMA KindsExclude ==
    /\ IsScalar(Null) /\ ~IsText(Null) /\ ~IsNumber(Null) /\ ~IsBoolean(Null)
    /\ ~IsArray(Null) /\ ~IsObject(Null) /\ ~IsInfinite(Null)
    /\ \A b : /\ IsScalar(Boolean(b)) /\ ~IsText(Boolean(b)) /\ ~IsNumber(Boolean(b))
              /\ IsBoolean(Boolean(b)) /\ Boolean(b).boolean = b
              /\ ~IsArray(Boolean(b)) /\ ~IsObject(Boolean(b)) /\ ~IsInfinite(Boolean(b))
              /\ ~IsError(Boolean(b))
    /\ \A n : /\ IsScalar(Number(n)) /\ ~IsText(Number(n)) /\ IsNumber(Number(n))
              /\ Number(n).number = n /\ ~IsBoolean(Number(n))
              /\ ~IsArray(Number(n)) /\ ~IsObject(Number(n))
    /\ \A s : /\ IsScalar(Text(s)) /\ IsText(Text(s)) /\ Text(s).string = s
              /\ ~IsNumber(Text(s)) /\ ~IsBoolean(Text(s))
              /\ ~IsArray(Text(s)) /\ ~IsObject(Text(s)) /\ ~IsInfinite(Text(s))
    /\ \A s : /\ ~IsScalar(Array(s)) /\ ~IsText(Array(s)) /\ ~IsNumber(Array(s))
              /\ ~IsBoolean(Array(s)) /\ IsArray(Array(s)) /\ Array(s).array = s
              /\ ~IsObject(Array(s)) /\ ~IsInfinite(Array(s))
    /\ \A f : /\ ~IsScalar(Object(f)) /\ ~IsText(Object(f)) /\ ~IsNumber(Object(f))
              /\ ~IsBoolean(Object(f)) /\ ~IsArray(Object(f)) /\ IsObject(Object(f))
              /\ Object(f).object = f /\ ~IsInfinite(Object(f))
    /\ \A code : IsError(Error(code)) /\ ~IsBoolean(Error(code))
  BY DEF Null, Boolean, Number, Text, Array, Object, Error, IsScalar, IsText, IsNumber, IsBoolean,
         IsArray, IsObject, IsInfinite, IsError

(* What a builtin of one value is lifted to, and what it is.                *)
LEMMA ApplyIs ==
    ASSUME NEW v
    PROVE  /\ ApplyFunc("type", v) = IF ~IsInfinite(v) THEN FnType(v) ELSE Deferred
           /\ ApplyFunc("string", v) =
                  IF IsScalar(v) /\ ~IsInfinite(v) THEN FnString(v) ELSE Deferred
           /\ ApplyFunc("boolean", v) =
                  IF IsScalar(v) /\ ~IsInfinite(v) THEN ToBoolean(v) ELSE Deferred
           /\ ApplyFunc("not", v) =
                  IF ~IsError(ToBoolean(v)) THEN Boolean(~ToBoolean(v).boolean) ELSE Deferred
           /\ ApplyFunc("keys", v) =
                  IF IsObject(v) THEN IntoValue(KeyTexts(v), FALSE) ELSE Deferred
           /\ ApplyFunc("values", v) =
                  IF IsObject(v) THEN Array(FieldValues(v)) ELSE Deferred
           /\ ApplyFunc("reverse", v) =
                  IF IsArray(v) THEN Array(Reverse(v.array)) ELSE Deferred
           /\ ApplyFunc("shuffle", v) =
                  IF IsArray(v) THEN Primitive("shuffle", v.array) ELSE Deferred
           /\ ApplyFunc("flatten", v) =
                  IF IsArray(v) THEN Array(FlattenRecursive(v.array)) ELSE Deferred
  BY DEF ApplyFunc, StringKinds, NumericKinds

LEMMA CallIs ==
    ASSUME NEW v
    PROVE  /\ CallFunction("type", v, {}) = FnType(v)
           /\ CallFunction("string", v, {}) = FnString(v)
           /\ CallFunction("boolean", v, {}) = FnBoolean(v)
           /\ CallFunction("not", v, {}) = FnNot(v)
           /\ CallFunction("number", v, {}) = FnNumber(v)
           /\ CallFunction("keys", v, {}) = FnKeys(v)
           /\ CallFunction("values", v, {}) = FnValues(v)
           /\ CallFunction("count", v, {}) = FnCount(v)
           /\ CallFunction("exists", v, {}) = FnExists(v)
           /\ \A name \in {"reverse", "shuffle", "flatten", "distinct"} :
                  CallFunction(name, v, {}) = FnOnArray(name, v)
           /\ \A name \in StringKinds : CallFunction(name, v, {}) = FnOnText(name, v)
           /\ \A name \in NumericKinds : CallFunction(name, v, {}) = FnOnNumber(name, v)
           /\ \A name \in Aggregates : CallFunction(name, v, {}) = FnAggregate(name, v)
  BY DEF CallFunction, StringKinds, NumericKinds, Aggregates

(* Whether an item was kept is asked by its key or by its equality.         *)
LEMMA DistinctIs ==
    ASSUME NEW s
    PROVE  FoldLeft(LAMBDA kept, item :
                        IF item \in ToSet(kept) THEN kept ELSE Append(kept, item), <<>>, s)
           = Distinct(s)
<1> DEFINE S == SUBSET DOMAIN s
           byKey(g, t) == IF t = {} THEN <<>>
                          ELSE IF s[Max(t)] \in ToSet(g[t \ {Max(t)}]) THEN g[t \ {Max(t)}]
                          ELSE Append(g[t \ {Max(t)}], s[Max(t)])
           byValue(g, t) == IF t = {} THEN <<>>
                            ELSE IF \E i \in DOMAIN g[t \ {Max(t)}] : g[t \ {Max(t)}][i] = s[Max(t)]
                            THEN g[t \ {Max(t)}]
                            ELSE Append(g[t \ {Max(t)}], s[Max(t)])
           IsByKey(g) == g = [t \in S |-> byKey(g, t)]
           IsByValue(g) == g = [t \in S |-> byValue(g, t)]
<1>1. \A g : IsByKey(g) <=> IsByValue(g)
  <2>1. \A q, x : x \in ToSet(q) <=> \E i \in DOMAIN q : q[i] = x
    BY DEF ToSet
  <2>2. \A g, t : byKey(g, t) = byValue(g, t)
    BY <2>1
  <2> HIDE DEF byKey, byValue
  <2>3. \A g : [t \in S |-> byKey(g, t)] = [t \in S |-> byValue(g, t)]
    BY <2>2
  <2> QED
    BY <2>3
<1>2. FoldLeft(LAMBDA kept, item :
                   IF item \in ToSet(kept) THEN kept ELSE Append(kept, item), <<>>, s)
      = (CHOOSE g : IsByKey(g))[DOMAIN s]
  BY DEF FoldLeft, MapThenFoldSet
<1>3. Distinct(s) = (CHOOSE g : IsByValue(g))[DOMAIN s]
  BY DEF Distinct, DeepEqual, FoldLeft, MapThenFoldSet
<1> HIDE DEF IsByKey, IsByValue
<1>4. (CHOOSE g : IsByKey(g)) = (CHOOSE g : IsByValue(g))
  BY <1>1, Zenon
<1> QED
  BY <1>2, <1>3, <1>4

LEMMA LeastOf ==
    ASSUME NEW n \in Nat, NEW t \in SUBSET (1 .. n), t # {} PROVE Min(t) \in t
<1> DEFINE m == {i \in 1 .. n : n + 1 - i \in t}
           x == n + 1 - Max(m)
<1>1. \A y \in t : n + 1 - y \in m
  OBVIOUS
<1>2. m \in SUBSET (1 .. n) /\ m # {}
  BY <1>1
<1>i. \A i \in m : i \in 1 .. n /\ n + 1 - i \in t
  OBVIOUS
<1> HIDE DEF m
<1>3. Max(m) \in m /\ \A y \in m : y <= Max(m)
  BY <1>2, GreatestOf
<1>4. x \in t /\ Max(m) \in 1 .. n
  BY <1>i, <1>3
<1>5. \A y \in t : x <= y
  <2> SUFFICES ASSUME NEW y \in t PROVE x <= y
    OBVIOUS
  <2>1. n + 1 - y <= Max(m)
    BY <1>1, <1>3
  <2> QED
    BY <1>4, <2>1
<1> QED
  BY <1>4, <1>5 DEF Min

LEMMA FirstErrorIs ==
    ASSUME NEW n \in Nat, NEW values, DOMAIN values = 1 .. n, NEW good
    PROVE  \/ FirstErrorOr(values, good) = good
           \/ IsError(FirstErrorOr(values, good))
<1> DEFINE errors == {i \in DOMAIN values : IsError(values[i])}
<1>1. CASE errors = {}
  BY <1>1 DEF FirstErrorOr
<1>2. CASE errors # {}
  <2>1. errors \in SUBSET (1 .. n)
    OBVIOUS
  <2>2. FirstErrorOr(values, good) = values[Min(errors)]
    BY <1>2 DEF FirstErrorOr
  <2>3. \A i \in errors : IsError(values[i])
    OBVIOUS
  <2> HIDE DEF errors
  <2>4. Min(errors) \in errors
    BY <1>2, <2>1, LeastOf
  <2> QED
    BY <2>2, <2>3, <2>4
<1> QED
  BY <1>1, <1>2

LEMMA NoErrors ==
    ASSUME NEW values, \A i \in DOMAIN values : ~IsError(values[i]), NEW good
    PROVE  FirstErrorOr(values, good) = good
<1>1. {i \in DOMAIN values : IsError(values[i])} = {}
  OBVIOUS
<1> QED
  BY <1>1 DEF FirstErrorOr

(* The truth of a value is a boolean or an error.                           *)
LEMMA TruthIs ==
    ASSUME NEW r \in Result, r # Undefined
    PROVE  /\ IsError(ToBoolean(r)) \/ IsBoolean(ToBoolean(r))
           /\ ~IsArray(r) => ~IsSequence(ToBoolean(r))
<1> DEFINE Cast(b) == \/ \E code : b = Error(code)
                      \/ \E x : b = Boolean(x)
<1>1. \E inside : ToBoolean(r) = TruthIn(inside, r)
  BY DEF ToBoolean
<1>2. PICK inside : ToBoolean(r) = TruthIn(inside, r)
  BY <1>1
<1>3. CASE IsArray(r)
  <2> DEFINE truths == [i \in DOMAIN r.array |-> inside[r.array[i]]]
             good == Boolean(\E i \in DOMAIN truths : truths[i].boolean)
  <2>1. r.array \in Seq(Value)
    BY <1>3, ResultIs
  <2>2. Len(r.array) \in Nat /\ DOMAIN truths = 1 .. Len(r.array)
    BY <2>1, LenProperties
  <2>3. ToBoolean(r) = FirstErrorOr(truths, good)
    BY <1>2, <1>3 DEF TruthIn, AnyTrue
  <2>4. IsBoolean(good)
    BY KindsExclude
  <2> HIDE DEF truths, good
  <2>5. FirstErrorOr(truths, good) = good \/ IsError(FirstErrorOr(truths, good))
    BY <2>2, FirstErrorIs
  <2> QED
    BY <1>3, <2>3, <2>4, <2>5
<1>4. CASE ~IsArray(r)
  <2>1. ToBoolean(r) = Truth(r)
    BY <1>2, <1>4 DEF TruthIn
  <2>2. Cast(Truth(r))
    <3>1. r = Null => Truth(r) = Boolean(FALSE)
      BY KindsExclude DEF Truth
    <3>2. \A b \in BOOLEAN : r = Boolean(b) => Truth(r) = r
      BY KindsExclude DEF Truth
    <3>3. \A n \in Int : r = Number(n) => Truth(r) = Error("D1001")
                              \/ Truth(r) = Boolean(r \notin {Number(0), NotANumber})
      BY KindsExclude DEF Truth
    <3>4. \A s \in STRING : r = Text(s) => Truth(r) = Boolean(r.string # "")
      BY KindsExclude DEF Truth
    <3>5. \A f : r = Object(f) => Truth(r) = Boolean(DOMAIN r.object # {})
      BY KindsExclude DEF Truth
    <3>6. \A s \in Seq(Value) : r # Array(s)
      BY <1>4, KindsExclude
    <3> QED
      BY <3>1, <3>2, <3>3, <3>4, <3>5, <3>6, KindOf
  <2>3. \A code : ~IsSequence(Error(code))
    BY DEF Error, IsSequence
  <2> QED
    BY <2>1, <2>2, <2>3, KindsExclude, PlainKinds
<1> QED
  BY <1>3, <1>4

\* The builtins that are applied to the value of a path.
Applied == FastKinds \ (Aggregates \cup {"count", "exists"})

LEMMA AppliedIs ==
    ASSUME NEW name \in Applied
    PROVE  \/ name \in StringKinds \/ name \in NumericKinds
           \/ name \in {"reverse", "shuffle", "flatten", "distinct"}
           \/ name \in {"type", "string", "boolean", "not", "number", "keys", "values"}
  BY DEF Applied, FastKinds

(* Of what is undefined they all are undefined.                             *)
LEMMA NothingApplied ==
    ASSUME NEW name \in Applied
    PROVE  Collapsed(CallFunction(name, Undefined, {})) = Undefined
<1>0. Collapsed(Undefined) = Undefined /\ ~IsBoolean(Undefined)
  BY DEF Collapsed, IsSequence, IsBoolean, Undefined
<1>u. /\ ~IsInfinite(Undefined) /\ ~IsText(Undefined) /\ ~IsNumber(Undefined)
      /\ Undefined # Null
  BY DEF IsInfinite, Infinity, Number, IsText, IsNumber, Null, Undefined
<1>1. FnType(Undefined) = Undefined /\ FnString(Undefined) = Undefined
  BY <1>0, <1>u DEF FnType, FnString
<1>2. FnBoolean(Undefined) = Undefined /\ FnNot(Undefined) = Undefined
  BY <1>0 DEF FnBoolean, FnNot
<1>3. FnNumber(Undefined) = Undefined /\ FnKeys(Undefined) = Undefined
  BY UndefinedIs DEF FnNumber, FnKeys, IsBoolean, IsText, Undefined
<1>4. FnValues(Undefined) = Undefined
  BY UndefinedIs DEF FnValues
<1>5. /\ FnOnArray(name, Undefined) = Undefined
      /\ FnOnText(name, Undefined) = Undefined
      /\ FnOnNumber(name, Undefined) = Undefined
  <2>1. FnOnArray(name, Undefined) = Undefined
    BY DEF FnOnArray
  <2>2. FnOnText(name, Undefined) = Undefined
    BY DEF FnOnText, IsText, Undefined
  <2>3. FnOnNumber(name, Undefined) = Undefined
    BY <1>u DEF FnOnNumber
  <2> QED
    BY <2>1, <2>2, <2>3
<1>6. CASE name \in StringKinds \/ name \in NumericKinds
  BY <1>0, <1>5, <1>6, CallIs
<1>7. CASE name \in {"reverse", "shuffle", "flatten", "distinct"}
  BY <1>0, <1>5, <1>7, CallIs
<1>8. CASE name \in {"type", "string", "boolean", "not", "number", "keys", "values"}
  BY <1>0, <1>1, <1>2, <1>3, <1>4, <1>8, CallIs
<1> QED
  BY <1>6, <1>7, <1>8, AppliedIs

(* One lemma for each kind of builtin: it defers, or answers as the call.   *)
LEMMA TextApplied ==
    ASSUME NEW name \in StringKinds, NEW v \in Result, v # Undefined
    PROVE  ApplyFunc(name, v) \in {Deferred, Collapsed(CallFunction(name, v, {}))}
<1>1. ApplyFunc(name, v) = IF IsText(v) THEN Primitive(name, v) ELSE Deferred
  BY DEF ApplyFunc, StringKinds, NumericKinds
<1>2. IsText(v) => CallFunction(name, v, {}) = Primitive(name, v)
  BY CallIs DEF FnOnText
<1> QED
  BY <1>1, <1>2, PlainKinds DEF Collapsed

LEMMA NumberApplied ==
    ASSUME NEW name \in NumericKinds, NEW v \in Result, v # Undefined
    PROVE  ApplyFunc(name, v) \in {Deferred, Collapsed(CallFunction(name, v, {}))}
<1>1. ApplyFunc(name, v) = IF IsNumber(v) /\ (name = "sqrt" => v.number >= 0)
                           THEN Primitive(name, v) ELSE Deferred
  BY DEF ApplyFunc, StringKinds, NumericKinds
<1>2. IsNumber(v) => v.number \in Int
  <2>1. ~IsNumber(Null) /\ \A b : ~IsNumber(Boolean(b)) /\ ~IsNumber(Text(b))
                                  /\ ~IsNumber(Array(b)) /\ ~IsNumber(Object(b))
                                  /\ Number(b).number = b
    BY KindsExclude
  <2> QED
    BY <2>1, KindOf
<1>3. ASSUME IsNumber(v), name = "sqrt" => v.number >= 0
      PROVE  CallFunction(name, v, {}) = Primitive(name, v)
  <2>1. CallFunction(name, v, {}) = FnOnNumber(name, v)
    BY CallIs
  <2>2. ~(name = "sqrt" /\ v.number < 0)
    BY <1>2, <1>3
  <2> QED
    BY <1>3, <2>1, <2>2 DEF FnOnNumber
<1> QED
  BY <1>1, <1>3, PlainKinds DEF Collapsed

LEMMA ArrayApplied ==
    ASSUME NEW name \in {"reverse", "shuffle", "flatten", "distinct"}, NEW v \in Result, v # Undefined
    PROVE  ApplyFunc(name, v) \in {Deferred, Collapsed(CallFunction(name, v, {}))}
<1>1. CallFunction(name, v, {}) = FnOnArray(name, v)
  BY CallIs
<1>2. CASE name = "distinct"
  <2>1. ApplyFunc(name, v) =
            IF IsArray(v) /\ \A i \in DOMAIN v.array : IsScalar(v.array[i])
            THEN Array(FoldLeft(LAMBDA kept, item :
                                    IF item \in ToSet(kept) THEN kept ELSE Append(kept, item),
                                <<>>, v.array))
            ELSE Deferred
    BY <1>2 DEF ApplyFunc, StringKinds, NumericKinds
  <2>2. ApplyFunc(name, v) =
            IF IsArray(v) /\ \A i \in DOMAIN v.array : IsScalar(v.array[i])
            THEN Array(Distinct(v.array)) ELSE Deferred
    BY <2>1, DistinctIs
  <2>3. IsArray(v) => FnOnArray(name, v) = Array(Distinct(v.array))
    BY <1>2 DEF FnOnArray
  <2> QED
    BY <1>1, <2>2, <2>3, PlainKinds DEF Collapsed
<1>3. CASE name = "flatten"
  <2>1. IsArray(v) => FnOnArray(name, v) = Array(FlattenRecursive(v.array))
    BY <1>3 DEF FnOnArray
  <2> QED
    BY <1>1, <1>3, <2>1, ApplyIs, PlainKinds DEF Collapsed
<1>4. CASE name = "reverse"
  <2>1. IsArray(v) => FnOnArray(name, v) = Array(Reverse(v.array))
    BY <1>4 DEF FnOnArray
  <2> QED
    BY <1>1, <1>4, <2>1, ApplyIs, PlainKinds DEF Collapsed
<1>5. CASE name = "shuffle"
  <2>1. IsArray(v) => FnOnArray(name, v) = Primitive("shuffle", v.array)
    BY <1>5 DEF FnOnArray
  <2> QED
    BY <1>1, <1>5, <2>1, ApplyIs, PlainKinds DEF Collapsed
<1> QED
  BY <1>2, <1>3, <1>4, <1>5

LEMMA CastApplied ==
    ASSUME NEW name \in {"type", "string", "boolean", "not", "number"}, NEW v \in Result,
           v # Undefined
    PROVE  ApplyFunc(name, v) \in {Deferred, Collapsed(CallFunction(name, v, {}))}
<1>1. CASE name = "type"
  <2>1. ~IsInfinite(v) => FnType(v) = Text(CHOOSE variant \in DOMAIN v : TRUE)
    BY DEF FnType
  <2> QED
    BY <1>1, <2>1, ApplyIs, CallIs, PlainKinds DEF Collapsed
<1>2. CASE name = "string"
  <2>1. ASSUME IsScalar(v), ~IsInfinite(v) PROVE ~IsSequence(FnString(v))
    <3>1. CASE IsText(v)
      <4>1. FnString(v) = v /\ \E s : v = Text(s)
        BY <2>1, <3>1, KindOf, KindsExclude DEF FnString
      <4> QED
        BY <4>1, PlainKinds
    <3>2. CASE ~IsText(v)
      <4>1. \/ FnString(v) = Primitive("format_float", v) \/ FnString(v) = Primitive("stringify", v)
            \/ \E s : FnString(v) = Text(s)
        <5>1. CASE IsNumber(v)
          <6>1. ~IsBoolean(v) /\ v # Null
            BY <5>1, KindOf, KindsExclude
          <6> QED
            BY <2>1, <3>2, <5>1, <6>1 DEF FnString
        <5>2. CASE IsBoolean(v)
          <6>1. ~IsNumber(v) /\ v # Null
            BY <5>2, KindOf, KindsExclude
          <6> QED
            BY <2>1, <3>2, <5>2, <6>1 DEF FnString
        <5>3. CASE ~IsNumber(v) /\ ~IsBoolean(v)
          BY <2>1, <3>2, <5>3 DEF FnString
        <5> QED
          BY <5>1, <5>2, <5>3
      <4> QED
        BY <4>1, PlainKinds
    <3> QED
      BY <3>1, <3>2
  <2> QED
    BY <1>2, <2>1, ApplyIs, CallIs DEF Collapsed
<1>3. CASE name = "boolean"
  <2>1. IsScalar(v) => ~IsArray(v)
    BY KindOf, KindsExclude
  <2>2. IsScalar(v) => ~IsSequence(ToBoolean(v))
    BY <2>1, TruthIs
  <2>3. CallFunction(name, v, {}) = ToBoolean(v)
    BY <1>3, CallIs DEF FnBoolean
  <2> QED
    BY <1>3, <2>2, <2>3, ApplyIs DEF Collapsed
<1>4. CASE name = "not"
  <2>1. ~IsError(ToBoolean(v)) => FnNot(v) = Boolean(~ToBoolean(v).boolean)
    BY TruthIs DEF FnNot, FnBoolean
  <2> QED
    BY <1>4, <2>1, ApplyIs, CallIs, PlainKinds DEF Collapsed
<1>5. CASE name = "number"
  <2>1. CallFunction(name, v, {}) = FnNumber(v)
    BY <1>5, CallIs
  <2>2. IsNumber(v) => FnNumber(v) = v /\ ~IsText(v) /\ ~IsBoolean(v) /\ ~IsSequence(v)
    <3>1. IsNumber(v) => \E n : v = Number(n)
      BY KindOf, KindsExclude
    <3>2. IsNumber(v) => ~IsText(v) /\ ~IsBoolean(v) /\ ~IsSequence(v)
      BY <3>1, KindsExclude, PlainKinds
    <3> QED
      BY <3>2 DEF FnNumber
  <2>3. IsBoolean(v) => ~IsText(v) /\ ~IsNumber(v) /\ \E n : FnNumber(v) = Number(n)
    <3>1. IsBoolean(v) => ~IsText(v) /\ ~IsNumber(v)
      BY KindOf, KindsExclude
    <3> QED
      BY <3>1 DEF FnNumber
  <2>4. ASSUME IsText(v), v.string \in DOMAIN Decimal
        PROVE  FnNumber(v) = Number(Decimal[v.string]) /\ ~IsNumber(v) /\ ~IsBoolean(v)
    <3>1. ~IsNumber(v) /\ ~IsBoolean(v)
      BY <2>4, KindOf, KindsExclude
    <3>2. v.string \in DOMAIN Castable /\ Castable[v.string] = Decimal[v.string]
      BY <2>4 DEF Decimal, Castable
    <3> QED
      BY <2>4, <3>1, <3>2 DEF FnNumber
  <2>5. ~IsSequence(FnNumber(v)) \/ ~(IsNumber(v) \/ IsBoolean(v)
                                      \/ (IsText(v) /\ v.string \in DOMAIN Decimal))
    BY <2>2, <2>3, <2>4, PlainKinds
  <2>6. ApplyFunc(name, v) =
            IF IsNumber(v) \/ IsBoolean(v) THEN FnNumber(v)
            ELSE IF IsText(v) /\ v.string \in DOMAIN Decimal THEN Number(Decimal[v.string])
            ELSE Deferred
    <3>1. CASE IsNumber(v) \/ IsBoolean(v)
      <4>1. ~IsText(v)
        BY <2>2, <2>3, <3>1
      <4> QED
        BY <1>5, <3>1, <4>1 DEF ApplyFunc, StringKinds, NumericKinds
    <3>2. CASE ~(IsNumber(v) \/ IsBoolean(v))
      BY <1>5, <3>2 DEF ApplyFunc, StringKinds, NumericKinds
    <3> QED
      BY <3>1, <3>2
  <2> QED
    BY <2>1, <2>4, <2>5, <2>6 DEF Collapsed
<1> QED
  BY <1>1, <1>2, <1>3, <1>4, <1>5

LEMMA FieldsApplied ==
    ASSUME NEW name \in {"keys", "values"}, NEW v \in Result, v # Undefined
    PROVE  ApplyFunc(name, v) \in {Deferred, Collapsed(CallFunction(name, v, {}))}
<1>1. IsObject(v) => ~IsArray(v)
  BY KindOf, KindsExclude
<1>2. CASE name = "keys"
  <2>1. IsObject(v) => FnKeys(v) = Sequence(KeyTexts(v), FALSE)
    BY <1>1 DEF FnKeys
  <2>2. \A s : Collapsed(Sequence(s, FALSE)) = IntoValue(s, FALSE)
    BY DEF Collapsed, Sequence, IsSequence
  <2> QED
    BY <1>2, <2>1, <2>2, ApplyIs, CallIs
<1>3. CASE name = "values"
  <2>1. IsObject(v) => FnValues(v) = Array(FieldValues(v))
    BY <1>1 DEF FnValues
  <2> QED
    BY <1>3, <2>1, ApplyIs, CallIs, PlainKinds DEF Collapsed
<1> QED
  BY <1>2, <1>3

LEMMA AppliedFaithful ==
    ASSUME NEW name \in Applied, NEW v \in Result
    PROVE  (IF v = Undefined THEN Undefined ELSE ApplyFunc(name, v))
               \in {Deferred, Collapsed(CallFunction(name, v, {}))}
<1>1. CASE v = Undefined
  BY <1>1, NothingApplied
<1>2. CASE v # Undefined
  <2>1. ApplyFunc(name, v) \in {Deferred, Collapsed(CallFunction(name, v, {}))}
    BY <1>2, AppliedIs, TextApplied, NumberApplied, ArrayApplied, CastApplied, FieldsApplied
  <2> QED
    BY <1>2, <2>1
<1> QED
  BY <1>1, <1>2

(* A function over the leaves of a path answers as it does on its value, or *)
(* on that value as an array.                                               *)
LEMMA AggregateFaithful ==
    ASSUME NEW name \in Aggregates, NEW segments \in Seq(STRING), segments # <<>>,
           NEW v \in Reached, NEW arg,
           arg \in {EvalPath(segments, FALSE, v), Array(Items(EvalPath(segments, FALSE, v)))}
    PROVE  EvalAggregate(name, segments, v) \in {Deferred, Collapsed(CallFunction(name, arg, {}))}
<1> DEFINE val == EvalPath(segments, FALSE, v)
           l == FoldPurePath(segments, v)
           values == l.values
           numbers == [i \in DOMAIN values |-> values[i].number]
<1>1. val \in Result
  BY PathResult
<1>2. l.clean => Yields(values, val)
  BY FoldedIs
<1>3. arg \in {val, Array(Items(val))}
  OBVIOUS
<1>4. EvalAggregate(name, segments, v) =
          IF FoldAnswers(name, l) THEN AggregateOf(name, numbers) ELSE Deferred
  <2>1. name \in {"sum", "max", "min", "average"}
    BY DEF Aggregates
  <2>2. CASE name = "sum"
    BY <2>2 DEF EvalAggregate, AggregateOf, SumOf
  <2>3. CASE name = "max"
    BY <2>3 DEF EvalAggregate, AggregateOf
  <2>4. CASE name = "min"
    BY <2>4 DEF EvalAggregate, AggregateOf
  <2>5. CASE name = "average"
    BY <2>5 DEF EvalAggregate, AggregateOf, SumOf
  <2> QED
    BY <2>1, <2>2, <2>3, <2>4, <2>5
<1>5. FoldAnswers(name, l) <=> /\ l.clean
                               /\ \A i \in DOMAIN values : IsNumber(values[i])
                               /\ name = "sum" => values # <<>>
  BY DEF FoldAnswers
<1>6. CallFunction(name, arg, {}) = FnAggregate(name, arg)
  BY CallIs
<1>n. \A r \in Result : IsNumber(r) => r # Undefined /\ ~IsArray(r)
  BY KindOf, KindsExclude, UndefinedIs DEF IsNumber, Undefined
<1> HIDE DEF val, l, numbers
<1> SUFFICES ASSUME FoldAnswers(name, l)
             PROVE  AggregateOf(name, numbers) = Collapsed(FnAggregate(name, arg))
  BY <1>4, <1>6
<1>7. \A i \in DOMAIN values : IsNumber(values[i])
  BY <1>5
<1>8. Yields(values, val) /\ values \in Seq(Value)
  BY <1>2, <1>5 DEF Yields
<1>9. \/ val = Undefined /\ values = <<>>
      \/ val # Undefined /\ IsArray(val) /\ val.array = values
      \/ val # Undefined /\ ~IsArray(val) /\ values = <<val>> /\ IsNumber(val)
  <2>1. CASE val = Undefined /\ Items(val) = values
    BY <2>1, UndefinedIs DEF Items
  <2>2. CASE IsArray(val) /\ Items(val) = values
    <3>1. val # Undefined
      BY <2>2, UndefinedIs
    <3> QED
      BY <2>2, <3>1 DEF Items
  <2>3. CASE Len(values) = 1 /\ val = values[1]
    <3>1. values = <<val>> /\ DOMAIN values = {1} /\ values[1] = val
      BY <1>8, <2>3, OneItem
    <3>2. IsNumber(val)
      BY <1>7, <3>1
    <3> QED
      BY <1>1, <1>n, <3>1, <3>2
  <2>4. CASE Items(val) = values /\ val # Undefined /\ ~IsArray(val)
    <3>1. values = <<val>>
      BY <2>4 DEF Items
    <3>2. 1 \in DOMAIN <<val>> /\ <<val>>[1] = val
      OBVIOUS
    <3> QED
      BY <1>7, <2>4, <3>1, <3>2
  <2> HIDE DEF values
  <2> QED
    BY <1>8, <2>1, <2>2, <2>3, <2>4 DEF Yields
<1>10. ~IsSequence(AggregateOf(name, numbers))
  <2>1. \A t, c : ~IsSequence(Quotient(t, c))
    BY DEF Quotient, IsSequence
  <2>2. name \in {"sum", "max", "min", "average"}
    BY DEF Aggregates
  <2> QED
    BY <2>1, <2>2, PlainKinds DEF AggregateOf
<1>11. ASSUME IsArray(arg), arg.array = values, ~IsNumber(arg), arg # Undefined
       PROVE  AggregateOf(name, numbers) = Collapsed(FnAggregate(name, arg))
  <2>1. MatchesNumberArray(arg)
    BY <1>7, <1>11 DEF MatchesNumberArray
  <2>2. NumberArgs(arg) = numbers
    BY <1>11 DEF NumberArgs, numbers
  <2>3. FnAggregate(name, arg) = AggregateOf(name, numbers)
    BY <1>11, <2>1, <2>2 DEF FnAggregate
  <2> QED
    BY <1>10, <2>3 DEF Collapsed
<1>12. CASE arg = Undefined /\ values = <<>>
  <2>1. numbers = <<>>
    BY <1>12 DEF numbers
  <2>2. name # "sum"
    BY <1>5, <1>12
  <2>3. AggregateOf(name, numbers) = Undefined
    BY <2>1, <2>2 DEF AggregateOf
  <2>4. ~MatchesNumberArray(Undefined)
    BY UndefinedIs DEF MatchesNumberArray, IsNumber, Undefined
  <2>5. FnAggregate(name, arg) = Undefined
    BY <1>12, <2>4 DEF FnAggregate
  <2> QED
    BY <2>3, <2>5, PlainKinds DEF Collapsed
<1>13. CASE arg # Undefined /\ ~IsArray(arg) /\ values = <<arg>> /\ IsNumber(arg)
  <2>1. MatchesNumberArray(arg)
    BY <1>13 DEF MatchesNumberArray
  <2>2. NumberArgs(arg) = <<arg.number>>
    BY <1>13 DEF NumberArgs
  <2>3. numbers = <<arg.number>>
    BY <1>13 DEF numbers
  <2>4. FnAggregate(name, arg) = AggregateOf(name, numbers)
    BY <1>13, <2>1, <2>2, <2>3 DEF FnAggregate
  <2> QED
    BY <1>10, <2>4 DEF Collapsed
<1>14. CASE arg = Array(Items(val))
  <2>1. Items(val) = values
    BY <1>9, UndefinedIs DEF Items
  <2>2. IsArray(arg) /\ arg.array = values /\ ~IsNumber(arg) /\ arg # Undefined
    BY <1>14, <2>1, KindsExclude, ArrayIs
  <2> QED
    BY <1>11, <2>2
<1>15. CASE arg = val
  <2>1. IsArray(val) => ~IsNumber(val)
    BY <1>1, <1>n
  <2> QED
    BY <1>9, <1>11, <1>12, <1>13, <1>15, <2>1
<1> QED
  BY <1>3, <1>14, <1>15

LEMMA CountOfItems ==
    ASSUME NEW r \in Result, NEW arg \in {r, Array(Items(r))}
    PROVE  Collapsed(FnCount(arg)) = Number(Len(Items(r)))
<1>1. \A x : Collapsed(Number(x)) = Number(x)
  BY PlainKinds DEF Collapsed
<1>2. CASE arg = Array(Items(r))
  BY <1>1, <1>2, ArrayIs DEF FnCount
<1>3. CASE arg = r
  <2>1. CASE r = Undefined
    <3>1. Items(r) = <<>> /\ Len(<<>>) = 0
      BY <2>1, UndefinedIs DEF Items
    <3> QED
      BY <1>1, <1>3, <2>1, <3>1, UndefinedIs DEF FnCount
  <2>2. CASE r # Undefined /\ IsArray(r)
    BY <1>1, <1>3, <2>2 DEF FnCount, Items
  <2>3. CASE r # Undefined /\ ~IsArray(r)
    <3>1. Items(r) = <<r>> /\ Len(<<r>>) = 1
      BY <2>3 DEF Items
    <3> QED
      BY <1>1, <1>3, <2>3, <3>1 DEF FnCount
  <2> QED
    BY <2>1, <2>2, <2>3
<1> QED
  BY <1>2, <1>3

(* A count without building what is counted is exact when no array lies in  *)
(* an array.                                                                *)
LEMMA CountFaithful ==
    ASSUME NEW segments \in Seq(STRING), segments # <<>>, NEW v \in Reached, ~HasArrayInArray(v),
           NEW arg,
           arg \in {EvalPath(segments, FALSE, v), Array(Items(EvalPath(segments, FALSE, v)))}
    PROVE  EvalCount(segments, v) = Collapsed(CallFunction("count", arg, {}))
<1> DEFINE val == EvalPath(segments, FALSE, v)
           c == CountPurePath(segments, v)
<1>1. val \in Result /\ EvalPurePath(segments, v) = val
  BY PathResult
<1>2. Collapsed(CallFunction("count", arg, {})) = Number(Len(Items(val)))
  BY <1>1, CallIs, CountOfItems
<1>3. CASE c = Deferred
  <2>1. EvalCount(segments, v) = FnCount(val)
    BY <1>1, <1>3 DEF EvalCount, IsCount
  <2>2. Collapsed(FnCount(val)) = FnCount(val)
    BY PlainKinds DEF Collapsed, FnCount
  <2> QED
    BY <1>1, <1>2, <2>1, <2>2, CountOfItems
<1>4. CASE c # Deferred
  <2>1. PICK L : IsLists(segments, v, L)
    BY ListsExist
  <2>2. PICK at : IsWalk(segments, v, at) /\ val = at[Len(segments)]
    BY PathWalk
  <2> DEFINE s == L[Len(segments)]
  <2>3. Yields(s, val)
    <3>1. Len(segments) \in 0 .. Len(segments)
      BY LenProperties
    <3>2. \A k \in 0 .. Len(segments) : Yields(L[k], at[k])
      BY <2>1, <2>2, ListsYield
    <3> QED
      BY <2>2, <3>1, <3>2
  <2>4. s \in Seq(Plain)
    BY <2>1, ListsPlain
  <2>5. EvalCount(segments, v) = Number(Len(s))
    <3>1. c.n = Len(s)
      BY <1>4, <2>1, CountedIs
    <3> QED
      BY <1>4, <3>1 DEF EvalCount, IsCount
  <2> HIDE DEF s, val
  <2>6. Items(val) = s
    <3>1. CASE Len(s) = 1 /\ val = s[1]
      <4>1. s = <<val>> /\ val \in Plain
        BY <2>4, <3>1, OneItem
      <4>2. ~IsArray(val) /\ val # Undefined
        BY <4>1, ValuesAreResults DEF Plain
      <4> QED
        BY <4>1, <4>2 DEF Items
    <3> QED
      BY <2>3, <3>1 DEF Yields
  <2> QED
    BY <1>2, <2>5, <2>6
<1> QED
  BY <1>3, <1>4

LEMMA ExistsFaithful ==
    ASSUME NEW segments \in Seq(STRING), segments # <<>>, NEW v \in Reached
    PROVE  EvalExists(segments, v) =
               Collapsed(CallFunction("exists", EvalPath(segments, FALSE, v), {}))
<1> DEFINE val == EvalPath(segments, FALSE, v)
           c == CountPurePath(segments, v)
<1>1. EvalPurePath(segments, v) = val
  BY PathResult
<1>2. Collapsed(CallFunction("exists", val, {})) = Boolean(val # Undefined)
  BY CallIs, PlainKinds DEF Collapsed, FnExists
<1>3. CASE c = Deferred
  BY <1>1, <1>2, <1>3 DEF EvalExists, IsCount
<1>4. CASE c # Deferred
  <2>1. PICK L : IsLists(segments, v, L)
    BY ListsExist
  <2>2. c.found \in BOOLEAN /\ (c.found <=> val # Undefined)
    BY <1>4, <2>1, CountedIs
  <2>3. c.found = (val # Undefined)
    BY <2>2
  <2>4. EvalExists(segments, v) = Boolean(c.found)
    BY <1>4 DEF EvalExists, IsCount
  <2> QED
    BY <1>2, <2>3, <2>4
<1> QED
  BY <1>3, <1>4

-----------------------------------------------------------------------------
(* Calls that are lifted *)

(* An array constructor of one path is the array of what the path selects.  *)
LEMMA SpliceOne ==
    ASSUME NEW r \in Result, NEW p, p.kind # "array"
    PROVE  EvalArrayCons(<<p>>, <<r>>) = Array(Items(r))
<1> DEFINE spliced == [i \in DOMAIN <<r>> |->
               CASE <<r>>[i] = Undefined -> <<>>
                 [] IsArray(<<r>>[i]) /\ <<p>>[i].kind # "array" -> <<r>>[i].array
                 [] OTHER -> <<<<r>>[i]>>]
<1>1. EvalArrayCons(<<p>>, <<r>>) = FirstErrorOr(<<r>>, Array(FlattenSeq(spliced)))
  BY DEF EvalArrayCons
<1>2. DOMAIN <<r>> = {1} /\ <<r>>[1] = r /\ <<p>>[1] = p
  OBVIOUS
<1>3. FirstErrorOr(<<r>>, Array(FlattenSeq(spliced))) = Array(FlattenSeq(spliced))
  <2> HIDE DEF spliced
  <2>1. ~IsError(r)
    BY ResultIs
  <2> QED
    BY <1>2, <2>1, NoErrors
<1>4. spliced = [i \in DOMAIN <<r>> |-> ItemsOf[<<r>>[i]]]
  <2>1. (CASE r = Undefined -> <<>>
          [] IsArray(r) /\ p.kind # "array" -> r.array
          [] OTHER -> <<r>>) = Items(r)
    BY UndefinedIs DEF Items
  <2>2. ItemsOf[r] = Items(r)
    BY DEF ItemsOf
  <2> QED
    BY <1>2, <2>1, <2>2
<1>5. FlattenSeq(spliced) = Items(r)
  <2>1. Spread(ItemsOf, <<r>>) = ItemsOf[r]
    BY ItemsOfType, SpreadOne
  <2> HIDE DEF spliced
  <2> QED
    BY <1>4, <2>1 DEF Spread, ItemsOf
<1> QED
  BY <1>1, <1>3, <1>5

Lifts(e) == TriesFunction(e) /\ (e.name \in Aggregates \cup {"count"} => ~GroupedArgument(e))

LEMMA CallShape ==
    ASSUME NEW e \in Exprs, TriesFunction(e)
    PROVE  /\ e.kind = "function" /\ e.postfix = "none" /\ e.name \in FastKinds
           /\ DOMAIN e.arguments = 1 .. Len(e.arguments)
           /\ Len(e.arguments) = IF e.name = "contains" THEN 2 ELSE 1
           /\ \A i \in DOMAIN e.arguments : IsArgument(e.arguments[i])
           /\ 1 \in DOMAIN e.arguments
<1>1. e.kind = "function" /\ e.postfix = "none" /\ e.name \in FastKinds
  BY DEF TriesFunction
<1>2. /\ IsListed(e.arguments)
      /\ \A i \in DOMAIN e.arguments : IsArgument(e.arguments[i])
  BY <1>1, ExpressionsAreShallow DEF IsPath
<1>3. Len(e.arguments) = IF e.name = "contains" THEN 2 ELSE 1
  BY DEF TriesFunction
<1> QED
  BY <1>1, <1>2, <1>3 DEF IsListed

(* The argument of a lifted call is what its path selects, or that in an    *)
(* array where the builtin does not tell.                                   *)
LEMMA LiftedArgument ==
    ASSUME NEW e \in Exprs, Lifts(e), NEW v \in Reached
    PROVE  LET segments == InnerArgument(e).segments
               val == EvalPath(segments, FALSE, v)
               arg == EvalArgument(e.arguments[1], v)
           IN  /\ segments \in Seq(STRING) /\ segments # <<>>
               /\ arg = val \/ (arg = Array(Items(val)) /\ e.name \in Aggregates \cup {"count"})
<1> DEFINE a == e.arguments[1]
           p == InnerArgument(e)
           val == EvalPath(p.segments, FALSE, v)
<1>1. IsArgument(a) /\ e.kind = "function"
  BY CallShape DEF Lifts
<1>2. CollectsPurePath(p)
  BY DEF Lifts, TriesFunction
<1>3. CASE p = a
  <2>1. IsPath(a)
    BY <1>1, <1>2, <1>3 DEF IsArgument, IsOperand, CollectsPurePath
  <2>2. a.segments \in Seq(STRING) \ {<<>>}
    BY <2>1 DEF IsPath
  <2>3. EvalArgument(a, v) = EvalPath(a.segments, FALSE, v)
    BY <1>1, <1>2, <1>3, PathOperand
  <2> QED
    BY <1>3, <2>2, <2>3
<1>4. CASE p # a
  <2>1. /\ a.kind = "array" /\ Len(a.expressions) = 1 /\ UnwrapsArrayConstructor(e.name)
        /\ p = a.expressions[1]
    BY <1>4 DEF InnerArgument
  <2>2. e.name \in Aggregates \cup {"count"} /\ a.postfix # "group"
    BY <1>1, <2>1 DEF UnwrapsArrayConstructor, Lifts, GroupedArgument
  <2>3. IsListed(a.expressions) /\ \A i \in DOMAIN a.expressions : IsOperand(a.expressions[i])
    BY <1>1, <2>1 DEF IsArgument, IsOperand, IsPath
  <2>4. DOMAIN a.expressions = {1}
    BY <2>1, <2>3 DEF IsListed
  <2>5. IsOperand(p) /\ p.kind = "path" /\ p.postfix = "none"
    BY <1>2, <2>1, <2>3, <2>4 DEF CollectsPurePath
  <2>6. p.segments \in Seq(STRING) \ {<<>>}
    BY <2>5 DEF IsOperand, IsPath
  <2>7. EvalOperand(p, v) = val /\ val \in Result
    BY <2>5, <2>6, PathResult DEF EvalOperand, Grouped
  <2>8. Collapsed(val) = val
    BY <2>7, ResultIs
  <2> DEFINE es == a.expressions
             values == [i \in DOMAIN es |-> Collapsed(EvalOperand(es[i], v))]
  <2>9. EvalArgument(a, v) = EvalArrayCons(es, values)
    BY <2>1, <2>2 DEF EvalArgument, Grouped
  <2>10. EvalArrayCons(es, values) = EvalArrayCons(<<p>>, <<val>>)
    <3>1. values = [i \in {1} |-> val]
      BY <2>1, <2>4, <2>7, <2>8
    <3>2. \A x : <<x>> = [i \in {1} |-> x] /\ DOMAIN <<x>> = {1} /\ <<x>>[1] = x
      <4>1. 1 .. 1 = {1}
        OBVIOUS
      <4> QED
        BY <4>1
    <3>3. \A i \in DOMAIN values : es[i].kind = <<p>>[i].kind
      BY <2>1, <3>1, <3>2
    <3> HIDE DEF es, values, p, val
    <3>4. values = <<val>>
      BY <3>1, <3>2
    <3>5. \A i \in DOMAIN <<val>> : es[i].kind = <<p>>[i].kind
      BY <3>3, <3>4
    <3>6. EvalArrayCons(es, <<val>>) = EvalArrayCons(<<p>>, <<val>>)
      BY <3>5 DEF EvalArrayCons
    <3> QED
      BY <3>4, <3>6
  <2>11. EvalArrayCons(<<p>>, <<val>>) = Array(Items(val))
    <3>1. p.kind # "array"
      BY <2>5
    <3> HIDE DEF p, val
    <3> QED
      BY <2>7, <3>1, SpliceOne
  <2> QED
    BY <2>2, <2>6, <2>9, <2>10, <2>11
<1> QED
  BY <1>3, <1>4

(* The general evaluator calls the builtin on that argument.                *)
LEMMA LiftedCall ==
    ASSUME NEW e \in Exprs, Lifts(e), ~GroupedProcedure(e), NEW v \in Reached
    PROVE  Eval(e, v, {}) = Collapsed(CallFunction(e.name, EvalArgument(e.arguments[1], v), {}))
<1> DEFINE args == [i \in DOMAIN e.arguments |-> Collapsed(EvalArgument(e.arguments[i], v))]
           arg == EvalArgument(e.arguments[1], v)
<1>0. /\ e.kind = "function" /\ e.postfix = "none" /\ DOMAIN e.arguments = 1 .. Len(e.arguments)
      /\ Len(e.arguments) = IF e.name = "contains" THEN 2 ELSE 1
      /\ \A i \in DOMAIN e.arguments : IsArgument(e.arguments[i])
      /\ 1 \in DOMAIN e.arguments
  BY CallShape DEF Lifts
<1>1. Collapsed(arg) = arg /\ ~IsError(arg)
  <2> DEFINE val == EvalPath(InnerArgument(e).segments, FALSE, v)
  <2>1. /\ InnerArgument(e).segments \in Seq(STRING)
        /\ arg = val \/ arg = Array(Items(val))
    BY LiftedArgument
  <2>2. val \in Result
    BY <2>1, PathResult
  <2> HIDE DEF val, arg
  <2>3. \A s : Collapsed(Array(s)) = Array(s) /\ ~IsError(Array(s))
    BY ArrayIs DEF Collapsed
  <2> QED
    BY <2>1, <2>2, <2>3, ResultIs
<1>2. \A i \in DOMAIN e.arguments : ~IsError(args[i])
  <2> SUFFICES ASSUME NEW i \in DOMAIN e.arguments PROVE ~IsError(args[i])
    OBVIOUS
  <2>1. i = 1 \/ (i = 2 /\ e.name = "contains")
    BY <1>0
  <2>2. CASE i = 1
    BY <1>1, <2>2
  <2>3. CASE i = 2 /\ e.name = "contains"
    <3>1. e.arguments[2].kind = "literal" /\ IsArgument(e.arguments[2])
      BY <1>0, <2>3 DEF Lifts, TriesFunction
    <3>2. ~IsError(Collapsed(EvalArgument(e.arguments[2], v)))
      BY <3>1, LiteralOperand, ScalarIs
    <3> QED
      BY <2>3, <3>2
  <2> QED
    BY <2>1, <2>2, <2>3
<1>3. EvalCall(e, v, {}) = FirstErrorOr(args, KeepCall(e, CallFunction(e.name, args[1], {})))
  BY <1>0 DEF EvalCall, GroupedProcedure
<1>4. args[1] = arg /\ DOMAIN args = DOMAIN e.arguments
  BY <1>0, <1>1
<1> HIDE DEF args, arg
<1>5. EvalCall(e, v, {}) = KeepCall(e, CallFunction(e.name, arg, {}))
  BY <1>2, <1>3, <1>4, NoErrors
<1>6. EvalCall(e, v, {}) = CallFunction(e.name, arg, {})
  BY <1>0, <1>5 DEF KeepCall
<1>7. EvalInner(e, v, {}) = CallFunction(e.name, arg, {})
  BY <1>0, <1>6 DEF EvalInner, Grouped
<1> QED
  BY <1>7 DEF Eval, arg

(* On every expression of the class of functions whose called name carries  *)
(* no {...}, the fast evaluator defers or gives the general answer.         *)
LEMMA FunctionFaithful ==
    ASSUME NEW e \in Exprs, e.kind = "function", ~GroupedProcedure(e), NEW v \in Reached,
           e.name \in Aggregates \cup {"count", "exists"} => FoldsSafely(e, v)
    PROVE  Faithful(e, v)
<1>1. ~CollectsPurePath(e) /\ ~TriesComparison(e)
  BY DEF CollectsPurePath, TriesComparison
<1>2. CASE ~TriesFunction(e)
  <2>1. FastClass(e) = "None"
    BY <1>1, <1>2 DEF FastClass
  <2>2. EvalTapePath(e, v) = Deferred /\ EvalFast(e, v) = Deferred
    BY <2>1 DEF EvalTapePath, EvalFast
  <2> QED
    BY <2>2 DEF Faithful
<1>3. CASE TriesFunction(e)
  <2> DEFINE segments == InnerArgument(e).segments
             val == EvalPath(segments, FALSE, v)
             arg == EvalArgument(e.arguments[1], v)
             general == Collapsed(CallFunction(e.name, arg, {}))
             fast == EvalFunction(e.name, segments, v)
  <2>1. FastClass(e) = "Function"
    BY <1>1, <1>3 DEF FastClass
  <2>2. EvalTapePath(e, v) = Deferred /\ EvalFast(e, v) = fast
    BY <2>1 DEF EvalTapePath, EvalFast
  <2>3. Lifts(e)
    BY <1>3 DEF Lifts, FoldsSafely
  <2>4. Eval(e, v, {}) = general
    BY <2>3, LiftedCall
  <2>5. /\ segments \in Seq(STRING) /\ segments # <<>>
        /\ arg = val \/ (arg = Array(Items(val)) /\ e.name \in Aggregates \cup {"count"})
    BY <2>3, LiftedArgument
  <2>6. val \in Result /\ EvalPurePath(segments, v) = val
    BY <2>5, PathResult
  <2>7. e.name \in FastKinds
    BY <1>3, CallShape
  <2> HIDE DEF segments, val, arg, general, fast
  <2>8. "count" \notin Aggregates /\ "exists" \notin Aggregates
    BY DEF Aggregates
  <2>9. CASE e.name = "count"
    <3>1. ~HasArrayInArray(v)
      BY <2>9 DEF FoldsSafely
    <3>2. EvalCount(segments, v) = Collapsed(CallFunction("count", arg, {}))
      BY <2>5, <3>1, CountFaithful DEF val
    <3>3. fast = EvalCount(segments, v)
      BY <2>8, <2>9 DEF EvalFunction, fast
    <3> QED
      BY <2>2, <2>4, <2>9, <3>2, <3>3 DEF Faithful, general
  <2>10. CASE e.name = "exists"
    <3>1. arg = val
      BY <2>5, <2>8, <2>10
    <3>2. EvalExists(segments, v) = Collapsed(CallFunction("exists", arg, {}))
      BY <2>5, <3>1, ExistsFaithful DEF val
    <3>3. fast = EvalExists(segments, v)
      BY <2>8, <2>10 DEF EvalFunction, fast
    <3> QED
      BY <2>2, <2>4, <2>10, <3>2, <3>3 DEF Faithful, general
  <2>11. CASE e.name \in Aggregates
    <3>1. arg \in {val, Array(Items(val))}
      BY <2>5
    <3>2. EvalAggregate(e.name, segments, v) \in {Deferred, Collapsed(CallFunction(e.name, arg, {}))}
      BY <2>5, <2>11, <3>1, AggregateFaithful DEF val
    <3>3. fast = EvalAggregate(e.name, segments, v)
      BY <2>8, <2>11 DEF EvalFunction, fast
    <3> QED
      BY <2>2, <2>4, <3>2, <3>3 DEF Faithful, general
  <2>12. CASE e.name \notin Aggregates \cup {"count", "exists"}
    <3>1. e.name \in Applied /\ arg = val
      BY <2>5, <2>7, <2>12 DEF Applied
    <3>2. fast = IF val = Undefined THEN Undefined ELSE ApplyFunc(e.name, val)
      BY <2>6, <2>12 DEF EvalFunction, fast
    <3>3. fast \in {Deferred, Collapsed(CallFunction(e.name, val, {}))}
      BY <2>6, <3>1, <3>2, AppliedFaithful
    <3> QED
      BY <2>2, <2>4, <3>1, <3>3 DEF Faithful, general
  <2> QED
    BY <2>9, <2>10, <2>11, <2>12
<1> QED
  BY <1>2, <1>3

(* A builtin that is lifted over a path answers as the call does, whatever  *)
(* the documents: what is folded or counted without being built, where no   *)
(* array lies in an array that is counted and the argument carries no       *)
(* {...} of its own, and every other builtin always; in both, where the     *)
(* name that is called carries no {...} (eval_function, count_pure_path,    *)
(* fold_pure_path, apply_func).                                             *)
THEOREM FunctionsAlwaysTransparent == Spec => []FunctionsTransparent
<1>1. IInv => FunctionsTransparent
  <2> SUFFICES ASSUME IInv, expr.kind = "function", ~GroupedProcedure(expr),
                      expr.name \in Aggregates \cup {"count", "exists"} => FoldsSafely(expr, input)
               PROVE  Agrees
    BY DEF FunctionsTransparent
  <2>1. Faithful(expr, input)
    BY InputReached, FunctionFaithful
  <2> QED
    BY <2>1, EntriesAgree DEF EntriesTransparent
<1> QED
  BY <1>1, AlwaysSound, PTL
===============================================================================

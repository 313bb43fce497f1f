-------------------------- MODULE CallMachineProofs --------------------------
(* Proofs about module CallMachine, for every limit and every size of code. *)
EXTENDS CallMachine, FiniteSetTheorems, TLAPS

(* Frames of one kind among the first n of s. *)
Upto(kind, s, n) == {i \in 1 .. n : s[i].kind = kind}
CountTo(kind, s, n) == Cardinality(Upto(kind, s, n))

(* The expression's frame is the outermost one, and only it. *)
ExprAtBottom(s) == \A i \in DOMAIN s : s[i].kind = "expr" <=> i = 1

(* A body's frame stores how many bodies were in progress once it started. *)
StoredDepths(s) ==
    \A i \in DOMAIN s : s[i].kind = "body" => s[i].depth = CountTo("body", s, i)

(* s is a stack for these values of the counters. *)
Sound(s, d, e) == /\ s \in Seq(Frames)
                  /\ ExprAtBottom(s)
                  /\ StoredDepths(s)
                  /\ d = Count("body", s)
                  /\ e = Count("eval", s)

WithinLimits == depth <= MaxDepth /\ evalDepth <= MaxEval

(* A refusal is on its way out, or already the result. *)
RefusalInFlight == refused => outcome \in {"D3001", "D3121"}

(* The inductive invariant. *)
IInv == /\ TypeOK
        /\ Sound(stack, depth, evalDepth)
        /\ WithinLimits
        /\ RefusalInFlight

-----------------------------------------------------------------------------
(* How the count grows with one more frame. *)
LEMMA CountStep ==
    ASSUME NEW kind, NEW s, NEW n \in Nat
    PROVE  /\ CountTo(kind, s, n) \in Nat
           /\ CountTo(kind, s, 0) = 0
           /\ s[n + 1].kind = kind => CountTo(kind, s, n + 1) = CountTo(kind, s, n) + 1
           /\ s[n + 1].kind # kind => CountTo(kind, s, n + 1) = CountTo(kind, s, n)
<1>1. IsFiniteSet(Upto(kind, s, n))
  <2>1. IsFiniteSet(1 .. n)
    BY FS_Interval
  <2> QED
    BY <2>1, FS_Subset DEF Upto
<1>2. Upto(kind, s, 0) = {}
  BY DEF Upto
<1>3. n + 1 \notin Upto(kind, s, n)
  BY DEF Upto
<1>4. CountTo(kind, s, n) \in Nat /\ CountTo(kind, s, 0) = 0
  BY <1>1, <1>2, FS_CardinalityType, FS_EmptySet DEF CountTo
<1>5. ASSUME s[n + 1].kind = kind
      PROVE  CountTo(kind, s, n + 1) = CountTo(kind, s, n) + 1
  <2>1. Upto(kind, s, n + 1) = Upto(kind, s, n) \cup {n + 1}
    BY <1>5 DEF Upto
  <2>2. Cardinality(Upto(kind, s, n) \cup {n + 1}) = Cardinality(Upto(kind, s, n)) + 1
    BY <1>1, <1>3, FS_AddElement
  <2> QED
    BY <2>1, <2>2 DEF CountTo
<1>6. ASSUME s[n + 1].kind # kind
      PROVE  CountTo(kind, s, n + 1) = CountTo(kind, s, n)
  <2>1. Upto(kind, s, n + 1) = Upto(kind, s, n)
    BY <1>6 DEF Upto
  <2> QED
    BY <2>1 DEF CountTo
<1> QED
  BY <1>4, <1>5, <1>6

(* The count depends on the kinds of the frames counted. *)
LEMMA CountSame ==
    ASSUME NEW kind, NEW s, NEW t, NEW n \in Nat,
           \A i \in 1 .. n : s[i].kind = t[i].kind
    PROVE  CountTo(kind, s, n) = CountTo(kind, t, n)
<1>1. Upto(kind, s, n) = Upto(kind, t, n)
  BY DEF Upto
<1> QED
  BY <1>1 DEF CountTo

LEMMA CountAll ==
    ASSUME NEW kind, NEW s \in Seq(Frames)
    PROVE  Count(kind, s) = CountTo(kind, s, Len(s)) /\ Count(kind, s) \in Nat
<1>1. DOMAIN s = 1 .. Len(s) /\ Len(s) \in Nat
  OBVIOUS
<1>2. Count(kind, s) = CountTo(kind, s, Len(s))
  BY <1>1 DEF Count, CountTo, Upto
<1> QED
  BY <1>1, <1>2, CountStep

(* A frame pushed on a sound stack. *)
LEMMA SoundPush ==
    ASSUME NEW s, NEW d, NEW e, Sound(s, d, e), s # <<>>,
           NEW f \in Frames, f.kind # "expr", f.kind = "body" => f.depth = d + 1
    PROVE  Sound(Append(s, f), IF f.kind = "body" THEN d + 1 ELSE d,
                               IF f.kind = "eval" THEN e + 1 ELSE e)
<1> DEFINE t == Append(s, f)
           n == Len(s)
<1>1. /\ s \in Seq(Frames) /\ n \in Nat /\ n > 0 /\ DOMAIN s = 1 .. n
  BY DEF Sound
<1>2. /\ t \in Seq(Frames) /\ Len(t) = n + 1 /\ DOMAIN t = 1 .. (n + 1)
      /\ t[n + 1] = f /\ \A i \in 1 .. n : t[i] = s[i]
  BY <1>1
<1>3. ASSUME NEW kind, NEW i \in 0 .. n
      PROVE  CountTo(kind, t, i) = CountTo(kind, s, i)
  <2>1. i \in Nat /\ \A j \in 1 .. i : t[j].kind = s[j].kind
    BY <1>1, <1>2
  <2> QED
    BY <2>1, CountSame
<1>4. ASSUME NEW kind
      PROVE  /\ Count(kind, s) \in Nat
             /\ CountTo(kind, t, n + 1) = Count(kind, s) + (IF f.kind = kind THEN 1 ELSE 0)
             /\ Count(kind, t) = CountTo(kind, t, n + 1)
  <2>1. /\ t[n + 1].kind = kind => CountTo(kind, t, n + 1) = CountTo(kind, t, n) + 1
        /\ t[n + 1].kind # kind => CountTo(kind, t, n + 1) = CountTo(kind, t, n)
    BY <1>1, CountStep
  <2>2. CountTo(kind, t, n) = CountTo(kind, s, n)
    BY <1>1, <1>3
  <2>3. Count(kind, s) = CountTo(kind, s, n) /\ Count(kind, s) \in Nat
    BY <1>1, CountAll
  <2>4. Count(kind, t) = CountTo(kind, t, n + 1)
    BY <1>2, CountAll
  <2> QED
    BY <1>2, <2>1, <2>2, <2>3, <2>4
<1>5. ExprAtBottom(t)
  BY <1>1, <1>2 DEF Sound, ExprAtBottom
<1>6. StoredDepths(t)
  <2> SUFFICES ASSUME NEW i \in 1 .. (n + 1), t[i].kind = "body"
               PROVE  t[i].depth = CountTo("body", t, i)
    BY <1>2 DEF StoredDepths
  <2>1. CASE i \in 1 .. n
    BY <1>1, <1>2, <1>3, <2>1 DEF Sound, StoredDepths
  <2>2. CASE i = n + 1
    <3>1. CountTo("body", t, n + 1) = d + 1
      BY <1>2, <1>4, <2>2 DEF Sound
    <3> QED
      BY <1>2, <2>2, <3>1
  <2> QED
    BY <1>1, <2>1, <2>2
<1>7. /\ (IF f.kind = "body" THEN d + 1 ELSE d) = Count("body", t)
      /\ (IF f.kind = "eval" THEN e + 1 ELSE e) = Count("eval", t)
  BY <1>4 DEF Sound
<1> QED
  BY <1>2, <1>5, <1>6, <1>7 DEF Sound

Innermost(s) == s[Len(s)]
Rest(s) == SubSeq(s, 1, Len(s) - 1)

(* A frame popped from a sound stack. *)
LEMMA SoundPop ==
    ASSUME NEW s, NEW d, NEW e, Sound(s, d, e), s # <<>>
    PROVE  /\ Innermost(s) \in Frames
           /\ Innermost(s).kind = "body" => Innermost(s).depth = d
           /\ d \in Nat /\ e \in Nat
           /\ Innermost(s).kind = "body" => d > 0
           /\ Innermost(s).kind = "eval" => e > 0
           /\ Innermost(s).kind = "expr" <=> Rest(s) = <<>>
           /\ Innermost(s).kind = "expr" => d = 0 /\ e = 0
           /\ Sound(Rest(s), IF Innermost(s).kind = "body" THEN d - 1 ELSE d,
                             IF Innermost(s).kind = "eval" THEN e - 1 ELSE e)
<1> DEFINE m == Len(s) - 1
           f == s[Len(s)]
           t == SubSeq(s, 1, Len(s) - 1)
<1>1. /\ s \in Seq(Frames) /\ m \in Nat /\ Len(s) = m + 1 /\ DOMAIN s = 1 .. (m + 1)
      /\ f \in Frames /\ f = s[m + 1]
  BY DEF Sound
<1>2. /\ t \in Seq(Frames) /\ Len(t) = m /\ DOMAIN t = 1 .. m
      /\ \A i \in 1 .. m : t[i] = s[i]
  BY <1>1
<1>3. ASSUME NEW kind, NEW i \in 0 .. m
      PROVE  CountTo(kind, t, i) = CountTo(kind, s, i)
  <2>1. i \in Nat /\ \A j \in 1 .. i : t[j].kind = s[j].kind
    BY <1>1, <1>2
  <2> QED
    BY <2>1, CountSame
<1>4. ASSUME NEW kind
      PROVE  /\ Count(kind, t) \in Nat
             /\ Count(kind, s) = Count(kind, t) + (IF f.kind = kind THEN 1 ELSE 0)
             /\ Count(kind, s) = CountTo(kind, s, m + 1)
             /\ m = 0 => Count(kind, t) = 0
  <2>1. /\ s[m + 1].kind = kind => CountTo(kind, s, m + 1) = CountTo(kind, s, m) + 1
        /\ s[m + 1].kind # kind => CountTo(kind, s, m + 1) = CountTo(kind, s, m)
    BY <1>1, CountStep
  <2>2. CountTo(kind, t, m) = CountTo(kind, s, m)
    BY <1>1, <1>3
  <2>3. Count(kind, t) = CountTo(kind, t, m) /\ Count(kind, t) \in Nat
    BY <1>2, CountAll
  <2>4. Count(kind, s) = CountTo(kind, s, m + 1)
    BY <1>1, CountAll
  <2>5. CountTo(kind, t, 0) = 0
    BY CountStep
  <2> QED
    BY <1>1, <2>1, <2>2, <2>3, <2>4, <2>5
<1>5. f.kind = "expr" <=> m = 0
  BY <1>1 DEF Sound, ExprAtBottom
<1>6. t = <<>> <=> m = 0
  <2>1. Len(<<>>) = 0
    OBVIOUS
  <2>2. \A u \in Seq(Frames) : Len(u) = 0 => u = <<>>
    OBVIOUS
  <2> QED
    BY <1>2, <2>1, <2>2
<1>7. /\ d = Count("body", t) + (IF f.kind = "body" THEN 1 ELSE 0)
      /\ e = Count("eval", t) + (IF f.kind = "eval" THEN 1 ELSE 0)
      /\ Count("body", t) \in Nat /\ Count("eval", t) \in Nat
      /\ m = 0 => Count("body", t) = 0 /\ Count("eval", t) = 0
  BY <1>4 DEF Sound
<1>8. f.kind = "body" => f.depth = d
  BY <1>1, <1>4 DEF Sound, StoredDepths
<1>9. ExprAtBottom(t)
  BY <1>1, <1>2 DEF Sound, ExprAtBottom
<1>10. StoredDepths(t)
  BY <1>1, <1>2, <1>3 DEF Sound, StoredDepths
<1>11. Sound(t, IF f.kind = "body" THEN d - 1 ELSE d, IF f.kind = "eval" THEN e - 1 ELSE e)
  BY <1>2, <1>7, <1>9, <1>10 DEF Sound
<1>12. /\ d \in Nat /\ e \in Nat
       /\ f.kind = "body" => d > 0
       /\ f.kind = "eval" => e > 0
       /\ f.kind = "expr" => d = 0 /\ e = 0
  BY <1>5, <1>7
<1>13. f = Innermost(s) /\ t = Rest(s)
  BY DEF Innermost, Rest
<1> HIDE DEF f, t
<1> QED
  BY <1>1, <1>5, <1>6, <1>8, <1>11, <1>12, <1>13

(* Using up a call leaves a stack sound. *)
LEMMA SoundSpent ==
    ASSUME IInv, Running, Top.left > 0
    PROVE  /\ Sound(Spent, depth, evalDepth)
           /\ Spent # <<>>
           /\ Len(Spent) = Len(stack)
           /\ Spent[Len(Spent)] \in Frames
           /\ Spent[Len(Spent)].arena = Top.arena
           /\ \A i \in DOMAIN stack : Spent[i].kind = stack[i].kind /\ Spent[i].iter = stack[i].iter
<1> DEFINE n == Len(stack)
<1>1. /\ stack \in Seq(Frames) /\ n \in Nat /\ n > 0 /\ DOMAIN stack = 1 .. n
      /\ stack[n] \in Frames
  BY DEF IInv, Sound, Running, Done
<1>2. [stack[n] EXCEPT !.left = @ - 1] \in Frames
  <2>1. stack[n].left > 0
    BY DEF Top
  <2>2. stack[n].left - 1 \in 0 .. CodeSize
    BY <1>1, <2>1, LimitsAssumption DEF Frames
  <2> QED
    BY <1>1, <2>2 DEF Frames
<1>3. /\ Spent \in Seq(Frames) /\ Len(Spent) = n /\ DOMAIN Spent = 1 .. n
      /\ Spent[n] = [stack[n] EXCEPT !.left = @ - 1]
      /\ \A i \in 1 .. n : i # n => Spent[i] = stack[i]
  BY <1>1, <1>2 DEF Spent
<1>4. /\ Spent[n].kind = stack[n].kind /\ Spent[n].depth = stack[n].depth
      /\ Spent[n].iter = stack[n].iter /\ Spent[n].arena = stack[n].arena
  BY <1>1, <1>3 DEF Frames
<1>5. \A i \in 1 .. n : /\ Spent[i].kind = stack[i].kind
                        /\ Spent[i].depth = stack[i].depth
                        /\ Spent[i].iter = stack[i].iter
  BY <1>3, <1>4
<1>6. ASSUME NEW kind, NEW i \in 0 .. n
      PROVE  CountTo(kind, Spent, i) = CountTo(kind, stack, i)
  <2>1. i \in Nat /\ \A j \in 1 .. i : Spent[j].kind = stack[j].kind
    BY <1>1, <1>5
  <2> QED
    BY <2>1, CountSame
<1>7. ASSUME NEW kind PROVE Count(kind, Spent) = Count(kind, stack)
  <2>1. Count(kind, Spent) = CountTo(kind, Spent, n) /\ Count(kind, stack) = CountTo(kind, stack, n)
    BY <1>1, <1>3, CountAll
  <2> QED
    BY <1>1, <1>6, <2>1
<1>8. ExprAtBottom(Spent) /\ StoredDepths(Spent)
  BY <1>1, <1>3, <1>5, <1>6 DEF IInv, Sound, ExprAtBottom, StoredDepths
<1>9. Sound(Spent, depth, evalDepth)
  BY <1>3, <1>7, <1>8 DEF IInv, Sound
<1> QED
  BY <1>1, <1>3, <1>4, <1>5, <1>9 DEF Top

-----------------------------------------------------------------------------
Outcomes == {"running", "value", "tail"} \cup Errors

(* What a step has to establish. *)
LEMMA Assemble ==
    ASSUME Sound(stack', depth', evalDepth'), WithinLimits', RefusalInFlight',
           outcome' \in Outcomes, cancelled' \in BOOLEAN, refused' \in BOOLEAN
    PROVE  IInv'
<1>1. stack' \in Seq(Frames) /\ depth' = Count("body", stack') /\ evalDepth' = Count("eval", stack')
  BY DEF Sound
<1>2. depth' \in Nat /\ evalDepth' \in Nat
  BY <1>1, CountAll
<1> QED
  BY <1>1, <1>2 DEF IInv, TypeOK, Outcomes, Sound, WithinLimits, RefusalInFlight

(* What one pass of the trampoline does to a sound stack. *)
LEMMA ApplySound ==
    ASSUME NEW s, NEW d \in Nat, NEW home \in 0 .. MaxEval, NEW iter \in 0 .. MaxIter,
           Sound(s, d, evalDepth), s # <<>>, d <= MaxDepth, refused = FALSE,
           Apply(s, d, home, iter)
    PROVE  /\ Sound(stack', depth', evalDepth)
           /\ depth' <= MaxDepth
           /\ outcome' \in Outcomes
           /\ refused' \in BOOLEAN
           /\ refused' => outcome' \in {"D3001", "D3121"}
           /\ outcome' = "U1001" => d = MaxDepth /\ depth' = d
<1>1. CASE cancelled
  BY <1>1 DEF Apply, Refuse, Deliver, Outcomes, Errors
<1>2. CASE ~cancelled
  <2>1. Enter(s, d, home, iter) /\ refused' = refused
    BY <1>2 DEF Apply
  <2>2. CASE depth' = d /\ \E r \in {"T0410", "value"} : Deliver(s, r)
    BY <2>1, <2>2 DEF Deliver, Outcomes, Errors
  <2>3. CASE d + 1 > MaxDepth /\ depth' = d /\ Deliver(s, "U1001")
    <3>1. d = MaxDepth
      BY <2>3, LimitsAssumption
    <3>2. stack' = s /\ depth' = d /\ outcome' = "U1001"
      BY <2>3 DEF Deliver
    <3> QED
      BY <2>1, <3>1, <3>2 DEF Outcomes, Errors
  <2>4. CASE /\ d + 1 <= MaxDepth
             /\ depth' = d + 1
             /\ stack' = Append(s, Frame("body", s[Len(s)].arena, home, d + 1, iter))
             /\ outcome' = "running"
    <3> DEFINE f == Frame("body", s[Len(s)].arena, home, d + 1, iter)
    <3>1. s[Len(s)].arena \in 0 .. MaxEval
      <4>1. s \in Seq(Frames)
        BY DEF Sound
      <4>2. s[Len(s)] \in Frames
        BY <4>1
      <4> QED
        BY <4>2 DEF Frames
    <3>2. f \in Frames /\ f.kind = "body" /\ f.depth = d + 1
      BY <2>4, <3>1, LimitsAssumption DEF Frame, Frames
    <3>3. Sound(Append(s, f), d + 1, evalDepth)
      <4> HIDE DEF f
      <4> QED
        BY <3>2, SoundPush
    <3> QED
      BY <2>1, <2>4, <3>3 DEF Outcomes
  <2> QED
    BY <2>1, <2>2, <2>3, <2>4 DEF Enter
<1> QED
  BY <1>1, <1>2

(* What the innermost frame and the rest of the stack look like. *)
LEMMA TopFacts ==
    ASSUME IInv, ~Done
    PROVE  /\ Top \in Frames
           /\ Top.kind = "body" => Top.depth = depth
           /\ Top.kind = "body" => depth > 0
           /\ Top.kind = "eval" => evalDepth > 0
           /\ Top.kind = "expr" <=> Below = <<>>
           /\ Top.kind = "expr" => depth = 0 /\ evalDepth = 0
           /\ depth \in Nat /\ evalDepth \in Nat
           /\ Sound(Below, IF Top.kind = "body" THEN depth - 1 ELSE depth,
                           IF Top.kind = "eval" THEN evalDepth - 1 ELSE evalDepth)
<1>1. Sound(stack, depth, evalDepth) /\ stack # <<>>
  BY DEF IInv, Done
<1>2. Top = Innermost(stack) /\ Below = Rest(stack)
  BY DEF Top, Below, Innermost, Rest
<1> QED
  BY <1>1, <1>2, SoundPop

-----------------------------------------------------------------------------
(* A call of a lambda, a refused one included. *)
LEMMA CallLambdaStep ==
    ASSUME IInv, NEW home \in 0 .. MaxEval, CallLambda(home)
    PROVE  IInv' /\ (outcome' = "U1001" => depth' = MaxDepth)
<1>1. /\ Sound(Spent, depth, evalDepth) /\ Spent # <<>>
  BY SoundSpent DEF CallLambda
<1>2. /\ depth \in Nat /\ depth <= MaxDepth /\ refused = FALSE
      /\ 0 \in 0 .. MaxIter
  BY LimitsAssumption DEF IInv, TypeOK, WithinLimits, RefusalInFlight, CallLambda, Running
<1>3. Apply(Spent, depth, home, 0) /\ evalDepth' = evalDepth /\ cancelled' = cancelled
  BY DEF CallLambda
<1>4. /\ Sound(stack', depth', evalDepth) /\ depth' <= MaxDepth
      /\ outcome' \in Outcomes /\ refused' \in BOOLEAN
      /\ refused' => outcome' \in {"D3001", "D3121"}
      /\ outcome' = "U1001" => depth = MaxDepth /\ depth' = depth
  BY <1>1, <1>2, <1>3, ApplySound
<1>5. evalDepth <= MaxEval /\ cancelled \in BOOLEAN
  BY DEF IInv, TypeOK, WithinLimits
<1> QED
  BY <1>3, <1>4, <1>5, Assemble DEF WithinLimits, RefusalInFlight

LEMMA CallNativeStep ==
    ASSUME IInv, CallNative
    PROVE  IInv'
<1> DEFINE f == Frame("native", Top.arena, Top.arena, 0, 0)
<1>1. /\ Sound(Spent, depth, evalDepth) /\ Spent # <<>>
  BY SoundSpent DEF CallNative
<1>2. f \in Frames /\ f.kind = "native"
  BY TopFacts, LimitsAssumption DEF CallNative, Running, Frame, Frames
<1>3. Sound(Append(Spent, f), depth, evalDepth)
  <2> HIDE DEF f
  <2> QED
    BY <1>1, <1>2, SoundPush
<1>4. stack' = Append(Spent, f) /\ UNCHANGED <<outcome, depth, evalDepth, cancelled, refused>>
  BY DEF CallNative
<1> HIDE DEF f
<1> QED
  BY <1>3, <1>4, Assemble DEF IInv, TypeOK, WithinLimits, RefusalInFlight, Outcomes

LEMMA CallEvalStep ==
    ASSUME IInv, CallEval
    PROVE  IInv'
<1> DEFINE f == Frame("eval", evalDepth + 1, evalDepth + 1, 0, 0)
<1>1. /\ Sound(Spent, depth, evalDepth) /\ Spent # <<>>
  BY SoundSpent DEF CallEval
<1>2. /\ refused = FALSE /\ depth <= MaxDepth /\ evalDepth <= MaxEval /\ evalDepth \in Nat
      /\ cancelled \in BOOLEAN
  BY DEF IInv, TypeOK, WithinLimits, RefusalInFlight, CallEval, Running
<1>3. UNCHANGED <<depth, cancelled, refused>>
  BY DEF CallEval
<1>4. CASE \E r \in {"T0410", "value", "D3121", "D3120"} : Deliver(Spent, r) /\ evalDepth' = evalDepth
  <2>1. Sound(stack', depth', evalDepth') /\ outcome' \in Outcomes /\ evalDepth' = evalDepth
    BY <1>1, <1>3, <1>4 DEF Deliver, Outcomes, Errors
  <2> QED
    BY <1>2, <1>3, <2>1, Assemble DEF WithinLimits, RefusalInFlight
<1>5. CASE /\ evalDepth + 1 <= MaxEval
           /\ evalDepth' = evalDepth + 1
           /\ stack' = Append(Spent, f)
           /\ UNCHANGED outcome
  <2>1. f \in Frames /\ f.kind = "eval"
    BY <1>2, <1>5, LimitsAssumption DEF Frame, Frames
  <2>2. Sound(Append(Spent, f), depth, evalDepth + 1)
    <3> HIDE DEF f
    <3> QED
      BY <1>1, <2>1, SoundPush
  <2> HIDE DEF f
  <2> QED
    BY <1>2, <1>3, <1>5, <2>2, Assemble DEF IInv, TypeOK, WithinLimits, RefusalInFlight, Outcomes
<1> QED
  BY <1>4, <1>5 DEF CallEval

(* Steps that change the outcome only. *)
LEMMA OutcomeStep ==
    ASSUME IInv, outcome' \in Outcomes, refused' \in BOOLEAN, RefusalInFlight',
           UNCHANGED <<stack, depth, evalDepth, cancelled>>
    PROVE  IInv'
BY Assemble DEF IInv, TypeOK, WithinLimits

LEMMA ReturnBodyStep ==
    ASSUME IInv, ReturnBody
    PROVE  IInv'
<1>1. /\ Top.kind = "body" /\ Top.depth = depth /\ depth \in Nat /\ depth > 0
      /\ Sound(Below, depth - 1, evalDepth)
  BY TopFacts DEF ReturnBody, Returning
<1>2. /\ depth' = depth - 1 /\ stack' = Below /\ evalDepth' = evalDepth
      /\ UNCHANGED <<cancelled, refused>>
      /\ outcome' = IF outcome = "value" THEN "running" ELSE outcome
  BY <1>1 DEF ReturnBody, Deliver
<1>3. /\ outcome \in Outcomes /\ depth <= MaxDepth /\ evalDepth <= MaxEval
      /\ cancelled \in BOOLEAN /\ refused \in BOOLEAN /\ RefusalInFlight
  BY DEF IInv, TypeOK, WithinLimits, Outcomes
<1>4. outcome' \in Outcomes /\ RefusalInFlight'
  BY <1>2, <1>3 DEF Outcomes, RefusalInFlight
<1>5. WithinLimits'
  BY <1>1, <1>2, <1>3, LimitsAssumption DEF WithinLimits
<1> QED
  BY <1>1, <1>2, <1>3, <1>4, <1>5, Assemble

LEMMA BounceStep ==
    ASSUME IInv, NEW home \in 0 .. MaxEval, Bounce(home)
    PROVE  /\ IInv'
           /\ outcome' = "U1001" => Top.kind = "body" /\ Top.iter = MaxIter
<1>1. /\ Top \in Frames /\ Top.kind = "body" /\ Top.depth = depth /\ depth \in Nat /\ depth > 0
      /\ Sound(Below, depth - 1, evalDepth) /\ Below # <<>>
  BY TopFacts DEF Bounce, Returning
<1>2. /\ refused = FALSE /\ depth <= MaxDepth /\ evalDepth <= MaxEval /\ cancelled \in BOOLEAN
      /\ UNCHANGED <<evalDepth, cancelled>>
  BY DEF Bounce, IInv, TypeOK, WithinLimits, RefusalInFlight
<1>3. Top.iter \in 0 .. MaxIter /\ depth - 1 \in Nat /\ depth - 1 < MaxDepth
  BY <1>1, <1>2, LimitsAssumption DEF Frames
<1>4. CASE Top.iter + 1 > MaxIter
  <2>1. depth' = depth - 1 /\ stack' = Below /\ outcome' = "U1001" /\ refused' = refused
    BY <1>1, <1>4 DEF Bounce, Deliver
  <2>2. WithinLimits' /\ RefusalInFlight' /\ outcome' \in Outcomes
    BY <1>2, <1>3, <2>1, LimitsAssumption DEF WithinLimits, RefusalInFlight, Outcomes, Errors
  <2>3. Top.iter = MaxIter
    BY <1>3, <1>4, LimitsAssumption
  <2> QED
    BY <1>1, <1>2, <2>1, <2>2, <2>3, Assemble
<1>5. CASE ~(Top.iter + 1 > MaxIter)
  <2>1. Apply(Below, depth - 1, home, Top.iter + 1)
    BY <1>1, <1>5 DEF Bounce
  <2>2. Top.iter + 1 \in 0 .. MaxIter
    BY <1>3, <1>5, LimitsAssumption
  <2>3. /\ Sound(stack', depth', evalDepth) /\ depth' <= MaxDepth
        /\ outcome' \in Outcomes /\ refused' \in BOOLEAN
        /\ refused' => outcome' \in {"D3001", "D3121"}
        /\ outcome' = "U1001" => depth - 1 = MaxDepth
    <3>1. depth - 1 <= MaxDepth
      BY <1>1, <1>2, LimitsAssumption
    <3> QED
      BY <1>1, <1>2, <1>3, <2>1, <2>2, <3>1, ApplySound
  <2>4. outcome' # "U1001"
    BY <1>3, <2>3, LimitsAssumption
  <2>5. WithinLimits' /\ RefusalInFlight'
    BY <1>2, <2>3 DEF WithinLimits, RefusalInFlight
  <2> QED
    BY <1>2, <2>3, <2>4, <2>5, Assemble
<1> QED
  BY <1>4, <1>5

LEMMA ReturnNativeStep ==
    ASSUME IInv, ReturnNative
    PROVE  IInv'
<1>1. Sound(Below, depth, evalDepth)
  BY TopFacts DEF ReturnNative, Returning
<1>2. /\ stack' = Below
      /\ UNCHANGED <<depth, evalDepth, cancelled, refused>>
      /\ outcome' = IF outcome = "value" THEN "running" ELSE outcome
  BY DEF ReturnNative, Deliver
<1>3. outcome' \in Outcomes /\ RefusalInFlight'
  BY <1>2 DEF IInv, TypeOK, Outcomes, RefusalInFlight
<1> QED
  BY <1>1, <1>2, <1>3, Assemble DEF IInv, TypeOK, WithinLimits

LEMMA ReturnEvalStep ==
    ASSUME IInv, ReturnEval
    PROVE  IInv'
<1>1. /\ evalDepth \in Nat /\ evalDepth > 0 /\ evalDepth <= MaxEval
      /\ Sound(Below, depth, evalDepth - 1)
  BY TopFacts DEF ReturnEval, Returning, IInv, WithinLimits
<1>2. /\ stack' = Below /\ evalDepth' = evalDepth - 1
      /\ UNCHANGED <<depth, cancelled, refused>>
  BY <1>1 DEF ReturnEval, Deliver
<1>3. outcome' \in Outcomes /\ RefusalInFlight'
  <2>1. CASE outcome \in Errors
    BY <1>2, <2>1 DEF ReturnEval, Deliver, Outcomes, Errors, RefusalInFlight
  <2>2. CASE outcome \notin Errors
    BY <1>2, <2>2 DEF ReturnEval, Deliver, Outcomes, Errors, RefusalInFlight, IInv, TypeOK
  <2> QED
    BY <2>1, <2>2
<1>4. WithinLimits'
  BY <1>1, <1>2, LimitsAssumption DEF IInv, WithinLimits
<1> QED
  BY <1>1, <1>2, <1>3, <1>4, Assemble DEF IInv, TypeOK

LEMMA ReturnExprStep ==
    ASSUME IInv, ReturnExpr
    PROVE  IInv'
<1>1. Below = <<>> /\ Sound(Below, depth, evalDepth)
  BY TopFacts DEF ReturnExpr, Returning
<1>2. stack' = <<>> /\ UNCHANGED <<outcome, depth, evalDepth, cancelled, refused>>
  BY DEF ReturnExpr
<1> QED
  BY <1>1, <1>2, Assemble DEF IInv, TypeOK, WithinLimits, RefusalInFlight, Outcomes

(* The initial stack holds the expression's frame. *)
LEMMA InitSound == Init => IInv
<1> SUFFICES ASSUME Init PROVE IInv
  OBVIOUS
<1>1. Frame("expr", 0, 0, 0, 0) \in Frames /\ Frame("expr", 0, 0, 0, 0).kind = "expr"
  BY LimitsAssumption DEF Frame, Frames
<1>2. /\ stack \in Seq(Frames) /\ Len(stack) = 1 /\ DOMAIN stack = {1}
      /\ stack[1].kind = "expr"
  BY <1>1 DEF Init
<1>3. ExprAtBottom(stack) /\ StoredDepths(stack)
  BY <1>2 DEF ExprAtBottom, StoredDepths
<1>4. Count("body", stack) = 0 /\ Count("eval", stack) = 0
  <2>1. /\ {i \in DOMAIN stack : stack[i].kind = "body"} = {}
        /\ {i \in DOMAIN stack : stack[i].kind = "eval"} = {}
    BY <1>2
  <2> QED
    BY <2>1, FS_EmptySet DEF Count
<1>5. Sound(stack, depth, evalDepth)
  BY <1>2, <1>3, <1>4 DEF Init, Sound
<1>6. TypeOK
  BY <1>2 DEF Init, TypeOK
<1>7. WithinLimits /\ RefusalInFlight
  BY LimitsAssumption DEF Init, WithinLimits, RefusalInFlight
<1> QED
  BY <1>5, <1>6, <1>7 DEF IInv

(* Every step preserves the invariant. *)
LEMMA StepSound == IInv /\ [Next]_vars => IInv'
<1> SUFFICES ASSUME IInv, [Next]_vars PROVE IInv'
  OBVIOUS
<1>1. ASSUME NEW home \in 0 .. MaxEval, CallLambda(home) PROVE IInv'
  BY <1>1, CallLambdaStep
<1>2. ASSUME CallNative PROVE IInv'
  BY <1>2, CallNativeStep
<1>3. ASSUME CallEval PROVE IInv'
  BY <1>3, CallEvalStep
<1>4. ASSUME Conclude PROVE IInv'
  BY <1>4, OutcomeStep DEF Conclude, Running, Outcomes, Errors, IInv, TypeOK, RefusalInFlight
<1>5. ASSUME TailCall PROVE IInv'
  BY <1>5, OutcomeStep DEF TailCall, Running, Outcomes, IInv, TypeOK, RefusalInFlight
<1>6. ASSUME Poll PROVE IInv'
  BY <1>6, OutcomeStep DEF Poll, Outcomes, Errors, RefusalInFlight
<1>7. ASSUME ReturnBody PROVE IInv'
  BY <1>7, ReturnBodyStep
<1>8. ASSUME NEW home \in 0 .. MaxEval, Bounce(home) PROVE IInv'
  BY <1>8, BounceStep
<1>9. ASSUME ReturnNative PROVE IInv'
  BY <1>9, ReturnNativeStep
<1>10. ASSUME ReturnEval PROVE IInv'
  BY <1>10, ReturnEvalStep
<1>11. ASSUME ReturnExpr PROVE IInv'
  BY <1>11, ReturnExprStep
<1>12. ASSUME Cancel PROVE IInv'
  BY <1>12, Assemble DEF Cancel, IInv, TypeOK, WithinLimits, RefusalInFlight, Outcomes
<1>13. ASSUME UNCHANGED vars PROVE IInv'
  BY <1>13, Assemble DEF vars, IInv, TypeOK, WithinLimits, RefusalInFlight, Outcomes
<1> QED
  BY <1>1, <1>2, <1>3, <1>4, <1>5, <1>6, <1>7, <1>8, <1>9, <1>10, <1>11, <1>12, <1>13
  DEF Next, Evaluate

(* The invariant holds of every evaluation. *)
LEMMA Invariant == Spec => []IInv
<1>1. Init => IInv
  BY InitSound
<1>2. IInv /\ [Next]_vars => IInv'
  BY StepSound
<1> QED
  BY <1>1, <1>2, PTL DEF Spec

-----------------------------------------------------------------------------
(* Every variable of the call machine keeps its type. *)
THEOREM TypeCorrect == Spec => []TypeOK
<1>1. IInv => TypeOK
  BY DEF IInv
<1> QED
  BY <1>1, Invariant, PTL

(* The two counters of CallCounter are the number of lambda bodies and of   *)
(* $evals in progress, whatever fails on the way.                           *)
THEOREM CountersFollowStack == Spec => []CountersMatchStack
<1>1. IInv => CountersMatchStack
  BY DEF IInv, Sound, CountersMatchStack
<1> QED
  BY <1>1, Invariant, PTL

(* A refused evaluation ends with D3001, or D3121 if $eval rewrote it. *)
THEOREM RefusalsReported == Spec => []RefusalReported
<1>1. IInv => RefusalReported
  BY DEF IInv, RefusalInFlight, RefusalReported
<1> QED
  BY <1>1, Invariant, PTL

(* U1001 is raised at the depth limit or at the tail call budget only. *)
THEOREM OverflowsAtLimit == Spec => OverflowOnlyAtLimit
<1> DEFINE A == outcome' = "U1001" /\ outcome # "U1001" =>
                   \/ depth' = MaxDepth
                   \/ Top.kind = "body" /\ Top.iter = MaxIter
<1>1. IInv /\ [Next]_vars => [A]_vars
  <2> SUFFICES ASSUME IInv, Next, outcome' = "U1001", outcome # "U1001"
               PROVE  depth' = MaxDepth \/ (Top.kind = "body" /\ Top.iter = MaxIter)
    OBVIOUS
  <2>1. ASSUME NEW home \in 0 .. MaxEval, CallLambda(home) PROVE depth' = MaxDepth
    BY <2>1, CallLambdaStep
  <2>2. ASSUME NEW home \in 0 .. MaxEval, Bounce(home)
        PROVE  Top.kind = "body" /\ Top.iter = MaxIter
    BY <2>2, BounceStep
  <2>3. ~CallNative /\ ~CallEval /\ ~Conclude /\ ~TailCall /\ ~Poll /\ ~ReturnExpr /\ ~Cancel
    BY DEF CallNative, CallEval, Conclude, TailCall, Poll, ReturnExpr, Cancel, Deliver
  <2>4. ~ReturnBody /\ ~ReturnNative /\ ~ReturnEval
    BY DEF ReturnBody, ReturnNative, ReturnEval, Deliver
  <2> QED
    BY <2>1, <2>2, <2>3, <2>4 DEF Next, Evaluate
<1>2. Spec => [][Next]_vars
  BY PTL DEF Spec
<1> QED
  BY <1>1, <1>2, Invariant, PTL DEF OverflowOnlyAtLimit

(* The body frames of t are those of the stack, with no more tail calls. *)
NothingStarted(t) == \A i \in DOMAIN t : t[i].kind = "body" =>
                        /\ i \in DOMAIN stack
                        /\ stack[i].kind = "body"
                        /\ stack[i].iter = t[i].iter

LEMMA NothingStartedFacts ==
    ASSUME IInv
    PROVE  /\ NothingStarted(stack)
           /\ ~Done => NothingStarted(Below)
           /\ Running /\ Top.left > 0 => NothingStarted(Spent)
           /\ \A f \in Frames : Running /\ Top.left > 0 /\ f.kind # "body" =>
                                 NothingStarted(Append(Spent, f))
<1> DEFINE n == Len(stack)
<1>1. stack \in Seq(Frames) /\ n \in Nat /\ DOMAIN stack = 1 .. n
  BY DEF IInv, Sound
<1>2. NothingStarted(stack)
  BY DEF NothingStarted
<1>3. ASSUME ~Done PROVE NothingStarted(Below)
  <2>1. n > 0
    BY <1>1, <1>3 DEF Done
  <2>2. DOMAIN Below = 1 .. (n - 1) /\ \A i \in 1 .. (n - 1) : Below[i] = stack[i]
    BY <1>1, <2>1 DEF Below
  <2> QED
    BY <1>1, <2>2 DEF NothingStarted
<1>4. ASSUME Running, Top.left > 0
      PROVE  /\ NothingStarted(Spent)
             /\ \A f \in Frames : f.kind # "body" => NothingStarted(Append(Spent, f))
  <2>1. /\ Spent \in Seq(Frames) /\ Len(Spent) = n /\ DOMAIN Spent = 1 .. n
        /\ \A i \in DOMAIN stack : Spent[i].kind = stack[i].kind /\ Spent[i].iter = stack[i].iter
    BY <1>1, <1>4, SoundSpent DEF Sound
  <2>2. NothingStarted(Spent)
    BY <1>1, <2>1 DEF NothingStarted
  <2>3. ASSUME NEW f \in Frames, f.kind # "body" PROVE NothingStarted(Append(Spent, f))
    <3>1. /\ DOMAIN Append(Spent, f) = 1 .. (n + 1)
          /\ \A i \in 1 .. n : Append(Spent, f)[i] = Spent[i]
          /\ Append(Spent, f)[n + 1] = f
      BY <1>1, <2>1, <2>3
    <3> QED
      BY <1>1, <2>1, <2>3, <3>1 DEF NothingStarted
  <2> QED
    BY <2>2, <2>3
<1> QED
  BY <1>2, <1>3, <1>4

(* Once the flag is up no lambda is applied and no trampoline goes round. *)
THEOREM CancellationStops == Spec => CancelStopsLambdas
<1> DEFINE A == cancelled => \A i \in DOMAIN stack' :
                   stack'[i].kind = "body" =>
                       /\ i \in DOMAIN stack
                       /\ stack[i].kind = "body"
                       /\ stack[i].iter = stack'[i].iter
<1>1. IInv /\ [Next]_vars => [A]_vars
  <2> SUFFICES ASSUME IInv, Next, cancelled PROVE NothingStarted(stack')
    BY DEF NothingStarted
  <2>1. ASSUME NEW home \in 0 .. MaxEval, CallLambda(home) PROVE NothingStarted(stack')
    <3>1. stack' = Spent /\ Running /\ Top.left > 0
      BY <2>1 DEF CallLambda, Apply, Refuse, Deliver
    <3> QED
      BY <3>1, NothingStartedFacts
  <2>2. ASSUME CallNative PROVE NothingStarted(stack')
    <3>1. Frame("native", Top.arena, Top.arena, 0, 0) \in Frames
      BY <2>2, TopFacts, LimitsAssumption DEF CallNative, Running, Frame, Frames
    <3>2. Frame("native", Top.arena, Top.arena, 0, 0).kind # "body"
      BY DEF Frame
    <3> QED
      BY <2>2, <3>1, <3>2, NothingStartedFacts DEF CallNative
  <2>3. ASSUME CallEval PROVE NothingStarted(stack')
    <3>1. Running /\ Top.left > 0
      BY <2>3 DEF CallEval
    <3>2. CASE stack' = Spent
      BY <3>1, <3>2, NothingStartedFacts
    <3>3. CASE /\ evalDepth + 1 <= MaxEval
               /\ stack' = Append(Spent, Frame("eval", evalDepth + 1, evalDepth + 1, 0, 0))
      <4>1. /\ Frame("eval", evalDepth + 1, evalDepth + 1, 0, 0) \in Frames
            /\ Frame("eval", evalDepth + 1, evalDepth + 1, 0, 0).kind # "body"
        BY <3>3, LimitsAssumption DEF Frame, Frames, IInv, TypeOK
      <4> QED
        BY <3>1, <3>3, <4>1, NothingStartedFacts
    <3> QED
      BY <2>3, <3>2, <3>3 DEF CallEval, Deliver
  <2>4. ASSUME Conclude \/ TailCall \/ Poll \/ Cancel PROVE NothingStarted(stack')
    <3>1. stack' = stack
      BY <2>4 DEF Conclude, TailCall, Poll, Cancel
    <3> QED
      BY <3>1, NothingStartedFacts
  <2>5. ASSUME ReturnBody \/ ReturnNative \/ ReturnEval PROVE NothingStarted(stack')
    <3>1. stack' = Below /\ ~Done
      BY <2>5 DEF ReturnBody, ReturnNative, ReturnEval, Deliver, Returning
    <3> QED
      BY <3>1, NothingStartedFacts
  <2>6. ASSUME NEW home \in 0 .. MaxEval, Bounce(home) PROVE NothingStarted(stack')
    <3>1. stack' = Below /\ ~Done
      BY <2>6 DEF Bounce, Apply, Refuse, Deliver, Returning
    <3> QED
      BY <3>1, NothingStartedFacts
  <2>7. ASSUME ReturnExpr PROVE NothingStarted(stack')
    BY <2>7 DEF ReturnExpr, NothingStarted
  <2> QED
    BY <2>1, <2>2, <2>3, <2>4, <2>5, <2>6, <2>7 DEF Next, Evaluate
<1>2. Spec => [][Next]_vars
  BY PTL DEF Spec
<1> QED
  BY <1>1, <1>2, Invariant, PTL DEF CancelStopsLambdas
-----------------------------------------------------------------------------
(***************************************************************************)
(* The refinement of CallLimits.  The mapping forgets arenas, stored       *)
(* depths and the code left; the counters disappear because they are the   *)
(* calls in progress, which is the invariant above.                        *)
(***************************************************************************)
Call(f) == [kind |-> f.kind, passes |-> f.iter]
CallsOf(s) == [i \in DOMAIN s |-> Call(s[i])]

(* Only a body answers its trampoline with a tail call. *)
TailOnBody == outcome = "tail" => ~Done /\ Top.kind = "body"

-----------------------------------------------------------------------------
(* What the mapping does to a stack, *)
LEMMA MappedShape ==
    ASSUME NEW s \in Seq(Frames)
    PROVE  /\ CallsOf(s) \in Seq([kind : {"expr", "body", "native", "eval"}, passes : 0 .. MaxIter])
           /\ DOMAIN CallsOf(s) = DOMAIN s
           /\ Len(CallsOf(s)) = Len(s)
           /\ CallsOf(s) = <<>> <=> s = <<>>
           /\ \A kind : Cardinality({i \in DOMAIN CallsOf(s) : CallsOf(s)[i].kind = kind})
                          = Count(kind, s)
<1> DEFINE C == [kind : {"expr", "body", "native", "eval"}, passes : 0 .. MaxIter]
<1>1. DOMAIN s = 1 .. Len(s) /\ Len(s) \in Nat /\ \A i \in DOMAIN s : s[i] \in Frames
  OBVIOUS
<1>2. \A i \in DOMAIN s : Call(s[i]) \in C
  BY <1>1 DEF Call, Frames
<1>3. DOMAIN CallsOf(s) = 1 .. Len(s) /\ \A i \in 1 .. Len(s) : CallsOf(s)[i] = Call(s[i])
  BY <1>1 DEF CallsOf
<1>4. CallsOf(s) \in Seq(C)
  <2>1. \A i \in 1 .. Len(s) : Call(s[i]) \in C
    BY <1>1, <1>2
  <2>2. CallsOf(s) = [i \in 1 .. Len(s) |-> Call(s[i])]
    BY <1>1 DEF CallsOf
  <2> HIDE DEF C
  <2>3. [i \in 1 .. Len(s) |-> Call(s[i])] \in Seq(C)
    BY <1>1, <2>1
  <2> QED
    BY <2>2, <2>3
<1>5. Len(CallsOf(s)) = Len(s)
  <2> HIDE DEF C
  <2> QED
    BY <1>1, <1>3, <1>4
<1>6. CallsOf(s) = <<>> <=> s = <<>>
  <2> HIDE DEF C
  <2>1. /\ \A t \in Seq(C) : t = <<>> <=> Len(t) = 0
        /\ s = <<>> <=> Len(s) = 0
    OBVIOUS
  <2> QED
    BY <1>4, <1>5, <2>1
<1>7. ASSUME NEW kind
      PROVE  {i \in DOMAIN CallsOf(s) : CallsOf(s)[i].kind = kind}
                = {i \in DOMAIN s : s[i].kind = kind}
  BY <1>1, <1>3 DEF Call
<1> QED
  BY <1>1, <1>3, <1>4, <1>5, <1>6, <1>7 DEF Count

(* to a frame pushed, *)
LEMMA MappedPush ==
    ASSUME NEW s \in Seq(Frames), NEW f \in Frames
    PROVE  CallsOf(Append(s, f)) = Append(CallsOf(s), Call(f))
<1> DEFINE t == Append(s, f)
           u == Append(CallsOf(s), Call(f))
           n == Len(s)
<1>1. /\ n \in Nat /\ DOMAIN s = 1 .. n
      /\ t \in Seq(Frames) /\ DOMAIN t = 1 .. (n + 1) /\ t[n + 1] = f
      /\ \A i \in 1 .. n : t[i] = s[i]
  OBVIOUS
<1>2. Call(f) \in [kind : {"expr", "body", "native", "eval"}, passes : 0 .. MaxIter]
  BY DEF Call, Frames
<1>3. /\ DOMAIN u = 1 .. (n + 1) /\ u[n + 1] = Call(f)
      /\ \A i \in 1 .. n : u[i] = CallsOf(s)[i]
      /\ u = [i \in 1 .. (n + 1) |-> u[i]]
  <2> DEFINE C == [kind : {"expr", "body", "native", "eval"}, passes : 0 .. MaxIter]
             c == CallsOf(s)
             e == Call(f)
  <2>1. c \in Seq(C) /\ Len(c) = n /\ e \in C
    BY <1>2, MappedShape
  <2> HIDE DEF C, c, e
  <2>2. /\ Append(c, e) \in Seq(C) /\ Len(Append(c, e)) = n + 1
        /\ Append(c, e)[n + 1] = e /\ \A i \in 1 .. n : Append(c, e)[i] = c[i]
    BY <1>1, <2>1
  <2>3. \A v \in Seq(C) : DOMAIN v = 1 .. Len(v) /\ v = [i \in 1 .. Len(v) |-> v[i]]
    OBVIOUS
  <2> QED
    BY <2>2, <2>3 DEF c, e
<1>4. \A i \in 1 .. n : CallsOf(s)[i] = Call(s[i])
  BY <1>1 DEF CallsOf
<1>5. \A i \in 1 .. (n + 1) : u[i] = Call(t[i])
  BY <1>1, <1>3, <1>4
<1>6. CallsOf(t) = [i \in 1 .. (n + 1) |-> Call(t[i])]
  BY <1>1 DEF CallsOf
<1> HIDE DEF t, u
<1>7. CallsOf(t) = u
  BY <1>3, <1>5, <1>6
<1> QED
  BY <1>7 DEF t, u

(* and to the innermost frame and the rest. *)
LEMMA MappedPop ==
    ASSUME NEW s \in Seq(Frames), s # <<>>
    PROVE  /\ Limits!Last(CallsOf(s)) = Call(Innermost(s))
           /\ Limits!Front(CallsOf(s)) = CallsOf(Rest(s))
<1> DEFINE n == Len(s)
           c == CallsOf(s)
           t == SubSeq(s, 1, n - 1)
           u == SubSeq(c, 1, n - 1)
<1>1. /\ n \in Nat /\ n > 0 /\ DOMAIN s = 1 .. n
      /\ DOMAIN t = 1 .. (n - 1) /\ \A i \in 1 .. (n - 1) : t[i] = s[i]
  OBVIOUS
<1>2. \A i \in 1 .. n : c[i] = Call(s[i])
  BY <1>1 DEF CallsOf
<1>3. /\ c \in Seq([kind : {"expr", "body", "native", "eval"}, passes : 0 .. MaxIter])
      /\ Len(c) = n
  BY <1>1, MappedShape
<1> HIDE DEF c
<1>4. u = [i \in 1 .. (n - 1) |-> c[i]]
  BY <1>1, <1>3
<1>5. CallsOf(t) = [i \in 1 .. (n - 1) |-> Call(t[i])]
  BY <1>1 DEF CallsOf
<1>6. u = CallsOf(t)
  BY <1>1, <1>2, <1>4, <1>5
<1>7. c[n] = Call(s[n])
  BY <1>1, <1>2
<1> QED
  BY <1>3, <1>6, <1>7 DEF c, Innermost, Rest, Limits!Last, Limits!Front

(* A tail call in the place of the innermost body. *)
LEMMA Replaced ==
    ASSUME NEW s \in Seq(Frames), s # <<>>, NEW f \in Frames,
           Call(f) = [kind |-> Innermost(s).kind, passes |-> Innermost(s).iter + 1]
    PROVE  Append(CallsOf(Rest(s)), Call(f))
              = [CallsOf(s) EXCEPT ![Len(CallsOf(s))].passes = @ + 1]
<1> DEFINE n == Len(s)
           t == Append(CallsOf(Rest(s)), Call(f))
           u == [CallsOf(s) EXCEPT ![n].passes = @ + 1]
<1>1. /\ n \in Nat /\ n > 0 /\ DOMAIN s = 1 .. n
      /\ Rest(s) \in Seq(Frames) /\ Len(Rest(s)) = n - 1
      /\ \A i \in 1 .. (n - 1) : Rest(s)[i] = s[i]
  <2>1. n \in Nat /\ n > 0 /\ DOMAIN s = 1 .. n
    OBVIOUS
  <2>2. /\ SubSeq(s, 1, n - 1) \in Seq(Frames) /\ Len(SubSeq(s, 1, n - 1)) = n - 1
        /\ \A i \in 1 .. (n - 1) : SubSeq(s, 1, n - 1)[i] = s[i]
    BY <2>1
  <2> QED
    BY <2>1, <2>2 DEF Rest
<1>2. t = CallsOf(Append(Rest(s), f))
  BY <1>1, MappedPush
<1>3. /\ DOMAIN Append(Rest(s), f) = 1 .. n
      /\ Append(Rest(s), f)[n] = f
      /\ \A i \in 1 .. (n - 1) : Append(Rest(s), f)[i] = s[i]
  <2> HIDE DEF n
  <2>1. n \in Nat /\ Rest(s) \in Seq(Frames) /\ Len(Rest(s)) = n - 1
    BY <1>1
  <2>2. ASSUME NEW r \in Seq(Frames), Len(r) = n - 1
        PROVE  /\ DOMAIN Append(r, f) = 1 .. n /\ Append(r, f)[n] = f
               /\ \A i \in 1 .. (n - 1) : Append(r, f)[i] = r[i]
    BY <2>1, <2>2
  <2> QED
    BY <1>1, <2>1, <2>2
<1>4. t = [i \in 1 .. n |-> IF i = n THEN Call(f) ELSE Call(s[i])]
  <2> DEFINE a == Append(Rest(s), f)
  <2> HIDE DEF a
  <2>1. /\ t = [i \in DOMAIN a |-> Call(a[i])] /\ DOMAIN a = 1 .. n
        /\ a[n] = f /\ \A i \in 1 .. (n - 1) : a[i] = s[i]
    BY <1>2, <1>3 DEF a, CallsOf
  <2>2. \A i \in 1 .. n : Call(a[i]) = IF i = n THEN Call(f) ELSE Call(s[i])
    <3>1. ASSUME NEW i \in 1 .. n PROVE i = n \/ i \in 1 .. (n - 1)
      <4>1. n \in Nat
        BY <1>1
      <4> HIDE DEF n
      <4> QED
        BY <4>1
    <3> QED
      BY <2>1, <3>1
  <2> HIDE DEF t
  <2> QED
    BY <2>1, <2>2
<1>5. u = [i \in 1 .. n |-> IF i = n THEN Call(f) ELSE Call(s[i])]
  <2>1. CallsOf(s) = [i \in 1 .. n |-> Call(s[i])]
    BY <1>1 DEF CallsOf
  <2>2. u = [i \in 1 .. n |-> IF i = n THEN [Call(s[n]) EXCEPT !.passes = @ + 1] ELSE Call(s[i])]
    BY <1>1, <2>1
  <2>3. [Call(s[n]) EXCEPT !.passes = @ + 1] = Call(f)
    BY DEF Call, Innermost
  <2> QED
    BY <2>2, <2>3
<1>6. Len(CallsOf(s)) = n
  BY MappedShape
<1> QED
  BY <1>4, <1>5, <1>6

(* The calls seen through the mapping: how many there are is what the       *)
(* counters say, and the innermost is the innermost frame.                  *)
LEMMA View ==
    ASSUME IInv
    PROVE  /\ Calls = CallsOf(stack) /\ Calls' = CallsOf(stack')
           /\ Calls = <<>> <=> Done
           /\ Limits!InProgress("body") = depth
           /\ Limits!InProgress("eval") = evalDepth
           /\ ~Done => /\ Limits!Last(Calls) = Call(Top)
                       /\ Limits!Front(Calls) = CallsOf(Below)
                       /\ Len(Calls) = Len(stack)
<1>1. stack \in Seq(Frames) /\ depth = Count("body", stack) /\ evalDepth = Count("eval", stack)
  BY DEF IInv, Sound
<1>2. Calls = CallsOf(stack) /\ Calls' = CallsOf(stack')
  BY DEF Calls, CallsOf, Call
<1>3. \A kind : Limits!InProgress(kind) = Count(kind, stack)
  <2>1. \A kind : Cardinality({i \in DOMAIN CallsOf(stack) : CallsOf(stack)[i].kind = kind})
                    = Count(kind, stack)
    BY <1>1, MappedShape
  <2>2. \A S : Limits!Cardinality(S) = Cardinality(S)
    BY DEF Limits!Cardinality, Cardinality
  <2> QED
    BY <1>2, <2>1, <2>2 DEF Limits!InProgress
<1>4. (Calls = <<>> <=> Done) /\ Len(Calls) = Len(stack)
  BY <1>1, <1>2, MappedShape DEF Done
<1>5. ASSUME ~Done
      PROVE  /\ Limits!Last(Calls) = Call(Top)
             /\ Limits!Front(Calls) = CallsOf(Below)
  <2>1. Top = Innermost(stack) /\ Below = Rest(stack)
    BY DEF Top, Below, Innermost, Rest
  <2> QED
    BY <1>1, <1>2, <1>5, <2>1, MappedPop DEF Done
<1> QED
  BY <1>1, <1>2, <1>3, <1>4, <1>5

(* A call used up does not show. *)
LEMMA SpentView ==
    ASSUME IInv, Running, Top.left > 0
    PROVE  CallsOf(Spent) = Calls /\ Spent \in Seq(Frames)
<1>1. /\ Spent \in Seq(Frames) /\ stack \in Seq(Frames) /\ Len(Spent) = Len(stack)
      /\ \A i \in DOMAIN stack : Spent[i].kind = stack[i].kind /\ Spent[i].iter = stack[i].iter
  BY SoundSpent DEF Sound, IInv
<1>2. DOMAIN Spent = DOMAIN stack
  BY <1>1
<1>3. CallsOf(Spent) = CallsOf(stack)
  BY <1>1, <1>2 DEF CallsOf, Call
<1> QED
  BY <1>1, <1>3, View

Mapped == Limits!Next \/ UNCHANGED <<Calls, outcome, cancelled>>

-----------------------------------------------------------------------------
(* A call of a lambda is a call that begins, one that is refused, or one    *)
(* whose arguments make its result undefined, which nobody sees.            *)
LEMMA CallLambdaMapped ==
    ASSUME IInv, NEW home \in 0 .. MaxEval, CallLambda(home)
    PROVE  Mapped
<1>1. /\ ~Done /\ outcome = "running" /\ Calls # <<>> /\ depth \in Nat /\ depth <= MaxDepth
      /\ UNCHANGED cancelled
  BY View DEF CallLambda, Running, IInv, TypeOK, WithinLimits
<1>2. CallsOf(Spent) = Calls /\ Spent \in Seq(Frames) /\ Spent[Len(Spent)].arena \in 0 .. MaxEval
  <2>1. Spent[Len(Spent)] \in Frames
    BY SoundSpent DEF CallLambda
  <2> QED
    BY <2>1, SpentView DEF CallLambda, Frames
<1>3. Apply(Spent, depth, home, 0)
  BY DEF CallLambda
<1>4. CASE cancelled
  <2>1. Calls' = Calls /\ outcome' = "D3001"
    BY <1>2, <1>3, <1>4, View DEF Apply, Refuse, Deliver
  <2>2. Limits!Refused("body")
    BY <1>1, <1>4, <2>1 DEF Limits!Refused
  <2> QED
    BY <2>2 DEF Mapped, Limits!Next
<1>5. CASE ~cancelled
  <2>1. CASE \E r \in {"T0410", "value"} : Deliver(Spent, r)
    <3>1. Calls' = Calls /\ outcome' \in {"T0410", "running"}
      BY <1>2, <2>1, View DEF Deliver
    <3>2. CASE outcome' = "running"
      BY <1>1, <3>1, <3>2 DEF Mapped
    <3>3. CASE outcome' = "T0410"
      <4>1. Limits!Refused("body")
        BY <1>1, <1>5, <3>1, <3>3 DEF Limits!Refused, Limits!Refusals
      <4> QED
        BY <4>1 DEF Mapped, Limits!Next
    <3> QED
      BY <3>1, <3>2, <3>3
  <2>2. CASE depth + 1 > MaxDepth /\ Deliver(Spent, "U1001")
    <3>1. Calls' = Calls /\ outcome' = "U1001" /\ depth = MaxDepth
      BY <1>1, <1>2, <2>2, View, LimitsAssumption DEF Deliver
    <3>2. Limits!Refused("body")
      BY <1>1, <1>5, <3>1, View DEF Limits!Refused, Limits!Refusals
    <3> QED
      BY <3>2 DEF Mapped, Limits!Next
  <2>3. CASE /\ depth + 1 <= MaxDepth
             /\ stack' = Append(Spent, Frame("body", Spent[Len(Spent)].arena, home, depth + 1, 0))
             /\ outcome' = "running"
    <3> DEFINE f == Frame("body", Spent[Len(Spent)].arena, home, depth + 1, 0)
    <3>1. f \in Frames /\ Call(f) = [kind |-> "body", passes |-> 0]
      BY <1>1, <1>2, <2>3, LimitsAssumption DEF Frame, Frames, Call
    <3>2. Calls' = Append(Calls, [kind |-> "body", passes |-> 0])
      <4> HIDE DEF f
      <4>1. CallsOf(Append(Spent, f)) = Append(CallsOf(Spent), Call(f))
        BY <1>2, <3>1, MappedPush
      <4>2. stack' = Append(Spent, f)
        BY <2>3 DEF f
      <4> QED
        BY <1>2, <3>1, <4>1, <4>2, View
    <3>3. Limits!InProgress("body") < MaxDepth
      BY <1>1, <2>3, View, LimitsAssumption
    <3>4. Limits!Begin("body")
      BY <1>1, <1>5, <2>3, <3>2, <3>3 DEF Limits!Begin
    <3> QED
      BY <3>4 DEF Mapped, Limits!Next
  <2> QED
    BY <1>3, <1>5, <2>1, <2>2, <2>3 DEF Apply, Enter
<1> QED
  BY <1>4, <1>5

(* A builtin is a call no limit looks at. *)
LEMMA CallNativeMapped ==
    ASSUME IInv, CallNative
    PROVE  Mapped
<1> DEFINE f == Frame("native", Top.arena, Top.arena, 0, 0)
<1>1. f \in Frames /\ Call(f) = [kind |-> "native", passes |-> 0]
  BY TopFacts, LimitsAssumption DEF CallNative, Running, Frame, Frames, Call
<1>2. Calls' = Append(Calls, [kind |-> "native", passes |-> 0])
  <2>1. stack' = Append(Spent, f) /\ CallsOf(Spent) = Calls /\ Spent \in Seq(Frames)
    BY SpentView DEF CallNative
  <2> HIDE DEF f
  <2> QED
    BY <1>1, <2>1, MappedPush, View
<1>3. Limits!Begin("native")
  BY <1>2, View DEF CallNative, Running, Limits!Begin
<1> QED
  BY <1>3 DEF Mapped, Limits!Next

(* $eval begins, or is refused for its argument, its depth or its text. *)
LEMMA CallEvalMapped ==
    ASSUME IInv, CallEval
    PROVE  Mapped
<1>1. /\ ~Done /\ outcome = "running" /\ Calls # <<>> /\ UNCHANGED cancelled
      /\ evalDepth \in Nat /\ evalDepth <= MaxEval
      /\ CallsOf(Spent) = Calls /\ Spent \in Seq(Frames)
  BY View, SpentView DEF CallEval, Running, IInv, TypeOK, WithinLimits
<1>2. CASE \E r \in {"T0410", "value"} : Deliver(Spent, r)
  <2>1. Calls' = Calls /\ outcome' \in {"T0410", "running"}
    BY <1>1, <1>2, View DEF Deliver
  <2>2. CASE outcome' = "running"
    BY <1>1, <2>1, <2>2 DEF Mapped
  <2>3. CASE outcome' = "T0410"
    <3>1. Limits!Refused("eval")
      BY <1>1, <2>1, <2>3 DEF Limits!Refused, Limits!Refusals
    <3> QED
      BY <3>1 DEF Mapped, Limits!Next
  <2> QED
    BY <2>1, <2>2, <2>3
<1>3. CASE evalDepth + 1 > MaxEval /\ Deliver(Spent, "D3121")
  <2>1. Calls' = Calls /\ outcome' = "D3121" /\ Limits!InProgress("eval") = MaxEval
    BY <1>1, <1>3, View, LimitsAssumption DEF Deliver
  <2>2. Limits!Refused("eval")
    BY <1>1, <2>1 DEF Limits!Refused, Limits!Refusals
  <2> QED
    BY <2>2 DEF Mapped, Limits!Next
<1>4. CASE evalDepth + 1 <= MaxEval /\ Deliver(Spent, "D3120")
  <2>1. Calls' = Calls /\ outcome' = "D3120" /\ Limits!InProgress("eval") # MaxEval
    BY <1>1, <1>4, View, LimitsAssumption DEF Deliver
  <2>2. Limits!Refused("eval")
    BY <1>1, <2>1 DEF Limits!Refused, Limits!Refusals
  <2> QED
    BY <2>2 DEF Mapped, Limits!Next
<1>5. CASE /\ evalDepth + 1 <= MaxEval
           /\ stack' = Append(Spent, Frame("eval", evalDepth + 1, evalDepth + 1, 0, 0))
           /\ UNCHANGED outcome
  <2> DEFINE f == Frame("eval", evalDepth + 1, evalDepth + 1, 0, 0)
  <2>1. f \in Frames /\ Call(f) = [kind |-> "eval", passes |-> 0]
    BY <1>1, <1>5, LimitsAssumption DEF Frame, Frames, Call
  <2>2. Calls' = Append(Calls, [kind |-> "eval", passes |-> 0])
    <3>1. stack' = Append(Spent, f)
      BY <1>5
    <3> HIDE DEF f
    <3> QED
      BY <1>1, <2>1, <3>1, MappedPush, View
  <2>3. Limits!InProgress("eval") < MaxEval
    BY <1>1, <1>5, View, LimitsAssumption
  <2>4. Limits!Begin("eval")
    BY <1>1, <1>5, <2>2, <2>3 DEF Limits!Begin
  <2> QED
    BY <2>4 DEF Mapped, Limits!Next
<1> QED
  BY <1>2, <1>3, <1>4, <1>5 DEF CallEval

(* Code that ends, by itself or because a loop saw the flag. *)
LEMMA EndMapped ==
    ASSUME IInv, Conclude \/ TailCall \/ Poll
    PROVE  Mapped
<1>1. Calls # <<>> /\ outcome = "running" /\ ~Done /\ Calls' = Calls /\ UNCHANGED cancelled
  BY View DEF Conclude, TailCall, Poll, Running
<1>2. Limits!Last(Calls).kind = Top.kind
  BY <1>1, View DEF Call
<1>3. Limits!End
  BY <1>1, <1>2 DEF Limits!End, Conclude, TailCall, Poll
<1> QED
  BY <1>3 DEF Mapped, Limits!Next

(* What every return has in common. *)
LEMMA ReturnFacts ==
    ASSUME IInv, Returning
    PROVE  /\ Calls # <<>> /\ outcome # "running"
           /\ outcome \in {"value", "tail"} \cup Errors
           /\ Limits!Last(Calls).kind = Top.kind
           /\ Limits!Last(Calls).passes = Top.iter
           /\ stack' = Below => Calls' = Limits!Front(Calls)
           /\ Top.kind \in {"expr", "body", "native", "eval"}
<1>1. /\ Calls # <<>> /\ ~Done /\ outcome # "running" /\ Calls' = CallsOf(stack')
      /\ Limits!Last(Calls) = Call(Top) /\ Limits!Front(Calls) = CallsOf(Below)
  BY View DEF Returning
<1>2. /\ outcome \in {"value", "tail"} \cup Errors
      /\ Top.kind \in {"expr", "body", "native", "eval"}
  BY <1>1, TopFacts DEF Frames, IInv, TypeOK
<1> QED
  BY <1>1, <1>2 DEF Call

(* A body's result goes to the code that called it. *)
LEMMA ReturnBodyMapped ==
    ASSUME IInv, ReturnBody
    PROVE  Mapped
<1>1. Limits!Return
  BY ReturnFacts DEF ReturnBody, Deliver, Limits!Return, Limits!Given
<1> QED
  BY <1>1 DEF Mapped, Limits!Next

(* So does a builtin's; a builtin makes no tail call. *)
LEMMA ReturnNativeMapped ==
    ASSUME IInv, TailOnBody, ReturnNative
    PROVE  Mapped
<1>1. outcome # "tail"
  BY DEF ReturnNative, TailOnBody
<1>2. Limits!Return
  BY <1>1, ReturnFacts DEF ReturnNative, Deliver, Limits!Return, Limits!Given
<1> QED
  BY <1>2 DEF Mapped, Limits!Next

(* Whatever ends an $eval, but a value, is its error. *)
LEMMA ReturnEvalMapped ==
    ASSUME IInv, TailOnBody, ReturnEval
    PROVE  Mapped
<1>1. outcome # "tail"
  BY DEF ReturnEval, TailOnBody
<1>2. outcome' = IF outcome = "value" THEN "running" ELSE "D3121"
  <2>1. outcome = "value" \/ outcome \in Errors
    BY <1>1, ReturnFacts DEF ReturnEval
  <2> QED
    BY <2>1 DEF ReturnEval, Deliver, Errors
<1>3. /\ stack' = Below /\ UNCHANGED cancelled /\ Returning /\ Top.kind = "eval"
  BY DEF ReturnEval, Deliver
<1>4. Limits!Return
  BY <1>1, <1>2, <1>3, ReturnFacts DEF Limits!Return
<1> QED
  BY <1>4 DEF Mapped, Limits!Next

(* The expression's outcome stays. *)
LEMMA ReturnExprMapped ==
    ASSUME IInv, TailOnBody, ReturnExpr
    PROVE  Mapped
<1>1. outcome # "tail"
  BY DEF ReturnExpr, TailOnBody
<1>2. stack' = Below
  BY TopFacts DEF ReturnExpr, Returning
<1>3. Limits!Return
  BY <1>1, <1>2, ReturnFacts DEF ReturnExpr, Limits!Return
<1> QED
  BY <1>3 DEF Mapped, Limits!Next

(* One more pass of the trampoline: the new body takes the place of the    *)
(* one that ended, and the limit on bodies has room for it.                *)
LEMMA BounceMapped ==
    ASSUME IInv, NEW home \in 0 .. MaxEval, Bounce(home)
    PROVE  Mapped
<1>1. /\ Returning /\ ~Done /\ outcome = "tail" /\ Top.kind = "body" /\ UNCHANGED cancelled
      /\ Top \in Frames /\ Top.iter \in 0 .. MaxIter
      /\ depth \in Nat /\ depth > 0 /\ depth <= MaxDepth /\ Top.depth = depth
      /\ Below \in Seq(Frames) /\ Below # <<>>
  BY TopFacts DEF Bounce, Returning, Frames, IInv, WithinLimits, Sound
<1>2. /\ Calls # <<>> /\ Limits!Last(Calls).passes = Top.iter
      /\ Limits!Front(Calls) = CallsOf(Below) /\ Calls' = CallsOf(stack')
      /\ stack' = Below => Calls' = Limits!Front(Calls)
  BY <1>1, ReturnFacts, View
<1>3. CASE Top.iter + 1 > MaxIter
  <2>1. stack' = Below /\ outcome' = "U1001" /\ Top.iter = MaxIter
    BY <1>1, <1>3, LimitsAssumption DEF Bounce, Deliver
  <2>2. Limits!NotAgain
    BY <1>1, <1>2, <2>1 DEF Limits!NotAgain
  <2> QED
    BY <2>2 DEF Mapped, Limits!Next
<1>4. CASE ~(Top.iter + 1 > MaxIter)
  <2>1. Apply(Below, depth - 1, home, Top.iter + 1)
    BY <1>1, <1>4 DEF Bounce
  <2>2. Top.iter < MaxIter /\ Top.iter # MaxIter
    BY <1>1, <1>4, LimitsAssumption
  <2>3. CASE cancelled
    <3>1. stack' = Below /\ outcome' = "D3001"
      BY <2>1, <2>3 DEF Apply, Refuse, Deliver
    <3>2. Limits!NotAgain
      BY <1>1, <1>2, <2>2, <2>3, <3>1 DEF Limits!NotAgain
    <3> QED
      BY <3>2 DEF Mapped, Limits!Next
  <2>4. CASE ~cancelled
    <3>1. CASE \E r \in {"T0410", "value"} : Deliver(Below, r)
      <4>1. stack' = Below /\ outcome' \in {"T0410", "running"}
        BY <3>1 DEF Deliver
      <4>2. Limits!NotAgain
        BY <1>1, <1>2, <2>2, <2>4, <4>1 DEF Limits!NotAgain
      <4> QED
        BY <4>2 DEF Mapped, Limits!Next
    <3>2. ~(depth - 1 + 1 > MaxDepth)
      BY <1>1, LimitsAssumption
    <3>3. CASE /\ stack' = Append(Below, Frame("body", Below[Len(Below)].arena, home,
                                               depth - 1 + 1, Top.iter + 1))
               /\ outcome' = "running"
      <4> DEFINE f == Frame("body", Below[Len(Below)].arena, home, depth - 1 + 1, Top.iter + 1)
      <4>1. f \in Frames /\ Call(f) = [kind |-> "body", passes |-> Top.iter + 1]
        <5>1. Below[Len(Below)] \in Frames
          BY <1>1
        <5>2. Below[Len(Below)].arena \in 0 .. MaxEval
          BY <5>1 DEF Frames
        <5>3. depth - 1 + 1 \in 0 .. MaxDepth /\ Top.iter + 1 \in 0 .. MaxIter
          BY <1>1, <2>2, LimitsAssumption
        <5>4. f \in Frames
          BY <5>2, <5>3, LimitsAssumption DEF Frame, Frames
        <5> QED
          BY <5>4 DEF Frame, Call
      <4>2. Calls' = Append(CallsOf(Below), Call(f))
        <5>1. stack' = Append(Below, f)
          BY <3>3
        <5> HIDE DEF f
        <5> QED
          BY <1>1, <1>2, <4>1, <5>1, MappedPush
      <4>3. Calls' = [Calls EXCEPT ![Len(Calls)].passes = @ + 1]
        <5>1. stack \in Seq(Frames) /\ stack # <<>> /\ Below = Rest(stack) /\ Top = Innermost(stack)
          BY <1>1 DEF IInv, Sound, Done, Below, Rest, Top, Innermost
        <5>2. Calls = CallsOf(stack)
          BY View
        <5> HIDE DEF f
        <5> QED
          BY <1>1, <4>1, <4>2, <5>1, <5>2, Replaced
      <4>4. Limits!Again
        BY <1>1, <1>2, <2>2, <2>4, <3>3, <4>3 DEF Limits!Again
      <4> QED
        BY <4>4 DEF Mapped, Limits!Next
    <3> QED
      BY <2>1, <2>4, <3>1, <3>2, <3>3 DEF Apply, Enter
  <2> QED
    BY <2>3, <2>4
<1> QED
  BY <1>3, <1>4

-----------------------------------------------------------------------------
(* Only code that runs ends in a tail call, and only a body's.              *)
LEMMA TailStep ==
    ASSUME IInv, TailOnBody, [Next]_vars
    PROVE  TailOnBody'
<1>1. ASSUME NEW home \in 0 .. MaxEval, CallLambda(home) PROVE TailOnBody'
  BY <1>1 DEF CallLambda, Running, Apply, Refuse, Enter, Deliver, TailOnBody
<1>2. ASSUME CallNative \/ CallEval PROVE TailOnBody'
  BY <1>2 DEF CallNative, CallEval, Running, Deliver, TailOnBody
<1>3. ASSUME Conclude \/ Poll PROVE TailOnBody'
  BY <1>3 DEF Conclude, Poll, TailOnBody
<1>4. ASSUME TailCall PROVE TailOnBody'
  BY <1>4 DEF TailCall, Running, TailOnBody, Done, Top
<1>5. ASSUME ReturnBody \/ ReturnNative \/ ReturnEval \/ ReturnExpr PROVE TailOnBody'
  BY <1>5 DEF ReturnBody, ReturnNative, ReturnEval, ReturnExpr, Deliver, TailOnBody
<1>6. ASSUME NEW home \in 0 .. MaxEval, Bounce(home) PROVE TailOnBody'
  BY <1>6 DEF Bounce, Apply, Refuse, Enter, Deliver, TailOnBody
<1>7. ASSUME Cancel \/ UNCHANGED vars PROVE TailOnBody'
  BY <1>7 DEF Cancel, vars, TailOnBody, Done, Top
<1> QED
  BY <1>1, <1>2, <1>3, <1>4, <1>5, <1>6, <1>7 DEF Next, Evaluate

(* The evaluation starts with one piece of code. *)
LEMMA InitMapped == Init => Limits!Init /\ TailOnBody
<1> SUFFICES ASSUME Init PROVE Limits!Init /\ TailOnBody
  OBVIOUS
<1>1. stack = <<Frame("expr", 0, 0, 0, 0)>> /\ outcome = "running" /\ cancelled \in BOOLEAN
  BY DEF Init
<1>2. Calls = <<[kind |-> "expr", passes |-> 0]>>
  BY <1>1 DEF Calls, Frame
<1> QED
  BY <1>1, <1>2 DEF Limits!Init, TailOnBody

(* Every step of the machine is a step of the calls, or does not show. *)
LEMMA StepMapped == IInv /\ TailOnBody /\ [Next]_vars => [Limits!Next]_(Limits!vars)
<1> SUFFICES ASSUME IInv, TailOnBody, [Next]_vars PROVE Mapped
  BY DEF Mapped, Limits!vars
<1>1. ASSUME NEW home \in 0 .. MaxEval, CallLambda(home) PROVE Mapped
  BY <1>1, CallLambdaMapped
<1>2. ASSUME CallNative PROVE Mapped
  BY <1>2, CallNativeMapped
<1>3. ASSUME CallEval PROVE Mapped
  BY <1>3, CallEvalMapped
<1>4. ASSUME Conclude \/ TailCall \/ Poll PROVE Mapped
  BY <1>4, EndMapped
<1>5. ASSUME ReturnBody PROVE Mapped
  BY <1>5, ReturnBodyMapped
<1>6. ASSUME NEW home \in 0 .. MaxEval, Bounce(home) PROVE Mapped
  BY <1>6, BounceMapped
<1>7. ASSUME ReturnNative PROVE Mapped
  BY <1>7, ReturnNativeMapped
<1>8. ASSUME ReturnEval PROVE Mapped
  BY <1>8, ReturnEvalMapped
<1>9. ASSUME ReturnExpr PROVE Mapped
  BY <1>9, ReturnExprMapped
<1>10. ASSUME Cancel PROVE Mapped
  <2>1. Limits!Cancel
    BY <1>10 DEF Cancel, Limits!Cancel, Calls
  <2> QED
    BY <2>1 DEF Mapped, Limits!Next
<1>11. ASSUME UNCHANGED vars PROVE Mapped
  BY <1>11 DEF vars, Mapped, Calls
<1> QED
  BY <1>1, <1>2, <1>3, <1>4, <1>5, <1>6, <1>7, <1>8, <1>9, <1>10, <1>11 DEF Next, Evaluate

(* CallMachine implements CallLimits: with its counters, arenas and stored *)
(* depths, a call is refused exactly when as many of its kind as the limit *)
(* says are in progress, calls return in the order they nest, and nothing  *)
(* that is a lambda starts after a cancellation.                            *)
THEOREM LimitsImplemented == Spec => ImplementsLimits
<1>1. Init => Limits!Init /\ TailOnBody
  BY InitMapped
<1>2. IInv /\ TailOnBody /\ [Next]_vars => TailOnBody'
  BY TailStep
<1>3. IInv /\ TailOnBody /\ [Next]_vars => [Limits!Next]_(Limits!vars)
  BY StepMapped
<1> QED
  BY <1>1, <1>2, <1>3, Invariant, PTL DEF Spec, ImplementsLimits, Limits!Spec
-----------------------------------------------------------------------------
(***************************************************************************)
(* The depth of the stack, and the variant of an evaluation.               *)
(***************************************************************************)
(* What a pass of the trampoline does to the stack. *)
LEMMA ApplyShape ==
    ASSUME NEW s, NEW d, NEW home, NEW iter, Apply(s, d, home, iter)
    PROVE  \/ stack' = s
           \/ stack' = Append(s, Frame("body", s[Len(s)].arena, home, d + 1, iter))
BY DEF Apply, Refuse, Enter, Deliver

LEMMA BodyFrame ==
    ASSUME NEW f \in Frames, NEW home \in 0 .. MaxEval, NEW d \in Nat,
           NEW iter \in 0 .. MaxIter, d + 1 <= MaxDepth
    PROVE  Frame("body", f.arena, home, d + 1, iter) \in Frames
<1>1. f.arena \in 0 .. MaxEval
  BY DEF Frames
<1>2. d + 1 \in 0 .. MaxDepth /\ CodeSize \in 0 .. CodeSize
  BY LimitsAssumption
<1> QED
  BY <1>1, <1>2 DEF Frame, Frames

(* How the counts change with the stack. *)
LEMMA CountPush ==
    ASSUME NEW s \in Seq(Frames), NEW f \in Frames, NEW kind
    PROVE  Count(kind, Append(s, f)) = Count(kind, s) + (IF f.kind = kind THEN 1 ELSE 0)
<1> DEFINE t == Append(s, f)
           n == Len(s)
<1>1. /\ n \in Nat /\ DOMAIN s = 1 .. n /\ t \in Seq(Frames) /\ Len(t) = n + 1
      /\ t[n + 1] = f /\ \A i \in 1 .. n : t[i] = s[i]
  OBVIOUS
<1> HIDE DEF t
<1>2. CountTo(kind, t, n) = CountTo(kind, s, n)
  BY <1>1, CountSame
<1>3. /\ t[n + 1].kind = kind => CountTo(kind, t, n + 1) = CountTo(kind, t, n) + 1
      /\ t[n + 1].kind # kind => CountTo(kind, t, n + 1) = CountTo(kind, t, n)
  BY <1>1, CountStep
<1>4. /\ Count(kind, s) = CountTo(kind, s, n) /\ Count(kind, t) = CountTo(kind, t, n + 1)
      /\ Count(kind, s) \in Nat
  BY <1>1, CountAll
<1>5. Count(kind, t) = Count(kind, s) + (IF f.kind = kind THEN 1 ELSE 0)
  BY <1>1, <1>2, <1>3, <1>4
<1> QED
  BY <1>5 DEF t

LEMMA CountPop ==
    ASSUME NEW s \in Seq(Frames), s # <<>>, NEW kind
    PROVE  Count(kind, Rest(s)) <= Count(kind, s)
<1> DEFINE m == Len(s) - 1
           t == SubSeq(s, 1, m)
<1>1. /\ m \in Nat /\ Len(s) = m + 1 /\ t \in Seq(Frames) /\ Len(t) = m
      /\ \A i \in 1 .. m : t[i] = s[i]
  <2>1. Len(s) \in Nat /\ Len(s) > 0
    OBVIOUS
  <2>2. m \in Nat /\ Len(s) = m + 1 /\ m <= Len(s)
    BY <2>1
  <2> HIDE DEF m
  <2> QED
    BY <2>2
<1>2. t = Rest(s)
  BY DEF Rest
<1> HIDE DEF t
<1>3. CountTo(kind, t, m) = CountTo(kind, s, m)
  BY <1>1, CountSame
<1>4. /\ CountTo(kind, s, m) \in Nat
      /\ \/ CountTo(kind, s, m + 1) = CountTo(kind, s, m) + 1
         \/ CountTo(kind, s, m + 1) = CountTo(kind, s, m)
  BY <1>1, CountStep
<1>5. Count(kind, s) = CountTo(kind, s, m + 1) /\ Count(kind, t) = CountTo(kind, t, m)
  BY <1>1, CountAll
<1> QED
  BY <1>2, <1>3, <1>4, <1>5

LEMMA CountSpent ==
    ASSUME IInv, Running, Top.left > 0, NEW kind
    PROVE  Spent \in Seq(Frames) /\ Count(kind, Spent) = Count(kind, stack)
<1>1. /\ Spent \in Seq(Frames) /\ stack \in Seq(Frames) /\ Len(Spent) = Len(stack)
      /\ \A i \in DOMAIN stack : Spent[i].kind = stack[i].kind
  BY SoundSpent DEF Sound, IInv
<1>2. Len(stack) \in Nat /\ \A i \in 1 .. Len(stack) : Spent[i].kind = stack[i].kind
  BY <1>1
<1>3. CountTo(kind, Spent, Len(stack)) = CountTo(kind, stack, Len(stack))
  BY <1>2, CountSame
<1> QED
  BY <1>1, <1>3, CountAll

(* Builtins nest as deep as the text has them. *)
NativesBounded == Count("native", stack) <= MaxNatives

LEMMA NativesKept == IInv /\ NativesBounded /\ [Next]_vars => NativesBounded'
<1> SUFFICES ASSUME IInv, NativesBounded, [Next]_vars PROVE NativesBounded'
  OBVIOUS
<1>1. stack \in Seq(Frames) /\ Count("native", stack) \in Nat /\ MaxNatives \in Nat
  BY CountAll, LimitsAssumption DEF IInv, Sound
<1>2. ASSUME NEW s \in Seq(Frames), Count("native", s) <= MaxNatives, s # <<>>,
             NEW d \in Nat, NEW home \in 0 .. MaxEval, NEW iter \in 0 .. MaxIter,
             Apply(s, d, home, iter), d <= MaxDepth
      PROVE  NativesBounded'
  <2> DEFINE f == Frame("body", s[Len(s)].arena, home, d + 1, iter)
  <2>1. f.kind # "native"
    BY DEF Frame
  <2>2. CASE stack' = s
    BY <1>2, <2>2 DEF NativesBounded
  <2>3. CASE stack' # s
    <3>1. d + 1 <= MaxDepth /\ stack' = Append(s, f)
      BY <1>2, <2>3 DEF Apply, Refuse, Enter, Deliver
    <3>2. s[Len(s)] \in Frames
      BY <1>2
    <3>3. f \in Frames
      BY <1>2, <3>1, <3>2, BodyFrame
    <3> HIDE DEF f
    <3>4. Count("native", Append(s, f)) = Count("native", s)
      <4>1. Count("native", s) \in Nat
        BY CountAll
      <4> QED
        BY <2>1, <3>3, <4>1, CountPush
    <3> QED
      BY <1>2, <3>1, <3>4 DEF NativesBounded
  <2> QED
    BY <2>2, <2>3
<1>3. ASSUME NEW home \in 0 .. MaxEval, CallLambda(home) PROVE NativesBounded'
  <2>1. Running /\ Top.left > 0 /\ Apply(Spent, depth, home, 0)
    BY <1>3 DEF CallLambda
  <2>2. Spent \in Seq(Frames) /\ Count("native", Spent) = Count("native", stack) /\ Spent # <<>>
    BY <2>1, CountSpent, SoundSpent
  <2>3. depth \in Nat /\ depth <= MaxDepth /\ 0 \in 0 .. MaxIter
    BY LimitsAssumption DEF IInv, TypeOK, WithinLimits
  <2> QED
    BY <1>2, <2>1, <2>2, <2>3 DEF NativesBounded
<1>4. ASSUME CallNative PROVE NativesBounded'
  <2> DEFINE f == Frame("native", Top.arena, Top.arena, 0, 0)
  <2>1. f \in Frames /\ f.kind = "native"
    BY <1>4, TopFacts, LimitsAssumption DEF CallNative, Running, Frame, Frames
  <2>2. Spent \in Seq(Frames) /\ Count("native", Spent) = Count("native", stack)
    BY <1>4, CountSpent DEF CallNative
  <2>3. stack' = Append(Spent, f) /\ Count("native", stack) < MaxNatives
    BY <1>4 DEF CallNative
  <2> HIDE DEF f
  <2>4. Count("native", stack') = Count("native", stack) + 1
    BY <2>1, <2>2, <2>3, CountPush
  <2> QED
    BY <1>1, <2>3, <2>4 DEF NativesBounded
<1>5. ASSUME CallEval PROVE NativesBounded'
  <2> DEFINE f == Frame("eval", evalDepth + 1, evalDepth + 1, 0, 0)
  <2>1. Spent \in Seq(Frames) /\ Count("native", Spent) = Count("native", stack)
    BY <1>5, CountSpent DEF CallEval
  <2>2. CASE stack' = Spent
    BY <2>1, <2>2 DEF NativesBounded
  <2>3. CASE stack' = Append(Spent, f) /\ evalDepth + 1 <= MaxEval
    <3>1. f \in Frames /\ f.kind # "native"
      BY <2>3, LimitsAssumption DEF Frame, Frames, IInv, TypeOK
    <3> HIDE DEF f
    <3>2. Count("native", stack') = Count("native", stack)
      BY <1>1, <2>1, <2>3, <3>1, CountPush
    <3> QED
      BY <3>2 DEF NativesBounded
  <2> QED
    BY <1>5, <2>2, <2>3 DEF CallEval, Deliver
<1>6. ASSUME Conclude \/ TailCall \/ Poll \/ Cancel \/ UNCHANGED vars PROVE NativesBounded'
  <2>1. stack' = stack
    BY <1>6 DEF Conclude, TailCall, Poll, Cancel, vars
  <2> QED
    BY <2>1 DEF NativesBounded
<1>7. ASSUME ~Done
      PROVE  /\ Below \in Seq(Frames) /\ Count("native", Below) <= MaxNatives
             /\ Below = Rest(stack)
  <2>1. Below = Rest(stack)
    BY DEF Below, Rest
  <2>2. Count("native", Rest(stack)) <= Count("native", stack)
    BY <1>1, <1>7, CountPop DEF Done
  <2>3. Below \in Seq(Frames) /\ Count("native", Below) \in Nat
    BY <1>7, TopFacts, CountAll DEF Sound
  <2> QED
    BY <1>1, <2>1, <2>2, <2>3 DEF NativesBounded
<1>8. ASSUME ReturnBody \/ ReturnNative \/ ReturnEval PROVE NativesBounded'
  <2>1. stack' = Below /\ ~Done
    BY <1>8 DEF ReturnBody, ReturnNative, ReturnEval, Deliver, Returning
  <2> QED
    BY <1>7, <2>1 DEF NativesBounded
<1>9. ASSUME NEW home \in 0 .. MaxEval, Bounce(home) PROVE NativesBounded'
  <2>1. /\ ~Done /\ Top \in Frames /\ Top.kind = "body" /\ Top.depth = depth
        /\ depth > 0 /\ depth \in Nat /\ depth <= MaxDepth /\ Below # <<>>
    BY <1>9, TopFacts DEF Bounce, Returning, IInv, WithinLimits
  <2>2. CASE Top.iter + 1 > MaxIter
    <3>1. stack' = Below
      BY <1>9, <2>2 DEF Bounce, Deliver
    <3> QED
      BY <1>7, <2>1, <3>1 DEF NativesBounded
  <2>3. CASE ~(Top.iter + 1 > MaxIter)
    <3>1. Apply(Below, Top.depth - 1, home, Top.iter + 1)
      BY <1>9, <2>3 DEF Bounce
    <3>2. /\ Top.iter + 1 \in 0 .. MaxIter /\ Top.depth - 1 \in Nat
          /\ Top.depth - 1 <= MaxDepth
      BY <2>1, <2>3, LimitsAssumption DEF Frames
    <3> QED
      BY <1>2, <1>7, <2>1, <3>1, <3>2
  <2> QED
    BY <2>2, <2>3
<1>10. ASSUME ReturnExpr PROVE NativesBounded'
  <2>1. stack' = Below
    BY <1>10, TopFacts DEF ReturnExpr, Returning
  <2> QED
    BY <1>7, <1>10, <2>1 DEF ReturnExpr, Returning, NativesBounded
<1> QED
  BY <1>3, <1>4, <1>5, <1>6, <1>8, <1>9, <1>10 DEF Next, Evaluate

(* A frame of a sound stack is of one of four kinds, and one is the         *)
(* expression's.                                                            *)
LEMMA KindsAddUp ==
    ASSUME NEW s, NEW d, NEW e, Sound(s, d, e)
    PROVE  Len(s) <= 1 + d + e + Count("native", s)
<1> DEFINE K(kind) == {i \in DOMAIN s : s[i].kind = kind}
           n == Len(s)
<1>1. s \in Seq(Frames) /\ n \in Nat /\ DOMAIN s = 1 .. n
  BY DEF Sound
<1>2. \A i \in DOMAIN s : s[i].kind \in {"expr", "body", "native", "eval"}
  <2>1. \A i \in DOMAIN s : s[i] \in Frames
    BY <1>1
  <2> QED
    BY <2>1 DEF Frames
<1>3. IsFiniteSet(1 .. n) /\ Cardinality(1 .. n) = n
  BY <1>1, FS_Interval
<1>4. /\ IsFiniteSet(K("expr")) /\ IsFiniteSet(K("body"))
      /\ IsFiniteSet(K("native")) /\ IsFiniteSet(K("eval"))
  BY <1>1, <1>3, FS_Subset
<1>5. 1 .. n = ((K("expr") \cup K("body")) \cup K("native")) \cup K("eval")
  BY <1>1, <1>2
<1>6. Cardinality(K("expr")) <= 1 /\ Cardinality(K("expr")) \in Nat
  <2>1. K("expr") \subseteq {1}
    BY DEF Sound, ExprAtBottom
  <2>2. IsFiniteSet({1}) /\ Cardinality({1}) = 1
    BY FS_Singleton
  <2> HIDE DEF K
  <2> QED
    BY <1>4, <2>1, <2>2, FS_Subset, FS_CardinalityType
<1> HIDE DEF K
<1>7. ASSUME NEW A, NEW B, IsFiniteSet(A), IsFiniteSet(B)
      PROVE  IsFiniteSet(A \cup B) /\ Cardinality(A \cup B) <= Cardinality(A) + Cardinality(B)
  <2>1. /\ IsFiniteSet(A \cup B)
        /\ Cardinality(A \cup B) = Cardinality(A) + Cardinality(B) - Cardinality(A \cap B)
    BY <1>7, FS_Union
  <2>2. IsFiniteSet(A \cap B)
    BY <1>7, FS_Subset
  <2>3. Cardinality(A) \in Nat /\ Cardinality(B) \in Nat /\ Cardinality(A \cap B) \in Nat
    BY <1>7, <2>2, FS_CardinalityType
  <2> QED
    BY <2>1, <2>3
<1> DEFINE A == K("expr") \cup K("body")
           B == A \cup K("native")
<1>8. IsFiniteSet(A) /\ Cardinality(A) <= Cardinality(K("expr")) + Cardinality(K("body"))
  BY <1>4, <1>7
<1>9. IsFiniteSet(B) /\ Cardinality(B) <= Cardinality(A) + Cardinality(K("native"))
  <2> HIDE DEF A
  <2> QED
    BY <1>4, <1>7, <1>8
<1>10. n <= Cardinality(B) + Cardinality(K("eval"))
  <2>1. 1 .. n = B \cup K("eval")
    BY <1>5
  <2> HIDE DEF B
  <2> QED
    BY <1>3, <1>4, <1>7, <1>9, <2>1
<1>11. /\ Cardinality(K("body")) = d /\ Cardinality(K("eval")) = e
       /\ Cardinality(K("native")) = Count("native", s)
  BY DEF K, Sound, Count
<1>12. /\ Cardinality(A) \in Nat /\ Cardinality(B) \in Nat
       /\ d \in Nat /\ e \in Nat /\ Count("native", s) \in Nat
  <2> HIDE DEF A, B
  <2> QED
    BY <1>4, <1>8, <1>9, <1>11, FS_CardinalityType
<1> HIDE DEF A, B
<1> QED
  BY <1>1, <1>6, <1>8, <1>9, <1>10, <1>11, <1>12

(* For every limit: the Rust stack of an evaluation holds the expression,   *)
(* at most MaxDepth bodies and MaxEval evals, and what the text nests, so   *)
(* recursion of no kind can exhaust it (functions.rs, eval_fn.rs).          *)
THEOREM RecursionBounded == Spec => []StackBounded
<1>1. Init => NativesBounded
  <2> SUFFICES ASSUME Init PROVE NativesBounded
    OBVIOUS
  <2>1. {i \in DOMAIN stack : stack[i].kind = "native"} = {}
    BY DEF Init, Frame
  <2> QED
    BY <2>1, FS_EmptySet, LimitsAssumption DEF NativesBounded, Count
<1>2. IInv /\ NativesBounded => StackBounded
  <2> SUFFICES ASSUME IInv, NativesBounded PROVE StackBounded
    OBVIOUS
  <2>1. /\ Len(stack) <= 1 + depth + evalDepth + Count("native", stack)
        /\ Len(stack) \in Nat /\ Count("native", stack) \in Nat
    BY KindsAddUp, CountAll DEF IInv, Sound
  <2>2. /\ depth \in Nat /\ evalDepth \in Nat /\ depth <= MaxDepth /\ evalDepth <= MaxEval
        /\ Count("native", stack) <= MaxNatives
    BY DEF IInv, TypeOK, WithinLimits, NativesBounded
  <2> QED
    BY <2>1, <2>2, LimitsAssumption DEF StackBounded
<1> QED
  BY <1>1, <1>2, NativesKept, Invariant, PTL DEF Spec

-----------------------------------------------------------------------------
(* The innermost frame is gone: nearer to the end. *)
LEMMA NearerPopped ==
    ASSUME IInv, ~Done
    PROVE  Nearer(Below, stack)
<1> DEFINE n == Len(stack)
<1>1. stack \in Seq(Frames) /\ n \in Nat /\ n > 0 /\ DOMAIN stack = 1 .. n
  BY DEF IInv, Sound, Done
<1>2. Len(Below) = n - 1 /\ \A j \in 1 .. n - 1 : Below[j] = stack[j]
  BY <1>1 DEF Below
<1>3. n \in DOMAIN stack /\ ~(Len(Below) >= n) /\ Len(Below) >= n - 1
  BY <1>1, <1>2
<1> QED
  BY <1>2, <1>3 DEF Nearer

(* So is one that has used up a call, whatever the call adds to the stack. *)
LEMMA NearerSpent ==
    ASSUME IInv, Running, Top.left > 0
    PROVE  Nearer(Spent, stack) /\ \A f \in Frames : Nearer(Append(Spent, f), stack)
<1> DEFINE n == Len(stack)
<1>1. /\ stack \in Seq(Frames) /\ n \in Nat /\ n > 0 /\ DOMAIN stack = 1 .. n
      /\ stack[n] \in Frames /\ Top = stack[n]
  BY DEF IInv, Sound, Running, Done, Top
<1>2. Spent \in Seq(Frames) /\ Len(Spent) = n
  BY SoundSpent DEF Sound
<1>3. \A j \in 1 .. n - 1 : Spent[j] = stack[j]
  BY <1>1 DEF Spent
<1>4. Spent[n] = [Top EXCEPT !.left = Top.left - 1]
  BY <1>1 DEF Spent
<1>5. Unspent(Spent[n]) < Unspent(Top)
  <2> DEFINE p == (MaxIter - Top.iter) * (CodeSize + 1)
  <2>1. Spent[n].iter = Top.iter /\ Spent[n].left = Top.left - 1 /\ Top.left \in Nat
    BY <1>1, <1>4, LimitsAssumption DEF Frames
  <2>2. p \in Int
    BY <1>1, LimitsAssumption DEF Frames
  <2>3. Unspent(Spent[n]) = p + (Top.left - 1) /\ Unspent(Top) = p + Top.left
    BY <2>1 DEF Unspent
  <2> HIDE DEF p
  <2> QED
    BY <2>1, <2>2, <2>3
<1>6. ASSUME NEW t, Len(t) \in Nat, Len(t) >= n, \A j \in 1 .. n : t[j] = Spent[j]
      PROVE  Nearer(t, stack)
  <2>1. n \in DOMAIN stack /\ Len(t) >= n - 1 /\ \A j \in 1 .. n - 1 : t[j] = stack[j]
    BY <1>1, <1>3, <1>6
  <2>2. Unspent(t[n]) < Unspent(stack[n])
    BY <1>1, <1>5, <1>6
  <2> QED
    BY <2>1, <2>2 DEF Nearer
<1>7. Nearer(Spent, stack)
  BY <1>1, <1>2, <1>6
<1>8. ASSUME NEW f \in Frames PROVE Nearer(Append(Spent, f), stack)
  <2> DEFINE t == Append(Spent, f)
  <2>1. Len(t) = n + 1 /\ \A j \in 1 .. n : t[j] = Spent[j]
    BY <1>1, <1>2
  <2> HIDE DEF t
  <2>2. Len(t) \in Nat /\ Len(t) >= n
    BY <1>1, <2>1
  <2>3. Nearer(t, stack)
    BY <1>6, <2>1, <2>2
  <2> QED
    BY <2>3 DEF t
<1> QED
  BY <1>7, <1>8

(* And one whose trampoline has gone round. *)
LEMMA NearerBounced ==
    ASSUME IInv, ~Done, NEW arena, NEW home, NEW d, Top.iter + 1 <= MaxIter
    PROVE  Nearer(Append(Below, Frame("body", arena, home, d, Top.iter + 1)), stack)
<1> DEFINE n == Len(stack)
           f == Frame("body", arena, home, d, Top.iter + 1)
           t == Append(Below, f)
<1>1. /\ stack \in Seq(Frames) /\ n \in Nat /\ n > 0 /\ DOMAIN stack = 1 .. n
      /\ stack[n] \in Frames /\ Top = stack[n]
  BY DEF IInv, Sound, Done, Top
<1>2. Below \in Seq(Frames) /\ Len(Below) = n - 1 /\ \A j \in 1 .. n - 1 : Below[j] = stack[j]
  BY <1>1 DEF Below
<1>3. Len(t) = n /\ t[n] = f /\ \A j \in 1 .. n - 1 : t[j] = stack[j]
  <2> HIDE DEF f
  <2>1. Below \in Seq(Frames \cup {f})
    BY <1>2
  <2>2. Len(t) = n - 1 + 1 /\ t[n - 1 + 1] = f /\ \A j \in 1 .. n - 1 : t[j] = Below[j]
    <3>1. ASSUME NEW S, NEW u \in Seq(S), NEW x \in S
          PROVE  /\ Len(Append(u, x)) = Len(u) + 1 /\ Append(u, x)[Len(u) + 1] = x
                 /\ \A j \in 1 .. Len(u) : Append(u, x)[j] = u[j]
      OBVIOUS
    <3>2. f \in Frames \cup {f}
      OBVIOUS
    <3>3. /\ Len(t) = Len(Below) + 1 /\ t[Len(Below) + 1] = f
          /\ \A j \in 1 .. Len(Below) : t[j] = Below[j]
      BY <2>1, <3>1, <3>2
    <3> HIDE DEF t, n
    <3> QED
      BY <1>2, <3>3
  <2> QED
    BY <1>1, <1>2, <2>2
<1>4. Unspent(f) < Unspent(Top)
  <2> DEFINE a == MaxIter - Top.iter
             c == CodeSize + 1
  <2>1. f.iter = Top.iter + 1 /\ f.left = CodeSize
    BY DEF Frame
  <2>2. Top.left \in 0 .. CodeSize /\ Top.iter \in 0 .. MaxIter
    BY <1>1 DEF Frames
  <2>3. a \in Nat /\ c \in Nat /\ Top.left \in Nat /\ CodeSize = c - 1
    BY <2>2, LimitsAssumption
  <2>4. MaxIter - (Top.iter + 1) = a - 1
    BY <2>2, LimitsAssumption
  <2>5. Unspent(f) = (a - 1) * c + (c - 1) /\ Unspent(Top) = a * c + Top.left
    BY <2>1, <2>3, <2>4 DEF Unspent
  <2> HIDE DEF a, c
  <2>6. (a - 1) * c = a * c - c /\ a * c \in Int
    BY <2>3
  <2> QED
    BY <2>3, <2>5, <2>6
<1> HIDE DEF t, f
<1>5. n \in DOMAIN stack /\ Len(t) >= n - 1 /\ Unspent(t[n]) < Unspent(stack[n])
  BY <1>1, <1>3, <1>4
<1>6. Nearer(t, stack)
  BY <1>3, <1>5 DEF Nearer
<1> QED
  BY <1>6 DEF t, f

(* For every limit: each step of an evaluation brings its stack nearer to   *)
(* the end, in an order without infinite descents on stacks of bounded      *)
(* depth, or ends the innermost code (functions.rs call_function).          *)
THEOREM AlwaysAdvances == Spec => Advances
<1> DEFINE A == \/ Nearer(stack', stack)
                \/ stack' = stack /\ outcome = "running" /\ outcome' # "running"
                \/ Cancel
<1>1. IInv /\ [Next]_vars => [A]_vars
  <2> SUFFICES ASSUME IInv, Next PROVE A
    OBVIOUS
  <2>1. ASSUME NEW home \in 0 .. MaxEval, CallLambda(home) PROVE A
    <3>1. Running /\ Top.left > 0 /\ Apply(Spent, depth, home, 0)
      BY <2>1 DEF CallLambda
    <3> DEFINE f == Frame("body", Spent[Len(Spent)].arena, home, depth + 1, 0)
    <3>2. CASE stack' = Spent
      BY <3>1, <3>2, NearerSpent
    <3>3. CASE stack' # Spent
      <4>1. depth + 1 <= MaxDepth /\ stack' = Append(Spent, f)
        BY <3>1, <3>3 DEF Apply, Refuse, Enter, Deliver
      <4>2. Spent[Len(Spent)] \in Frames /\ depth \in Nat /\ 0 \in 0 .. MaxIter
        BY <3>1, SoundSpent, LimitsAssumption DEF IInv, TypeOK
      <4>3. f \in Frames
        BY <4>1, <4>2, BodyFrame
      <4> HIDE DEF f
      <4> QED
        BY <3>1, <4>1, <4>3, NearerSpent
    <3> QED
      BY <3>2, <3>3
  <2>2. ASSUME CallNative PROVE A
    <3> DEFINE f == Frame("native", Top.arena, Top.arena, 0, 0)
    <3>1. Running /\ Top.left > 0 /\ stack' = Append(Spent, f)
      BY <2>2 DEF CallNative
    <3>2. f \in Frames
      BY <3>1, TopFacts, LimitsAssumption DEF Running, Frame, Frames
    <3> HIDE DEF f
    <3> QED
      BY <3>1, <3>2, NearerSpent
  <2>3. ASSUME CallEval PROVE A
    <3> DEFINE f == Frame("eval", evalDepth + 1, evalDepth + 1, 0, 0)
    <3>1. Running /\ Top.left > 0
      BY <2>3 DEF CallEval
    <3>2. CASE stack' = Spent
      BY <3>1, <3>2, NearerSpent
    <3>3. CASE stack' = Append(Spent, f) /\ evalDepth + 1 <= MaxEval
      <4>1. f \in Frames
        BY <3>3, LimitsAssumption DEF Frame, Frames, IInv, TypeOK
      <4> HIDE DEF f
      <4> QED
        BY <3>1, <3>3, <4>1, NearerSpent
    <3> QED
      BY <2>3, <3>2, <3>3 DEF CallEval, Deliver
  <2>4. ASSUME Conclude \/ TailCall \/ Poll PROVE A
    BY <2>4 DEF Conclude, TailCall, Poll, Running
  <2>5. ASSUME ReturnBody \/ ReturnNative \/ ReturnEval PROVE A
    <3>1. stack' = Below /\ ~Done
      BY <2>5 DEF ReturnBody, ReturnNative, ReturnEval, Deliver, Returning
    <3> QED
      BY <3>1, NearerPopped
  <2>6. ASSUME ReturnExpr PROVE A
    <3>1. stack' = Below /\ ~Done
      BY <2>6, TopFacts DEF ReturnExpr, Returning
    <3> QED
      BY <3>1, NearerPopped
  <2>7. ASSUME NEW home \in 0 .. MaxEval, Bounce(home) PROVE A
    <3>1. ~Done /\ Top \in Frames
      BY <2>7, TopFacts DEF Bounce, Returning
    <3>2. CASE stack' = Below
      BY <3>1, <3>2, NearerPopped
    <3>3. CASE stack' # Below
      <4>1. /\ ~(Top.iter + 1 > MaxIter)
            /\ Apply(Below, Top.depth - 1, home, Top.iter + 1)
        BY <2>7, <3>3 DEF Bounce, Deliver
      <4>2. stack' = Append(Below, Frame("body", Below[Len(Below)].arena, home,
                                         Top.depth - 1 + 1, Top.iter + 1))
        BY <3>3, <4>1, ApplyShape
      <4>3. Top.iter + 1 <= MaxIter
        BY <3>1, <4>1, LimitsAssumption DEF Frames
      <4> QED
        BY <3>1, <4>2, <4>3, NearerBounced
    <3> QED
      BY <3>2, <3>3
  <2> QED
    BY <2>1, <2>2, <2>3, <2>4, <2>5, <2>6, <2>7 DEF Next, Evaluate
<1>2. Spec => [][Next]_vars
  BY PTL DEF Spec
<1> QED
  BY <1>1, <1>2, Invariant, PTL DEF Advances
=============================================================================

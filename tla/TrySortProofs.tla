---------------------------- MODULE TrySortProofs ----------------------------
(* Proofs about module TrySort, for every array, comparator and key. *)
EXTENDS TrySort, TLAPS

(* Positions of idx that are merged into buf already: those of the runs     *)
(* before, and what was taken of the two runs.                              *)
Taken == (0 .. i - 1) \cup (mid .. j - 1)

(* f, up to position m, holds what idx holds at the positions of Q, once. *)
Holds(f, m, Q) ==
    /\ \A p \in 0 .. m - 1 : \E q \in Q : f[p] = idx[q]
    /\ \A q \in Q : \E p \in 0 .. m - 1 : f[p] = idx[q]
    /\ \A p, r \in 0 .. m - 1 : f[p] = f[r] => p = r

Permutation(f) == /\ \A s \in Slots : \E p \in Slots : f[p] = s
                  /\ \A p, q \in Slots : f[p] = f[q] => p = q

(* The cursors are in their runs, and buf is filled up to k. *)
CursorsInRuns == /\ start < n
                 /\ start <= i /\ i <= mid
                 /\ mid <= j /\ j <= end
                 /\ k + mid = i + j

MergeSound == phase = "merging" => CursorsInRuns /\ Holds(buf, k, Taken)

(* The inductive invariant. *)
IInv == /\ TypeOK
        /\ Permutation(idx)
        /\ MergeSound
        /\ phase # "panic"

-----------------------------------------------------------------------------
(* What mid and end are. *)
LEMMA Runs ==
    ASSUME TypeOK, start < n
    PROVE  /\ mid \in Nat /\ end \in Nat
           /\ start < mid /\ mid <= end /\ end <= n
           /\ mid = start + width \/ mid = n
           /\ end < n => end = start + 2 * width
BY KeysAssumption DEF TypeOK, mid, end, Least

(* The codes of the comparisons that fail. *)
Failures == {"T2007", "T2008", "error"}

(* What compare_order does, kind by kind. *)
LEMMA KeyOrder ==
    ASSUME NEW u, NEW v
    PROVE  /\ CompareKeys(u, v) \in Orders \cup Failures
           /\ CompareKeys(u, v) =
                  IF u.kind = "failing" \/ v.kind = "failing" THEN "error"
                  ELSE IF u.kind = "undefined" \/ v.kind = "undefined"
                  THEN IF u.kind = v.kind THEN "equal"
                       ELSE IF u.kind = "undefined" THEN "greater" ELSE "less"
                  ELSE IF u.kind = v.kind /\ u.kind \in {"number", "string"}
                  THEN IF u.rank < v.rank THEN "less"
                       ELSE IF u.rank = v.rank THEN "equal" ELSE "greater"
                  ELSE IF u.kind \in Numeric /\ v.kind \in Numeric THEN "equal"
                  ELSE IF \/ u.kind = "string" /\ v.kind \in Numeric
                          \/ v.kind = "string" /\ u.kind \in Numeric
                  THEN "T2007" ELSE "T2008"
<1>1. "failing" \in {u.kind, v.kind} <=> u.kind = "failing" \/ v.kind = "failing"
  OBVIOUS
<1>2. "undefined" \in {u.kind, v.kind} <=> u.kind = "undefined" \/ v.kind = "undefined"
  OBVIOUS
<1>3. {u.kind, v.kind} \in {{"number"}, {"string"}}
          <=> u.kind = v.kind /\ u.kind \in {"number", "string"}
  OBVIOUS
<1>4. "nan" \in {u.kind, v.kind} /\ {u.kind, v.kind} \subseteq Numeric
          <=> /\ u.kind \in Numeric /\ v.kind \in Numeric
              /\ ~(u.kind = v.kind /\ u.kind \in {"number", "string"})
  BY DEF Numeric
<1>5. "string" \in {u.kind, v.kind} /\ {u.kind, v.kind} \cap Numeric # {}
          <=> \/ u.kind = "string" /\ v.kind \in Numeric
              \/ v.kind = "string" /\ u.kind \in Numeric
  BY DEF Numeric
<1>6. "undefined" \notin Numeric /\ "string" \notin Numeric
  BY DEF Numeric
<1> QED
  BY <1>1, <1>2, <1>3, <1>4, <1>5, <1>6 DEF CompareKeys, CompareOrder, Orders, Failures

(* A comparator's answer is an order or an error with its code. *)
LEMMA AnswerTypes ==
    ASSUME TypeOK, NEW a, NEW b, NEW answer \in Answers(a, b)
    PROVE  answer \in Orders \cup {"D3070"} \cup Failures
<1>1. \A x, y : CompareKeys(x, y) \in Orders \cup Failures
  BY KeyOrder
<1>2. \A o \in Orders \cup Failures : Reversed(o) \in Orders \cup Failures
  BY DEF Reversed, Orders
<1>3. CompareTerms(a, b) \in Orders \cup Failures
  <2> DEFINE by(t) == CompareKeys(key[a][t], key[b][t])
             telling == {t \in DOMAIN terms : by(t) # "equal"}
             first == CHOOSE t \in telling : \A u \in telling : t <= u
  <2>1. by(first) \in Orders \cup Failures
    BY <1>1
  <2>2. Reversed(by(first)) \in Orders \cup Failures
    BY <1>2, <2>1
  <2>3. "equal" \in Orders
    BY DEF Orders
  <2>4. CompareTerms(a, b) = IF telling = {} THEN "equal"
                             ELSE IF terms[first] THEN Reversed(by(first)) ELSE by(first)
    BY DEF CompareTerms
  <2> HIDE DEF by, first, telling
  <2> QED
    BY <2>1, <2>2, <2>3, <2>4
<1>4. CASE caller = "sort"
  BY <1>3, <1>4 DEF Answers, DefaultOrder
<1>5. CASE caller = "order_by"
  BY <1>3, <1>5 DEF Answers
<1>6. CASE caller = "lambda"
  BY <1>6 DEF Answers, Orders, Failures
<1> QED
  BY <1>4, <1>5, <1>6 DEF TypeOK

-----------------------------------------------------------------------------
(* Taking one position q that was not taken keeps buf sound. *)
LEMMA TakeOne ==
    ASSUME TypeOK, Permutation(idx), k < n,
           NEW Q \in SUBSET Slots, Holds(buf, k, Q),
           NEW q \in Slots, q \notin Q
    PROVE  /\ [buf EXCEPT ![k] = idx[q]] \in [Slots -> Slots]
           /\ Holds([buf EXCEPT ![k] = idx[q]], k + 1, Q \cup {q})
<1> DEFINE f == [buf EXCEPT ![k] = idx[q]]
<1>0. /\ n \in Nat /\ k \in Nat
      /\ idx \in [Slots -> Slots] /\ buf \in [Slots -> Slots]
  BY KeysAssumption DEF TypeOK
<1>1. /\ n \in Nat /\ k \in Nat /\ k \in Slots
      /\ idx \in [Slots -> Slots] /\ buf \in [Slots -> Slots]
      /\ 0 .. k - 1 \subseteq Slots /\ 0 .. k = (0 .. k - 1) \cup {k} /\ k + 1 - 1 = k
  <2>1. k \in Slots /\ 0 .. k - 1 \subseteq Slots /\ k + 1 - 1 = k
    BY <1>0 DEF Slots
  <2>2. \A p : p \in 0 .. k <=> p \in (0 .. k - 1) \cup {k}
    BY <1>0
  <2> QED
    BY <1>0, <2>1, <2>2
<1>2. f \in [Slots -> Slots] /\ f[k] = idx[q] /\ \A p \in 0 .. k - 1 : f[p] = buf[p]
  BY <1>1
<1>3. \A p \in 0 .. k - 1 : f[p] # idx[q]
  BY <1>2, <1>1 DEF Holds, Permutation
<1>4. \A p, r \in 0 .. k : f[p] = f[r] => p = r
  BY <1>1, <1>2, <1>3 DEF Holds
<1>5. \A p \in 0 .. k : \E r \in Q \cup {q} : f[p] = idx[r]
  BY <1>1, <1>2 DEF Holds
<1>6. \A r \in Q \cup {q} : \E p \in 0 .. k : f[p] = idx[r]
  BY <1>1, <1>2 DEF Holds
<1> QED
  BY <1>1, <1>2, <1>4, <1>5, <1>6 DEF Holds

(* What Drained holds: buf, the rest of the left run, the rest of the right.*)
LEMMA DrainedAt ==
    ASSUME TypeOK, CursorsInRuns
    PROVE  /\ \A p \in 0 .. k - 1 : p \in Slots /\ Drained[p] = buf[p]
           /\ \A p \in k .. j - 1 : /\ p \in Slots /\ Drained[p] = idx[i + (p - k)]
                                   /\ i + (p - k) \in i .. mid - 1
           /\ \A p \in j .. end - 1 : p \in Slots /\ Drained[p] = idx[p]
<1> DEFINE m == k + (mid - i)
<1>1. /\ mid \in Nat /\ end \in Nat /\ mid <= end /\ end <= n
      /\ n \in Nat /\ i \in Nat /\ j \in Nat /\ k \in Nat
      /\ i <= mid /\ mid <= j /\ j <= end /\ k + mid = i + j
  BY Runs, KeysAssumption DEF CursorsInRuns, TypeOK
<1>2. m = j /\ m \in Nat /\ k <= m /\ m <= end /\ m - k = mid - i
  BY <1>1
<1>3. Drained = [p \in Slots |->
                   IF p >= k /\ p < m THEN idx[i + (p - k)]
                   ELSE IF p >= m /\ p < end THEN idx[j + (p - m)]
                   ELSE buf[p]]
  BY DEF Drained
<1> HIDE DEF m
<1> QED
  BY <1>1, <1>2, <1>3 DEF Slots

(* With the rest of both runs copied, buf holds all of the runs up to end. *)
LEMMA DrainedSound ==
    ASSUME TypeOK, Permutation(idx), CursorsInRuns, Holds(buf, k, Taken)
    PROVE  Drained \in [Slots -> Slots] /\ Holds(Drained, end, 0 .. end - 1)
<1> DEFINE m == k + (mid - i)
<1>1. /\ mid \in Nat /\ end \in Nat /\ start < mid /\ mid <= end /\ end <= n
      /\ n \in Nat /\ i \in Nat /\ j \in Nat /\ k \in Nat /\ start \in Nat
      /\ idx \in [Slots -> Slots] /\ buf \in [Slots -> Slots]
      /\ i <= mid /\ mid <= j /\ j <= end /\ k + mid = i + j
  BY Runs, KeysAssumption DEF CursorsInRuns, TypeOK
<1>2. m = j /\ m \in Nat /\ k <= m /\ m <= end
  BY <1>1
<1> HIDE DEF m
<1>3. /\ \A p \in 0 .. k - 1 : p \in Slots /\ Drained[p] = buf[p]
      /\ \A p \in k .. m - 1 : p \in Slots /\ Drained[p] = idx[i + (p - k)]
                               /\ i + (p - k) \in i .. mid - 1
      /\ \A p \in m .. end - 1 : p \in Slots /\ Drained[p] = idx[p]
                                 /\ p \in j .. end - 1
  BY <1>2, DrainedAt
<1>4. Drained \in [Slots -> Slots]
  <2>1. \A p \in Slots : Drained[p] \in Slots
    <3> TAKE p \in Slots
    <3>1. CASE p \in 0 .. k - 1
      BY <1>1, <1>3, <3>1
    <3>2. CASE p \in k .. m - 1
      <4>1. i .. mid - 1 \subseteq Slots
        BY <1>1 DEF Slots
      <4> QED
        BY <1>1, <1>3, <3>2, <4>1
    <3>3. CASE p \in m .. end - 1
      BY <1>1, <1>3, <3>3
    <3>4. CASE p >= end
      <4>1. Drained[p] = buf[p]
        BY <1>1, <1>2, <3>4 DEF Drained, Slots, m
      <4> QED
        BY <1>1, <4>1
    <3> QED
      BY <1>1, <1>2, <3>1, <3>2, <3>3, <3>4 DEF Slots
  <2> QED
    BY <2>1 DEF Drained
(* Where each position of the result comes from. *)
<1>5. \A p \in 0 .. end - 1 :
         \/ p \in 0 .. k - 1 /\ \E q \in Taken : Drained[p] = idx[q]
         \/ p \in k .. m - 1 /\ Drained[p] = idx[i + (p - k)] /\ i + (p - k) \in i .. mid - 1
         \/ p \in m .. end - 1 /\ Drained[p] = idx[p] /\ p \in j .. end - 1
  BY <1>1, <1>2, <1>3 DEF Holds
<1>6. /\ Taken \subseteq 0 .. end - 1
      /\ \A q \in 0 .. end - 1 : q \in Taken \/ q \in i .. mid - 1 \/ q \in j .. end - 1
      /\ \A q \in Taken : q \notin i .. mid - 1 /\ q \notin j .. end - 1
      /\ 0 .. end - 1 \subseteq Slots
  BY <1>1 DEF Taken, Slots
<1>7. \A p \in 0 .. end - 1 : \E q \in 0 .. end - 1 : Drained[p] = idx[q]
  BY <1>1, <1>5, <1>6
<1>8. \A q \in 0 .. end - 1 : \E p \in 0 .. end - 1 : Drained[p] = idx[q]
  <2> TAKE q \in 0 .. end - 1
  <2>1. CASE q \in Taken
    <3>1. PICK p \in 0 .. k - 1 : buf[p] = idx[q]
      BY <2>1 DEF Holds
    <3> QED
      BY <3>1, <1>1, <1>2, <1>3
  <2>2. CASE q \in i .. mid - 1
    <3>1. k + (q - i) \in k .. m - 1 /\ i + (k + (q - i) - k) = q
      BY <2>2, <1>1 DEF m
    <3> QED
      BY <3>1, <1>1, <1>2, <1>3
  <2>3. CASE q \in j .. end - 1
    BY <2>3, <1>1, <1>2, <1>3
  <2> QED
    BY <1>6, <2>1, <2>2, <2>3
<1>9. \A p, r \in 0 .. end - 1 : Drained[p] = Drained[r] => p = r
  <2> SUFFICES ASSUME NEW p \in 0 .. end - 1, NEW r \in 0 .. end - 1,
                      Drained[p] = Drained[r]
               PROVE  p = r
    OBVIOUS
  <2>1. CASE p \in 0 .. k - 1 /\ r \in 0 .. k - 1
    BY <2>1, <1>3 DEF Holds
  <2>2. CASE p \notin 0 .. k - 1 \/ r \notin 0 .. k - 1
    BY <2>2, <1>1, <1>2, <1>5, <1>6 DEF Permutation
  <2> QED
    BY <2>1, <2>2
<1> QED
  BY <1>4, <1>7, <1>8, <1>9 DEF Holds

-----------------------------------------------------------------------------
(* With cursors at the head of two runs, only what is before them is taken. *)
LEMMA HeadsOfRuns ==
    ASSUME NEW s \in 0 .. n, NEW w \in Nat \ {0}, n \in Nat
    PROVE  /\ Least(s + w, n) \in 0 .. n /\ s <= Least(s + w, n)
           /\ Least(s + w, n) <= Least(s + 2 * w, n)
BY DEF Least

LEMMA InitSound == Init => IInv
<1> SUFFICES ASSUME Init PROVE IInv
  OBVIOUS
<1>1. n \in Nat /\ MaxItems \in Nat /\ n \in 0 .. MaxItems
  BY KeysAssumption DEF Init
<1>2. idx \in [Slots -> Slots] /\ \A p \in Slots : idx[p] = p
  BY <1>1 DEF Init, Identity, Slots
<1>3. buf \in [Slots -> Slots]
  BY <1>1 DEF Init, Slots
<1>4. j \in 0 .. n
  BY <1>1 DEF Init, Least
<1>5. TypeOK
  <2>1. caller \in {"sort", "order_by", "lambda"}
    BY DEF Init
  <2>2. phase \in {"done", "merging"} /\ code = "none"
    BY DEF Init
  <2>3. width \in Nat \ {0} /\ start \in 0 .. n /\ i \in 0 .. n /\ k \in 0 .. n
    BY <1>1 DEF Init
  <2> QED
    BY <1>1, <1>2, <1>3, <1>4, <2>1, <2>2, <2>3 DEF TypeOK
<1>6. Permutation(idx)
  BY <1>2 DEF Permutation
<1>7. MergeSound
  <2> SUFFICES ASSUME phase = "merging" PROVE CursorsInRuns /\ Holds(buf, k, Taken)
    BY DEF MergeSound
  <2>1. n >= 2
    BY <1>1 DEF Init
  <2>2. mid = 1 /\ end = 2 /\ i = 0 /\ j = 1 /\ k = 0 /\ start = 0
    BY <1>1, <2>1 DEF Init, mid, end, Least
  <2> QED
    BY <1>1, <2>1, <2>2 DEF CursorsInRuns, Holds, Taken
<1>8. phase # "panic"
  BY DEF Init
<1> QED
  BY <1>5, <1>6, <1>7, <1>8 DEF IInv

(* One comparison and the item it moves. *)
LEMMA CompareSound == IInv /\ Compare => IInv'
<1> SUFFICES ASSUME IInv, Compare PROVE IInv'
  OBVIOUS
<1>1. /\ TypeOK /\ Permutation(idx) /\ CursorsInRuns /\ Holds(buf, k, Taken)
      /\ phase = "merging" /\ i < mid /\ j < end
  BY DEF IInv, Compare, MergeSound
<1>2. /\ mid \in Nat /\ end \in Nat /\ start < mid /\ mid <= end /\ end <= n
      /\ n \in Nat /\ i \in Nat /\ j \in Nat /\ k \in Nat /\ start \in Nat
      /\ start <= i /\ mid <= j /\ k + mid = i + j /\ start < n
  BY <1>1, Runs, KeysAssumption DEF CursorsInRuns, TypeOK
<1>3. /\ n' = n /\ caller' = caller /\ idx' = idx /\ width' = width /\ start' = start
      /\ Slots' = Slots /\ mid' = mid /\ end' = end
  BY DEF Compare, input, Slots, mid, end
<1>4. Permutation(idx)'
  BY <1>1, <1>3 DEF Permutation
<1>5. /\ Taken \in SUBSET Slots /\ i \in Slots /\ j \in Slots
      /\ i \notin Taken /\ j \notin Taken /\ k < n
  BY <1>1, <1>2 DEF Taken, Slots
<1> PICK answer \in Answers(idx[j], idx[i]) : Merge(answer)
  BY DEF Compare
<1>6. CASE answer \in Orders /\ answer = "less"
  <2>1. /\ buf' = [buf EXCEPT ![k] = idx[j]] /\ j' = j + 1 /\ k' = k + 1 /\ i' = i
        /\ phase' = phase /\ code' = code
    BY <1>6 DEF Merge, TakeRight
  <2>2. Taken' = Taken \cup {j}
    BY <2>1, <1>2, <1>3 DEF Taken
  <2>3. buf' \in [Slots -> Slots] /\ Holds(buf', k', Taken')
    BY <1>1, <1>5, <2>1, <2>2, TakeOne
  <2>4. Holds(buf, k, Taken)'
    BY <1>3, <2>3 DEF Holds
  <2>5. CursorsInRuns'
    BY <1>1, <1>2, <1>3, <2>1 DEF CursorsInRuns
  <2>6. TypeOK'
    BY <1>1, <1>2, <1>3, <2>1, <2>3 DEF TypeOK
  <2> QED
    BY <1>1, <1>4, <2>1, <2>4, <2>5, <2>6 DEF IInv, MergeSound
<1>7. CASE answer \in Orders /\ answer # "less"
  <2>1. /\ buf' = [buf EXCEPT ![k] = idx[i]] /\ i' = i + 1 /\ k' = k + 1 /\ j' = j
        /\ phase' = phase /\ code' = code
    BY <1>7 DEF Merge, TakeLeft
  <2>2. Taken' = Taken \cup {i}
    BY <2>1, <1>2, <1>3 DEF Taken
  <2>3. buf' \in [Slots -> Slots] /\ Holds(buf', k', Taken')
    BY <1>1, <1>5, <2>1, <2>2, TakeOne
  <2>4. Holds(buf, k, Taken)'
    BY <1>3, <2>3 DEF Holds
  <2>5. CursorsInRuns'
    BY <1>1, <1>2, <1>3, <2>1 DEF CursorsInRuns
  <2>6. TypeOK'
    BY <1>1, <1>2, <1>3, <2>1, <2>3 DEF TypeOK
  <2> QED
    BY <1>1, <1>4, <2>1, <2>4, <2>5, <2>6 DEF IInv, MergeSound
<1>8. CASE answer \notin Orders
  <2>1. /\ phase' = "failed" /\ code' = answer
        /\ buf' = buf /\ i' = i /\ j' = j /\ k' = k
    BY <1>8 DEF Merge, cursors
  <2>2. answer \in {"D3070", "T2007", "T2008", "error"}
    BY <1>1, <1>8, AnswerTypes DEF Failures
  <2>3. TypeOK'
    BY <1>1, <1>3, <2>1, <2>2 DEF TypeOK
  <2> QED
    BY <1>4, <2>1, <2>3 DEF IInv, MergeSound
<1> QED
  BY <1>6, <1>7, <1>8

(* The end of two runs that are not the last of their pass. *)
LEMMA NextRunsSound == IInv /\ NextRuns => IInv'
<1> SUFFICES ASSUME IInv, NextRuns PROVE IInv'
  OBVIOUS
<1>1. /\ TypeOK /\ Permutation(idx) /\ CursorsInRuns /\ Holds(buf, k, Taken)
      /\ phase = "merging" /\ end < n
  BY DEF IInv, NextRuns, MergeSound
<1>2. /\ n \in Nat /\ end \in Nat /\ end \in 0 .. n /\ width \in Nat \ {0}
  BY <1>1, Runs, KeysAssumption DEF CursorsInRuns, TypeOK
<1>3. /\ n' = n /\ caller' = caller /\ idx' = idx /\ width' = width
      /\ phase' = phase /\ code' = code /\ buf' = Drained /\ Slots' = Slots
      /\ start' = end /\ i' = end /\ k' = end /\ j' = Least(end + width, n)
  BY DEF NextRuns, input, StartRuns, Slots
<1>4. mid' = j' /\ end' = Least(end + 2 * width, n)
  BY <1>3 DEF mid, end
<1>5. j' \in 0 .. n /\ end <= j' /\ j' <= end'
  BY <1>2, <1>3, <1>4, HeadsOfRuns
<1>6. Drained \in [Slots -> Slots] /\ Holds(Drained, end, 0 .. end - 1)
  BY <1>1, DrainedSound
<1>7. Taken' = 0 .. end - 1
  BY <1>2, <1>3, <1>4, <1>5 DEF Taken
<1>8. Holds(buf, k, Taken)'
  BY <1>3, <1>6, <1>7 DEF Holds
<1>9. CursorsInRuns'
  BY <1>1, <1>2, <1>3, <1>4, <1>5 DEF CursorsInRuns
<1>10. TypeOK'
  BY <1>1, <1>2, <1>3, <1>5, <1>6 DEF TypeOK
<1>11. Permutation(idx)'
  BY <1>1, <1>3 DEF Permutation
<1> QED
  BY <1>1, <1>3, <1>8, <1>9, <1>10, <1>11 DEF IInv, MergeSound

(* The end of a pass: what was merged is the permutation of the next. *)
LEMMA NextPassSound == IInv /\ NextPass => IInv'
<1> SUFFICES ASSUME IInv, NextPass PROVE IInv'
  OBVIOUS
<1>1. /\ TypeOK /\ Permutation(idx) /\ CursorsInRuns /\ Holds(buf, k, Taken)
      /\ phase = "merging" /\ end = n
  BY DEF IInv, NextPass, MergeSound
<1>2. /\ n \in Nat /\ 0 \in 0 .. n /\ 0 < n /\ width \in Nat \ {0} /\ 2 * width \in Nat \ {0}
      /\ start \in Nat
  BY <1>1, KeysAssumption DEF CursorsInRuns, TypeOK
<1>3. /\ n' = n /\ caller' = caller /\ idx' = Drained /\ buf' = idx /\ width' = 2 * width
      /\ phase' \in {"merging", "apply"} /\ code' = code /\ Slots' = Slots
      /\ start' = 0 /\ i' = 0 /\ k' = 0 /\ j' = Least(0 + 2 * width, n)
  BY DEF NextPass, input, StartRuns, Slots
<1>4. mid' = j' /\ end' = Least(0 + 2 * (2 * width), n)
  BY <1>3 DEF mid, end
<1>5. j' \in 0 .. n /\ j' <= end'
  BY <1>2, <1>3, <1>4, HeadsOfRuns
<1>6. Drained \in [Slots -> Slots] /\ Holds(Drained, n, Slots)
  BY <1>1, DrainedSound DEF Slots
<1>7. Permutation(idx)'
  <2>1. \A s \in Slots : \E p \in Slots : Drained[p] = s
    <3> TAKE s \in Slots
    <3>1. PICK q \in Slots : idx[q] = s
      BY <1>1 DEF Permutation
    <3>2. PICK p \in 0 .. n - 1 : Drained[p] = idx[q]
      BY <1>6 DEF Holds
    <3> QED
      BY <3>1, <3>2 DEF Slots
  <2>2. \A p, q \in Slots : Drained[p] = Drained[q] => p = q
    BY <1>6 DEF Holds, Slots
  <2> QED
    BY <1>3, <2>1, <2>2 DEF Permutation
<1>8. Taken' = {}
  BY <1>2, <1>3, <1>4, <1>5 DEF Taken
<1>9. Holds(buf, k, Taken)'
  BY <1>3, <1>8 DEF Holds
<1>10. CursorsInRuns'
  BY <1>2, <1>3, <1>4, <1>5 DEF CursorsInRuns
<1>11. TypeOK'
  BY <1>1, <1>2, <1>3, <1>5, <1>6 DEF TypeOK
<1> QED
  BY <1>3, <1>7, <1>9, <1>10, <1>11 DEF IInv, MergeSound

(* A permutation visits no slot twice. *)
LEMMA ApplySound == IInv /\ Apply => IInv'
<1> SUFFICES ASSUME IInv, Apply PROVE IInv'
  OBVIOUS
<1>1. phase' = "done"
  BY DEF IInv, Apply, Permutation
<1> QED
  BY <1>1 DEF IInv, Apply, TypeOK, Permutation, MergeSound, Slots, input, cursors

LEMMA StepSound == IInv /\ [Next]_vars => IInv'
<1>1. IInv /\ UNCHANGED vars => IInv'
  <2> SUFFICES ASSUME IInv, UNCHANGED vars PROVE IInv'
    OBVIOUS
  <2>1. /\ UNCHANGED <<n, caller, idx, buf, width, start, i, j, k, phase, code>>
        /\ Slots' = Slots /\ mid' = mid /\ end' = end
    BY DEF vars, input, cursors, Slots, mid, end
  <2>2. TypeOK'
    BY <2>1 DEF IInv, TypeOK
  <2>3. Permutation(idx)'
    BY <2>1 DEF IInv, Permutation
  <2>4. Taken' = Taken
    BY <2>1 DEF Taken
  <2>5. MergeSound'
    BY <2>1, <2>4 DEF IInv, MergeSound, CursorsInRuns, Holds
  <2> QED
    BY <2>1, <2>2, <2>3, <2>5 DEF IInv
<1> QED
  BY <1>1, CompareSound, NextRunsSound, NextPassSound, ApplySound DEF Next

LEMMA AlwaysSound == Spec => []IInv
<1> QED
  BY InitSound, StepSound, PTL DEF Spec

-----------------------------------------------------------------------------
(* The cursors stay inside the array and the permutations inside their     *)
(* range, for every length (try_sort_by's indexing).                       *)
THEOREM TypeCorrect == Spec => []TypeOK
<1>1. IInv => TypeOK
  BY DEF IInv
<1> QED
  BY <1>1, AlwaysSound, PTL

(* For every array and every comparator, an order or not, the merge sort   *)
(* keeps each item exactly once and its unreachable! is unreachable.       *)
THEOREM KeepsPermutation == Spec => []PermutationKept
<1>1. IInv => PermutationKept
  BY DEF IInv, Permutation, PermutationKept, TypeOK
<1> QED
  BY <1>1, AlwaysSound, PTL

-----------------------------------------------------------------------------
(* A sort goes on only while its runs are shorter than the array. *)
Unfinished == phase = "merging" => width < n

LEMMA UnfinishedKept == IInv /\ Unfinished /\ [Next]_vars => Unfinished'
<1> SUFFICES ASSUME IInv, Unfinished, [Next]_vars PROVE Unfinished'
  OBVIOUS
<1>1. CASE Compare
  BY <1>1 DEF Compare, Merge, input, Unfinished
<1>2. CASE NextRuns
  BY <1>2 DEF NextRuns, input, Unfinished
<1>3. CASE NextPass
  BY <1>3 DEF NextPass, input, Unfinished
<1>4. CASE Apply
  BY <1>4 DEF Apply, Unfinished
<1>5. CASE UNCHANGED vars
  BY <1>5 DEF vars, input, Unfinished
<1> QED
  BY <1>1, <1>2, <1>3, <1>4, <1>5 DEF Next

(* One pass fewer is worth more than the longest pass. *)
LEMMA PassFewer ==
    ASSUME NEW a \in Nat, NEW b \in Nat, NEW c \in Nat, b < a
    PROVE  /\ a * c \in Nat /\ b * c \in Nat
           /\ b * c + c <= a * c
<1>1. a * c \in Nat /\ b * c \in Nat /\ (a - b - 1) * c \in Nat
  <2>1. \A u, v \in Nat : u * v \in Nat
    OBVIOUS
  <2>2. a - b - 1 \in Nat
    OBVIOUS
  <2> QED
    BY <2>1, <2>2
<1>2. a * c = b * c + c + (a - b - 1) * c
  OBVIOUS
<1> QED
  BY <1>1, <1>2

(* While runs are merged, how many passes and places are left. *)
LEMMA RemainingFacts ==
    ASSUME IInv, Unfinished
    PROVE  /\ n \in Nat /\ width \in Nat /\ Remaining \in Nat
           /\ phase = "merging" =>
                /\ k \in Nat /\ start \in Nat /\ k <= end /\ start < end /\ end <= n /\ end \in Nat
                /\ (n - width) * (2 * n + 1) \in Nat
                /\ Remaining = 2 + (n - width) * (2 * n + 1) + (2 * n - k - start)
                /\ i < mid /\ j < end => k < end
<1>1. n \in Nat /\ width \in Nat
  BY KeysAssumption DEF IInv, TypeOK
<1>2. ASSUME phase = "merging"
      PROVE  /\ k \in Nat /\ start \in Nat /\ k <= end /\ start < end /\ end <= n /\ end \in Nat
             /\ (n - width) * (2 * n + 1) \in Nat
             /\ Remaining = 2 + (n - width) * (2 * n + 1) + (2 * n - k - start)
             /\ i < mid /\ j < end => k < end
  <2>1. TypeOK /\ CursorsInRuns
    BY <1>2 DEF IInv, MergeSound
  <2>2. /\ mid \in Nat /\ end \in Nat /\ start < mid /\ mid <= end /\ end <= n
    BY <2>1, Runs DEF CursorsInRuns
  <2>3. /\ k \in Nat /\ start \in Nat /\ i \in Nat /\ j \in Nat
        /\ k + mid = i + j /\ i <= mid /\ j <= end
    BY <1>1, <2>1 DEF CursorsInRuns, TypeOK
  <2>4. n - width \in Nat /\ 2 * n + 1 \in Nat
    BY <1>1, <1>2 DEF Unfinished
  <2>5. \A u, v \in Nat : u * v \in Nat
    OBVIOUS
  <2>6. (n - width) * (2 * n + 1) \in Nat
    BY <2>4, <2>5
  <2>7. Remaining = 2 + (n - width) * (2 * n + 1) + (2 * n - k - start)
    BY <1>2 DEF Remaining
  <2> QED
    BY <2>2, <2>3, <2>6, <2>7
<1>3. Remaining \in Nat
  <2>1. CASE phase = "merging"
    <3> DEFINE m == (n - width) * (2 * n + 1)
    <3>1. m \in Nat /\ Remaining = 2 + m + (2 * n - k - start)
      BY <1>2, <2>1
    <3>2. k \in Nat /\ start \in Nat /\ k <= n /\ start <= n
      BY <1>1, <1>2, <2>1
    <3> HIDE DEF m
    <3> QED
      BY <1>1, <3>1, <3>2
  <2>2. CASE phase # "merging"
    BY <2>2 DEF Remaining
  <2> QED
    BY <2>1, <2>2
<1> QED
  BY <1>1, <1>2, <1>3

(* Each step of a sort comes nearer to its end. *)
LEMMA StepAdvances ==
    ASSUME IInv, Unfinished, Next
    PROVE  Remaining' \in Nat /\ Remaining' < Remaining
<1> DEFINE m == (n - width) * (2 * n + 1)
<1>1. IInv' /\ Unfinished'
  BY StepSound, UnfinishedKept
<1>2. n \in Nat /\ width \in Nat /\ Remaining \in Nat
  BY <1>1, RemainingFacts
<1>3. ASSUME phase = "merging"
      PROVE  /\ k \in Nat /\ start \in Nat /\ k <= end /\ start < end /\ end <= n /\ end \in Nat
             /\ m \in Nat /\ Remaining = 2 + m + (2 * n - k - start)
             /\ i < mid /\ j < end => k < end
  BY <1>3, RemainingFacts
<1>4. CASE Compare
  <2>1. phase = "merging" /\ k < end /\ n' = n /\ width' = width /\ start' = start
    BY <1>3, <1>4 DEF Compare, input
  <2>2. CASE phase' = "merging"
    <3>1. k' = k + 1
      BY <1>4, <2>1, <2>2 DEF Compare, Merge, TakeLeft, TakeRight
    <3>2. Remaining' = 2 + m + (2 * n - (k + 1) - start)
      BY <2>1, <2>2, <3>1 DEF Remaining
    <3> HIDE DEF m
    <3> QED
      BY <1>2, <1>3, <2>1, <3>2
  <2>3. CASE phase' # "merging"
    <3>1. phase' = "failed"
      BY <1>4, <2>1, <2>3 DEF Compare, Merge
    <3>2. Remaining' = 0
      BY <3>1 DEF Remaining
    <3> HIDE DEF m
    <3> QED
      BY <1>2, <1>3, <2>1, <3>2
  <2> QED
    BY <2>2, <2>3
<1>5. CASE NextRuns
  <2>1. /\ phase = "merging" /\ phase' = "merging" /\ n' = n /\ width' = width
        /\ start' = end /\ k' = end /\ end < n
    BY <1>5 DEF NextRuns, StartRuns, input
  <2>2. Remaining' = 2 + m + (2 * n - end - end)
    BY <2>1 DEF Remaining
  <2> HIDE DEF m
  <2> QED
    BY <1>2, <1>3, <2>1, <2>2
<1>6. CASE NextPass
  <2>1. /\ phase = "merging" /\ n' = n /\ width' = 2 * width /\ start' = 0 /\ k' = 0
        /\ width < n /\ width > 0
    BY <1>6 DEF NextPass, StartRuns, input, Unfinished, IInv, TypeOK
  <2>2. CASE phase' = "merging"
    <3> DEFINE p == (n - 2 * width) * (2 * n + 1)
    <3>1. 2 * width < n
      BY <1>1, <2>1, <2>2 DEF Unfinished
    <3>2. p \in Nat /\ m \in Nat /\ p + (2 * n + 1) <= m
      <4>1. /\ n - width \in Nat /\ n - 2 * width \in Nat /\ 2 * n + 1 \in Nat
            /\ n - 2 * width < n - width
        BY <1>2, <2>1, <3>1
      <4> QED
        BY <4>1, PassFewer
    <3>3. Remaining' = 2 + p + (2 * n - 0 - 0)
      BY <2>1, <2>2 DEF Remaining
    <3> HIDE DEF m, p
    <3> QED
      BY <1>2, <1>3, <2>1, <3>2, <3>3
  <2>3. CASE phase' # "merging"
    <3>1. phase' = "apply"
      BY <1>6, <2>3 DEF NextPass
    <3>2. Remaining' = 1
      BY <3>1 DEF Remaining
    <3> HIDE DEF m
    <3> QED
      BY <1>2, <1>3, <2>1, <3>2
  <2> QED
    BY <2>2, <2>3
<1>7. CASE Apply
  <2>1. Remaining = 1 /\ Remaining' = 0
    BY <1>7 DEF Apply, Remaining
  <2> QED
    BY <2>1
<1> QED
  BY <1>4, <1>5, <1>6, <1>7 DEF Next

(* No sort goes on for ever, however inconsistent its comparator: each step *)
(* lowers a number that a sort of this length starts with (try_sort_by's    *)
(* two loops).                                                              *)
THEOREM AlwaysAdvances == Spec => Advances
<1>1. Init => Unfinished
  BY KeysAssumption DEF Init, Unfinished
<1>2. IInv /\ Unfinished /\ [Next]_vars => Unfinished'
  BY UnfinishedKept
<1>3. IInv /\ Unfinished /\ [Next]_vars => [Remaining' \in Nat /\ Remaining' < Remaining]_vars
  BY StepAdvances
<1> QED
  BY <1>1, <1>2, <1>3, AlwaysSound, PTL DEF Spec, Advances

-----------------------------------------------------------------------------
(* Under a comparator that is an order: the result is sorted, ties keep     *)
(* their places, and keys that cannot be ordered are reported.              *)

(* What the sort is given. *)
InputOK == /\ n \in Nat
           /\ \/ caller = "sort" /\ terms = <<FALSE>>
              \/ caller = "order_by" /\ terms \in [{1} -> BOOLEAN] \cup [{1, 2} -> BOOLEAN]
              \/ caller = "lambda" /\ terms = <<>>
           /\ key \in [Slots -> [DOMAIN terms -> Keys]]

(* How term t orders items a and b. *)
ByTerm(t, a, b) ==
    LET o == CompareKeys(key[a][t], key[b][t]) IN IF terms[t] THEN Reversed(o) ELSE o

(* a comes before b in a stable sort, *)
Ordered(a, b) == \/ CompareTerms(a, b) = "less"
                 \/ CompareTerms(a, b) = "equal" /\ a < b

(* and all that a sort by one term keeps when some keys are NaN: they can   *)
(* be ordered, and a missing key is at its end of the array.                *)
Alike(a, b) ==
    /\ CompareKeys(key[a][1], key[b][1]) \in Orders
    /\ IF terms[1] THEN key[b][1].kind = "undefined" => key[a][1].kind = "undefined"
                   ELSE key[a][1].kind = "undefined" => key[b][1].kind = "undefined"

Before(a, b) == /\ NoNaN => Ordered(a, b)
                /\ Len(terms) = 1 => Alike(a, b)

-----------------------------------------------------------------------------
(* Two keys compare the same way from either side; *)
LEMMA CompareKeysFacts ==
    ASSUME NEW x \in Keys, NEW y \in Keys
    PROVE  /\ CompareKeys(x, y) = "less" <=> CompareKeys(y, x) = "greater"
           /\ CompareKeys(x, y) = "equal" <=> CompareKeys(y, x) = "equal"
           /\ CompareKeys(x, y) \in Orders <=> CompareKeys(y, x) \in Orders
<1>1. x.rank \in Nat /\ y.rank \in Nat /\ x.kind \in Kinds /\ y.kind \in Kinds
  BY KeysAssumption
<1>2. CompareKeys(x, y) = "less" <=> CompareKeys(y, x) = "greater"
  BY <1>1, KeyOrder DEF Numeric
<1>3. CompareKeys(x, y) = "equal" <=> CompareKeys(y, x) = "equal"
  BY <1>1, KeyOrder DEF Numeric
<1>4. CompareKeys(x, y) \in Orders <=> CompareKeys(y, x) \in Orders
  BY <1>1, KeyOrder DEF Numeric, Orders
<1> QED
  BY <1>2, <1>3, <1>4

(* and without a NaN they are in a total preorder as far as they can be     *)
(* ordered, missing keys last: nothing below hides two that cannot.         *)
LEMMA CompareKeysOrder ==
    ASSUME NEW x \in Keys, NEW y \in Keys, NEW z \in Keys,
           x.kind # "nan", y.kind # "nan", z.kind # "nan"
    PROVE  /\ CompareKeys(x, y) = "less" /\ CompareKeys(y, z) = "less"
                  => CompareKeys(x, z) = "less"
           /\ CompareKeys(x, y) = "equal" => CompareKeys(x, z) = CompareKeys(y, z)
           /\ CompareKeys(y, z) = "equal" => CompareKeys(x, y) = CompareKeys(x, z)
<1>1. /\ x.rank \in Nat /\ y.rank \in Nat /\ z.rank \in Nat
      /\ x.kind \in Kinds /\ y.kind \in Kinds /\ z.kind \in Kinds
  BY KeysAssumption
<1>2. CompareKeys(x, y) = "less" /\ CompareKeys(y, z) = "less" => CompareKeys(x, z) = "less"
  BY <1>1, KeyOrder DEF Numeric
<1>3. CompareKeys(x, y) = "equal" => CompareKeys(x, z) = CompareKeys(y, z)
  BY <1>1, KeyOrder DEF Numeric
<1>4. CompareKeys(y, z) = "equal" => CompareKeys(x, y) = CompareKeys(x, z)
  BY <1>1, KeyOrder DEF Numeric
<1> QED
  BY <1>2, <1>3, <1>4

(* So is the order of one term, ascending or descending. *)
LEMMA ByTermFacts ==
    ASSUME InputOK, NEW t \in DOMAIN terms, NEW a \in Slots, NEW b \in Slots
    PROVE  /\ ByTerm(t, a, b) \in Orders \cup Failures
           /\ ByTerm(t, a, b) \in Orders <=> CompareKeys(key[a][t], key[b][t]) \in Orders
           /\ ByTerm(t, a, b) = "equal" <=> CompareKeys(key[a][t], key[b][t]) = "equal"
           /\ ByTerm(t, a, b) = "greater" => ByTerm(t, b, a) = "less"
           /\ ByTerm(t, a, b) = "equal" => ByTerm(t, b, a) = "equal"
<1>1. key[a][t] \in Keys /\ key[b][t] \in Keys
  BY DEF InputOK
<1> DEFINE o(u, v) == CompareKeys(key[u][t], key[v][t])
<1>2. /\ o(a, b) \in Orders \cup Failures
      /\ (o(a, b) = "less" <=> o(b, a) = "greater")
      /\ (o(b, a) = "less" <=> o(a, b) = "greater")
      /\ (o(a, b) = "equal" <=> o(b, a) = "equal")
  BY <1>1, KeyOrder, CompareKeysFacts
<1>3. \A u, v : ByTerm(t, u, v) =
          IF terms[t] THEN CASE o(u, v) = "less" -> "greater" [] o(u, v) = "greater" -> "less"
                             [] OTHER -> o(u, v)
                      ELSE o(u, v)
  BY DEF ByTerm, Reversed
<1> HIDE DEF o
<1>4. /\ ByTerm(t, a, b) \in Orders \cup Failures
      /\ ByTerm(t, a, b) \in Orders <=> o(a, b) \in Orders
      /\ ByTerm(t, a, b) = "equal" <=> o(a, b) = "equal"
  BY <1>2, <1>3 DEF Orders
<1>5. /\ ByTerm(t, a, b) = "greater" => ByTerm(t, b, a) = "less"
      /\ ByTerm(t, a, b) = "equal" => ByTerm(t, b, a) = "equal"
  BY <1>2, <1>3
<1> QED
  BY <1>4, <1>5 DEF o

LEMMA ByTermOrder ==
    ASSUME InputOK, NoNaN, NEW t \in DOMAIN terms,
           NEW a \in Slots, NEW b \in Slots, NEW c \in Slots
    PROVE  /\ ByTerm(t, a, b) = "less" /\ ByTerm(t, b, c) = "less" => ByTerm(t, a, c) = "less"
           /\ ByTerm(t, a, b) = "equal" => ByTerm(t, a, c) = ByTerm(t, b, c)
           /\ ByTerm(t, b, c) = "equal" => ByTerm(t, a, b) = ByTerm(t, a, c)
<1>1. /\ key[a][t] \in Keys /\ key[b][t] \in Keys /\ key[c][t] \in Keys
      /\ key[a][t].kind # "nan" /\ key[b][t].kind # "nan" /\ key[c][t].kind # "nan"
  BY DEF InputOK, NoNaN
<1> DEFINE o(u, v) == CompareKeys(key[u][t], key[v][t])
<1>2. /\ (o(a, b) = "less" /\ o(b, c) = "less" => o(a, c) = "less")
      /\ (o(a, b) = "equal" => o(a, c) = o(b, c))
      /\ (o(b, c) = "equal" => o(a, b) = o(a, c))
      /\ (o(c, b) = "less" /\ o(b, a) = "less" => o(c, a) = "less")
  BY <1>1, CompareKeysOrder
<1>3. /\ (o(b, a) = "less" <=> o(a, b) = "greater")
      /\ (o(c, b) = "less" <=> o(b, c) = "greater")
      /\ (o(c, a) = "less" <=> o(a, c) = "greater")
  BY <1>1, CompareKeysFacts
<1>4. \A u, v : ByTerm(t, u, v) =
          IF terms[t] THEN CASE o(u, v) = "less" -> "greater" [] o(u, v) = "greater" -> "less"
                             [] OTHER -> o(u, v)
                      ELSE o(u, v)
  BY DEF ByTerm, Reversed
<1> HIDE DEF o
<1>5. \A u, v : /\ ByTerm(t, u, v) = "less" <=> o(u, v) = (IF terms[t] THEN "greater" ELSE "less")
                /\ ByTerm(t, u, v) = "equal" <=> o(u, v) = "equal"
  BY <1>4
<1>6. ByTerm(t, a, b) = "less" /\ ByTerm(t, b, c) = "less" => ByTerm(t, a, c) = "less"
  BY <1>2, <1>3, <1>5
<1>7. /\ ByTerm(t, a, b) = "equal" => ByTerm(t, a, c) = ByTerm(t, b, c)
      /\ ByTerm(t, b, c) = "equal" => ByTerm(t, a, b) = ByTerm(t, a, c)
  BY <1>2, <1>4, <1>5
<1> QED
  BY <1>6, <1>7

LEMMA TermCounts ==
    InputOK => terms = <<>> \/ DOMAIN terms = {1} \/ DOMAIN terms = {1, 2}
<1>1. DOMAIN <<FALSE>> = {1}
  OBVIOUS
<1>2. \A f \in [{1} -> BOOLEAN] : DOMAIN f = {1}
  OBVIOUS
<1>3. \A f \in [{1, 2} -> BOOLEAN] : DOMAIN f = {1, 2}
  OBVIOUS
<1> QED
  BY <1>1, <1>2, <1>3 DEF InputOK

(* A sort by one term is none by a lambda, and 1 is that term. *)
LEMMA OneTerm ==
    ASSUME InputOK, Len(terms) = 1
    PROVE  DOMAIN terms = {1} /\ caller # "lambda"
<1>1. terms # <<>>
  OBVIOUS
<1>2. \A f \in [{1, 2} -> BOOLEAN] : Len(f) # 1
  BY \A f \in [{1, 2} -> BOOLEAN] : f \in [1 .. 2 -> BOOLEAN], 1 .. 2 = {1, 2}
<1>3. caller # "lambda"
  BY <1>1 DEF InputOK
<1>4. DOMAIN terms = {1}
  BY <1>1, <1>2, <1>3 DEF InputOK
<1> QED
  BY <1>3, <1>4

(* The terms are asked in turn; the first that does not tie decides. *)
LEMMA TermByTerm ==
    ASSUME InputOK, NEW a \in Slots, NEW b \in Slots
    PROVE  /\ terms = <<>> => CompareTerms(a, b) = "equal"
           /\ DOMAIN terms = {1} => CompareTerms(a, b) = ByTerm(1, a, b)
           /\ DOMAIN terms = {1, 2} =>
                  CompareTerms(a, b) =
                      IF ByTerm(1, a, b) = "equal" THEN ByTerm(2, a, b) ELSE ByTerm(1, a, b)
<1> DEFINE by(t) == CompareKeys(key[a][t], key[b][t])
           telling == {t \in DOMAIN terms : by(t) # "equal"}
           first == CHOOSE t \in telling : \A u \in telling : t <= u
<1>1. CompareTerms(a, b) = IF telling = {} THEN "equal"
                           ELSE IF terms[first] THEN Reversed(by(first)) ELSE by(first)
  BY DEF CompareTerms
<1>2. \A t : ByTerm(t, a, b) = IF terms[t] THEN Reversed(by(t)) ELSE by(t)
  BY DEF ByTerm
<1>3. \A t \in DOMAIN terms : ByTerm(t, a, b) = "equal" <=> by(t) = "equal"
  BY ByTermFacts
<1> HIDE DEF by
<1>4. ASSUME NEW t \in telling, \A u \in telling : t <= u, t \in Nat, telling \subseteq Nat
      PROVE  CompareTerms(a, b) = ByTerm(t, a, b)
  <2>1. first \in telling /\ \A u \in telling : first <= u
    BY <1>4
  <2>2. first = t
    BY <1>4, <2>1
  <2> HIDE DEF first, telling
  <2> QED
    BY <1>1, <1>2, <1>4, <2>2
<1>5. terms = <<>> => telling = {}
  OBVIOUS
<1>6. ASSUME DOMAIN terms = {1} PROVE CompareTerms(a, b) = ByTerm(1, a, b)
  <2>1. CASE by(1) = "equal"
    BY <1>1, <1>3, <1>6, <2>1
  <2>2. CASE by(1) # "equal"
    <3>1. telling = {1}
      BY <1>6, <2>2
    <3> QED
      BY <1>4, <3>1
  <2> QED
    BY <2>1, <2>2
<1>7. ASSUME DOMAIN terms = {1, 2}
      PROVE  CompareTerms(a, b) =
                 IF ByTerm(1, a, b) = "equal" THEN ByTerm(2, a, b) ELSE ByTerm(1, a, b)
  <2>1. CASE by(1) # "equal"
    <3>1. 1 \in telling /\ telling \subseteq {1, 2}
      BY <1>7, <2>1
    <3>2. CompareTerms(a, b) = ByTerm(1, a, b)
      BY <1>4, <3>1
    <3> QED
      BY <1>3, <1>7, <2>1, <3>2
  <2>2. CASE by(1) = "equal" /\ by(2) # "equal"
    <3>1. telling = {2}
      BY <1>7, <2>2
    <3>2. CompareTerms(a, b) = ByTerm(2, a, b)
      BY <1>4, <3>1
    <3> QED
      BY <1>3, <1>7, <2>2, <3>2
  <2>3. CASE by(1) = "equal" /\ by(2) = "equal"
    <3>1. telling = {}
      BY <1>7, <2>3
    <3> QED
      BY <1>1, <1>3, <1>7, <2>3, <3>1
  <2> QED
    BY <2>1, <2>2, <2>3
<1> QED
  BY <1>1, <1>5, <1>6, <1>7

(* The terms together order the items as each of them does: *)
LEMMA TermsFacts ==
    ASSUME InputOK, NEW a \in Slots, NEW b \in Slots
    PROVE  /\ CompareTerms(a, b) \in Orders \cup Failures
           /\ CompareTerms(a, b) = "greater" => CompareTerms(b, a) = "less"
           /\ CompareTerms(a, b) = "equal" => CompareTerms(b, a) = "equal"
<1>1. CASE terms = <<>>
  BY <1>1, TermByTerm DEF Orders
<1>2. CASE DOMAIN terms = {1}
  <2>1. \A u, v \in Slots : CompareTerms(u, v) = ByTerm(1, u, v)
    BY <1>2, TermByTerm
  <2>2. 1 \in DOMAIN terms
    BY <1>2
  <2> QED
    BY <2>1, <2>2, ByTermFacts
<1>3. CASE DOMAIN terms = {1, 2}
  <2>1. \A u, v \in Slots : CompareTerms(u, v) =
            IF ByTerm(1, u, v) = "equal" THEN ByTerm(2, u, v) ELSE ByTerm(1, u, v)
    BY <1>3, TermByTerm
  <2>2. \A t \in {1, 2} :
           /\ ByTerm(t, a, b) \in Orders \cup Failures
           /\ ByTerm(t, a, b) = "greater" => ByTerm(t, b, a) = "less"
           /\ ByTerm(t, a, b) = "equal" => ByTerm(t, b, a) = "equal"
           /\ ByTerm(t, b, a) = "equal" => ByTerm(t, a, b) = "equal"
    BY <1>3, ByTermFacts
  <2> QED
    BY <2>1, <2>2
<1> QED
  BY <1>1, <1>2, <1>3, TermCounts

(* in a preorder, when no key is NaN. *)
LEMMA TermsOrder ==
    ASSUME InputOK, NoNaN, NEW a \in Slots, NEW b \in Slots, NEW c \in Slots
    PROVE  /\ CompareTerms(a, b) = "less" /\ CompareTerms(b, c) = "less"
                  => CompareTerms(a, c) = "less"
           /\ CompareTerms(a, b) = "equal" => CompareTerms(a, c) = CompareTerms(b, c)
           /\ CompareTerms(b, c) = "equal" => CompareTerms(a, b) = CompareTerms(a, c)
<1>1. CASE terms = <<>>
  BY <1>1, TermByTerm
<1>2. CASE DOMAIN terms = {1}
  <2>1. \A u, v \in Slots : CompareTerms(u, v) = ByTerm(1, u, v)
    BY <1>2, TermByTerm
  <2>2. 1 \in DOMAIN terms
    BY <1>2
  <2> QED
    BY <2>1, <2>2, ByTermOrder
<1>3. CASE DOMAIN terms = {1, 2}
  <2>1. \A u, v \in Slots : CompareTerms(u, v) =
            IF ByTerm(1, u, v) = "equal" THEN ByTerm(2, u, v) ELSE ByTerm(1, u, v)
    BY <1>3, TermByTerm
  <2>2. \A t \in {1, 2} :
           /\ ByTerm(t, a, b) = "less" /\ ByTerm(t, b, c) = "less" => ByTerm(t, a, c) = "less"
           /\ ByTerm(t, a, b) = "equal" => ByTerm(t, a, c) = ByTerm(t, b, c)
           /\ ByTerm(t, b, c) = "equal" => ByTerm(t, a, b) = ByTerm(t, a, c)
    BY <1>3, ByTermOrder
  <2> QED
    BY <2>1, <2>2
<1> QED
  BY <1>1, <1>2, <1>3, TermCounts

-----------------------------------------------------------------------------
(* Keys that can be ordered with one that is not missing can be ordered     *)
(* with each other, also past a NaN, which ties with every number.          *)
LEMMA AlikeTransitive ==
    ASSUME InputOK, Len(terms) = 1, NEW a \in Slots, NEW b \in Slots, NEW c \in Slots,
           Alike(a, b), Alike(b, c)
    PROVE  Alike(a, c)
<1>1. key[a][1] \in Keys /\ key[b][1] \in Keys /\ key[c][1] \in Keys
  BY OneTerm DEF InputOK
<1>2. ASSUME NEW x \in Keys, NEW y \in Keys, NEW z \in Keys,
             CompareKeys(x, y) \in Orders, CompareKeys(y, z) \in Orders,
             y.kind = "undefined" => x.kind = "undefined" \/ z.kind = "undefined"
      PROVE  CompareKeys(x, z) \in Orders
  <2>1. /\ x.rank \in Nat /\ y.rank \in Nat /\ z.rank \in Nat
        /\ x.kind \in Kinds /\ y.kind \in Kinds /\ z.kind \in Kinds
    BY KeysAssumption
  <2> QED
    BY <1>2, <2>1, KeyOrder DEF Numeric, Orders
<1>3. CompareKeys(key[a][1], key[c][1]) \in Orders
  BY <1>1, <1>2 DEF Alike
<1> QED
  BY <1>3 DEF Alike

(* What is less comes before, *)
LEMMA LessIsBefore ==
    ASSUME InputOK, NEW a \in Slots, NEW b \in Slots, CompareTerms(a, b) = "less"
    PROVE  Before(a, b)
<1>1. ASSUME Len(terms) = 1 PROVE Alike(a, b)
  <2>1. DOMAIN terms = {1} /\ CompareTerms(a, b) = ByTerm(1, a, b)
    BY <1>1, OneTerm, TermByTerm
  <2>2. key[a][1] \in Keys /\ key[b][1] \in Keys
    BY <2>1 DEF InputOK
  <2>3. CompareKeys(key[a][1], key[b][1]) = (IF terms[1] THEN "greater" ELSE "less")
    BY <2>1 DEF ByTerm, Reversed
  <2>4. /\ key[a][1].kind \in Kinds /\ key[b][1].kind \in Kinds
        /\ key[a][1].rank \in Nat /\ key[b][1].rank \in Nat
    BY <2>2, KeysAssumption
  <2> QED
    BY <2>3, <2>4, KeyOrder DEF Alike, Orders
<1> QED
  BY <1>1 DEF Before, Ordered

(* and an item that does not come before an earlier one comes after it. *)
LEMMA NotLessIsAfter ==
    ASSUME InputOK, NEW a \in Slots, NEW b \in Slots, a < b,
           CompareTerms(b, a) \in Orders, CompareTerms(b, a) # "less"
    PROVE  Before(a, b)
<1>1. CASE CompareTerms(b, a) = "greater"
  BY <1>1, TermsFacts, LessIsBefore
<1>2. CASE CompareTerms(b, a) = "equal"
  <2>1. Ordered(a, b)
    BY <1>2, TermsFacts DEF Ordered
  <2>2. ASSUME Len(terms) = 1 PROVE Alike(a, b)
    <3>1. 1 \in DOMAIN terms /\ CompareTerms(b, a) = ByTerm(1, b, a)
      BY <2>2, OneTerm, TermByTerm
    <3>2. key[a][1] \in Keys /\ key[b][1] \in Keys
      BY <3>1 DEF InputOK
    <3>3. CompareKeys(key[a][1], key[b][1]) = "equal"
      BY <1>2, <3>1, <3>2, ByTermFacts, CompareKeysFacts
    <3> QED
      BY <3>3, KeyOrder DEF Alike, Orders, Numeric
  <2> QED
    BY <2>1, <2>2 DEF Before
<1> QED
  BY <1>1, <1>2 DEF Orders

(* Before orders the items: what is before an item that is before another  *)
(* is before that one, also with pairs that cannot be ordered around.      *)
LEMMA BeforeTransitive ==
    ASSUME InputOK, NEW a \in Slots, NEW b \in Slots, NEW c \in Slots,
           Before(a, b), Before(b, c)
    PROVE  Before(a, c)
<1>1. a \in Nat /\ b \in Nat /\ c \in Nat
  BY DEF InputOK, Slots
<1>2. NoNaN => Ordered(a, c)
  BY <1>1, TermsOrder DEF Before, Ordered
<1> QED
  BY <1>2, AlikeTransitive DEF Before

(* Two items that the terms cannot order have keys that cannot be ordered. *)
LEMMA FailingTerm ==
    ASSUME InputOK, NEW a \in Slots, NEW b \in Slots, CompareTerms(a, b) \notin Orders
    PROVE  \E t \in DOMAIN terms : CompareKeys(key[a][t], key[b][t]) \notin Orders
<1>1. CASE terms = <<>>
  BY <1>1, TermByTerm DEF Orders
<1>2. CASE DOMAIN terms = {1}
  BY <1>2, TermByTerm, ByTermFacts
<1>3. CASE DOMAIN terms = {1, 2}
  <2>1. \E t \in {1, 2} : ByTerm(t, a, b) \notin Orders
    BY <1>3, TermByTerm
  <2> QED
    BY <1>3, <2>1, ByTermFacts
<1> QED
  BY <1>1, <1>2, <1>3, TermCounts

-----------------------------------------------------------------------------
(* Positions at which a pass over runs of width w starts a run. *)
Aligned(p, w) == \E m \in Nat : p = m * w

LEMMA AlignedFacts ==
    ASSUME NEW p \in Nat, NEW w \in Nat \ {0}
    PROVE  /\ Aligned(0, w)
           /\ Aligned(p, 2 * w) => Aligned(p, w) /\ Aligned(p + w, w) /\ Aligned(p + 2 * w, 2 * w)
<1>1. Aligned(0, w)
  BY DEF Aligned
<1>2. ASSUME NEW m \in Nat, p = m * (2 * w)
      PROVE  p = (2 * m) * w /\ p + w = (2 * m + 1) * w /\ p + 2 * w = (m + 1) * (2 * w)
  BY <1>2
<1>3. ASSUME Aligned(p, 2 * w)
      PROVE  Aligned(p, w) /\ Aligned(p + w, w) /\ Aligned(p + 2 * w, 2 * w)
  <2>1. PICK m \in Nat : p = m * (2 * w)
    BY <1>3 DEF Aligned
  <2>2. 2 * m \in Nat /\ 2 * m + 1 \in Nat /\ m + 1 \in Nat
    OBVIOUS
  <2> QED
    BY <1>2, <2>1, <2>2 DEF Aligned
<1> QED
  BY <1>1, <1>3

(* Runs do not overlap. *)
LEMMA AlignedApart ==
    ASSUME NEW p \in Nat, NEW r \in Nat, NEW w \in Nat \ {0},
           Aligned(p, w), Aligned(r, w), p < r
    PROVE  p + w <= r
<1>1. PICK a \in Nat : p = a * w
  BY DEF Aligned
<1>2. PICK b \in Nat : r = b * w
  BY DEF Aligned
<1>3. a < b
  <2> SUFFICES ASSUME b <= a PROVE FALSE
    OBVIOUS
  <2>1. PICK d \in Nat : a = b + d
    BY a - b \in Nat
  <2>2. p = b * w + d * w /\ d * w \in Nat
    BY <1>1, <2>1
  <2> QED
    BY <1>2, <2>2
<1>4. PICK d \in Nat : b = a + 1 + d
  BY <1>3, b - a - 1 \in Nat
<1>5. r = a * w + w + d * w /\ d * w \in Nat
  BY <1>2, <1>4
<1> QED
  BY <1>1, <1>5

-----------------------------------------------------------------------------
(* f keeps the items of lo .. hi - 1 there and has them in order. *)
Run(f, lo, hi) ==
    /\ \A p \in lo .. hi - 1 : f[p] \in lo .. hi - 1
    /\ \A p, q \in lo .. hi - 1 : p < q => Before(f[p], f[q])

(* Every run of this pass is sorted, *)
IdxRuns == \A s \in Slots : Aligned(s, width) => Run(idx, s, Least(s + width, n))

(* so are the merged runs before start, *)
BufRuns == \A s \in Nat : Aligned(s, 2 * width) /\ s < start => Run(buf, s, s + 2 * width)

(* and what is merged of the two runs at start comes before what is not.   *)
Rest == (i .. mid - 1) \cup (j .. end - 1)

Merged == /\ \A p \in start .. k - 1 : buf[p] \in start .. end - 1
          /\ \A p, q \in start .. k - 1 : p < q => Before(buf[p], buf[q])
          /\ \A p \in start .. k - 1, q \in Rest : Before(buf[p], idx[q])

MergingRuns == Aligned(start, 2 * width) /\ IdxRuns /\ BufRuns /\ Merged

(* $sort's own comparator has one code, the terms of ^(...) have others. *)
FailureExplained ==
    /\ \E t \in DOMAIN terms : ~Orderable(t)
    /\ caller = "sort" <=> code = "D3070"

(* The inductive invariant under an order. *)
OrderInv == /\ InputOK
            /\ caller # "lambda" =>
                   /\ phase = "merging" => MergingRuns
                   /\ phase \in {"apply", "done"} => Run(idx, 0, n)
                   /\ phase = "failed" => FailureExplained

-----------------------------------------------------------------------------
LEMMA SameRun ==
    ASSUME NEW f, NEW g, NEW lo, NEW hi, Run(f, lo, hi), \A p \in lo .. hi - 1 : g[p] = f[p]
    PROVE  Run(g, lo, hi)
BY DEF Run

(* A step that keeps the input keeps the order of the items. *)
LEMMA SameOrder ==
    ASSUME input' = input
    PROVE  /\ \A a, b : CompareTerms(a, b)' = CompareTerms(a, b)
           /\ \A a, b : Before(a, b)' <=> Before(a, b)
<1>1. key' = key /\ terms' = terms /\ Slots' = Slots
  BY DEF input, Slots
<1>2. \A a, b : CompareTerms(a, b)' = CompareTerms(a, b)
  BY <1>1 DEF CompareTerms
<1>3. \A a, b : Ordered(a, b)' <=> Ordered(a, b)
  BY <1>2 DEF Ordered
<1>4. (NoNaN' <=> NoNaN) /\ \A a, b : Alike(a, b)' <=> Alike(a, b)
  BY <1>1 DEF NoNaN, Alike
<1> QED
  BY <1>1, <1>2, <1>3, <1>4 DEF Before

LEMMA SameRuns ==
    ASSUME input' = input, NEW f, NEW lo, NEW hi
    PROVE  Run(f, lo, hi)' <=> Run(f, lo, hi)
BY SameOrder DEF Run

LEMMA SameRunIdx ==
    ASSUME input' = input
    PROVE  \A lo, hi : Run(idx, lo, hi)' <=> Run(idx', lo, hi)
BY SameOrder DEF Run

(* The two runs at start, when there is something to merge. *)
LEMMA HeadRuns ==
    ASSUME IInv, start < n, Aligned(start, 2 * width), IdxRuns
    PROVE  Run(idx, start, mid) /\ Run(idx, mid, end)
<1>1. /\ n \in Nat /\ width \in Nat \ {0} /\ start \in Nat /\ mid \in Nat /\ end \in Nat
      /\ mid <= end /\ end <= n
  BY Runs, KeysAssumption DEF IInv, TypeOK
<1>2. Aligned(start, width) /\ Aligned(start + width, width)
  BY <1>1, AlignedFacts
<1>3. Run(idx, start, mid)
  BY <1>1, <1>2 DEF IdxRuns, mid, Slots
<1>4. CASE start + width < n
  <2>1. mid = start + width /\ end = Least(mid + width, n)
    BY <1>1, <1>4 DEF mid, end, Least
  <2> QED
    BY <1>1, <1>2, <1>3, <1>4, <2>1 DEF IdxRuns, Slots
<1>5. CASE start + width >= n
  <2>1. mid = n /\ end = n
    BY <1>1, <1>5 DEF mid, end, Least
  <2> QED
    BY <1>1, <1>3, <2>1 DEF Run
<1> QED
  BY <1>1, <1>4, <1>5

(* Taking the head q of a run keeps what is merged in order, when it comes *)
(* before the rest of both runs.                                           *)
LEMMA TakeHead ==
    ASSUME IInv, InputOK, CursorsInRuns, Merged, BufRuns, Aligned(start, 2 * width), k < n,
           NEW q \in Rest, idx[q] \in start .. end - 1,
           NEW left \in SUBSET Rest, q \notin left,
           \A r \in left : Before(idx[q], idx[r]),
           NEW f, f = [buf EXCEPT ![k] = idx[q]]
    PROVE  /\ \A p \in start .. k : f[p] \in start .. end - 1
           /\ \A p, r \in start .. k : p < r => Before(f[p], f[r])
           /\ \A p \in start .. k, r \in left : Before(f[p], idx[r])
           /\ \A s \in Nat : Aligned(s, 2 * width) /\ s < start => Run(f, s, s + 2 * width)
<1>1. /\ n \in Nat /\ k \in Nat /\ start \in Nat /\ width \in Nat \ {0} /\ start <= k
      /\ buf \in [Slots -> Slots] /\ i \in Nat /\ j \in Nat /\ mid \in Nat
  BY Runs, KeysAssumption DEF IInv, TypeOK, CursorsInRuns
<1>2. k \in Slots /\ f[k] = idx[q] /\ \A p \in 0 .. k - 1 : f[p] = buf[p]
  BY <1>1 DEF Slots
<1>3. \A p \in start .. k : p = k \/ p \in start .. k - 1
  BY <1>1
<1>4. \A p \in start .. k - 1 : p \in 0 .. k - 1 /\ p < k
  BY <1>1
<1>5. \A p \in start .. k : f[p] \in start .. end - 1
  BY <1>2, <1>3, <1>4 DEF Merged
<1>6. \A p, r \in start .. k : p < r => Before(f[p], f[r])
  <2> SUFFICES ASSUME NEW p \in start .. k, NEW r \in start .. k, p < r
               PROVE  Before(f[p], f[r])
    OBVIOUS
  <2>1. p \in start .. k - 1
    BY <1>1
  <2>2. CASE r = k
    BY <1>2, <1>4, <2>1, <2>2 DEF Merged
  <2>3. CASE r \in start .. k - 1
    BY <1>2, <1>4, <2>1, <2>3 DEF Merged
  <2> QED
    BY <1>3, <2>2, <2>3
<1>7. \A p \in start .. k, r \in left : Before(f[p], idx[r])
  BY <1>2, <1>3, <1>4 DEF Merged
<1>8. \A s \in Nat : Aligned(s, 2 * width) /\ s < start => Run(f, s, s + 2 * width)
  <2> SUFFICES ASSUME NEW s \in Nat, Aligned(s, 2 * width), s < start
               PROVE  Run(f, s, s + 2 * width)
    OBVIOUS
  <2>1. s + 2 * width <= start
    BY <1>1, AlignedApart
  <2> DEFINE hi == s + 2 * width
  <2>2. \A p \in s .. hi - 1 : p \in 0 .. k - 1
    BY <1>1, <2>1
  <2>3. Run(buf, s, hi)
    BY DEF BufRuns
  <2>4. \A p \in s .. hi - 1 : f[p] = buf[p]
    BY <1>2, <2>2
  <2>5. Run(f, s, hi)
    <3> HIDE DEF hi
    <3> QED
      BY <2>3, <2>4, SameRun
  <2> QED
    BY <2>5
<1> QED
  BY <1>5, <1>6, <1>7, <1>8

(* One comparison under an order. *)
LEMMA CompareOrders == IInv /\ OrderInv /\ Compare => OrderInv'
<1> SUFFICES ASSUME IInv, OrderInv, Compare PROVE OrderInv'
  OBVIOUS
<1>1. /\ TypeOK /\ Permutation(idx) /\ CursorsInRuns /\ InputOK
      /\ phase = "merging" /\ i < mid /\ j < end
  BY DEF IInv, OrderInv, Compare, MergeSound
<1>2. /\ mid \in Nat /\ end \in Nat /\ start < mid /\ mid <= end /\ end <= n
      /\ n \in Nat /\ i \in Nat /\ j \in Nat /\ k \in Nat /\ start \in Nat
      /\ start <= i /\ mid <= j /\ k + mid = i + j /\ start < n /\ k < n
      /\ idx \in [Slots -> Slots] /\ buf \in [Slots -> Slots] /\ width \in Nat \ {0}
  BY <1>1, Runs, KeysAssumption DEF CursorsInRuns, TypeOK
<1>3. /\ n' = n /\ caller' = caller /\ terms' = terms /\ key' = key /\ idx' = idx
      /\ width' = width /\ start' = start /\ input' = input
      /\ Slots' = Slots /\ mid' = mid /\ end' = end
  BY DEF Compare, input, Slots, mid, end
<1>4. InputOK'
  BY <1>1, <1>3 DEF InputOK
<1> SUFFICES ASSUME caller # "lambda"
             PROVE  /\ phase' = "merging" => MergingRuns'
                    /\ phase' \in {"apply", "done"} => Run(idx, 0, n)'
                    /\ phase' = "failed" => FailureExplained'
  BY <1>3, <1>4 DEF OrderInv
<1>5. MergingRuns
  BY <1>1 DEF OrderInv
<1>6. Run(idx, start, mid) /\ Run(idx, mid, end)
  BY <1>2, <1>5, HeadRuns DEF MergingRuns
<1>7. /\ i \in Rest /\ j \in Rest /\ i \in Slots /\ j \in Slots /\ i # j
      /\ idx[i] \in start .. mid - 1 /\ idx[j] \in mid .. end - 1
      /\ idx[i] \in Slots /\ idx[j] \in Slots /\ idx[i] < idx[j]
      /\ idx[i] \in start .. end - 1 /\ idx[j] \in start .. end - 1
  <2>1. i \in Rest /\ j \in Rest /\ i \in Slots /\ j \in Slots /\ i # j
    BY <1>1, <1>2 DEF Rest, Slots
  <2>2. idx[i] \in start .. mid - 1 /\ idx[j] \in mid .. end - 1
    <3>1. i \in start .. mid - 1 /\ j \in mid .. end - 1
      BY <1>1, <1>2
    <3> QED
      BY <1>6, <3>1 DEF Run
  <2> QED
    BY <1>2, <2>1, <2>2
<1>8. /\ \A r \in i + 1 .. mid - 1 : r \in Slots /\ Before(idx[i], idx[r])
      /\ \A r \in j + 1 .. end - 1 : r \in Slots /\ Before(idx[j], idx[r])
  <2>1. /\ i \in start .. mid - 1 /\ j \in mid .. end - 1
        /\ \A r \in i + 1 .. mid - 1 : r \in start .. mid - 1 /\ i < r /\ r \in Slots
        /\ \A r \in j + 1 .. end - 1 : r \in mid .. end - 1 /\ j < r /\ r \in Slots
    BY <1>1, <1>2 DEF Slots
  <2> QED
    BY <1>6, <2>1 DEF Run
<1>9. IdxRuns' /\ Aligned(start, 2 * width)'
  BY <1>3, <1>5, SameRunIdx DEF MergingRuns, IdxRuns
<1> PICK answer \in Answers(idx[j], idx[i]) : Merge(answer)
  BY DEF Compare
<1>10. /\ caller = "sort" => answer = DefaultOrder(idx[j], idx[i])
       /\ caller = "order_by" => answer = CompareTerms(idx[j], idx[i])
       /\ caller \in {"sort", "order_by"}
  BY <1>1 DEF Answers, TypeOK
<1>11. CompareTerms(idx[j], idx[i]) \in Orders \cup Failures
  BY <1>1, <1>7, TermsFacts
<1>12. answer \in Orders => answer = CompareTerms(idx[j], idx[i])
  BY <1>10 DEF DefaultOrder, Orders
<1>13. CASE answer \in Orders /\ answer = "less"
  <2> DEFINE f == [buf EXCEPT ![k] = idx[j]]
             left == (i .. mid - 1) \cup (j + 1 .. end - 1)
  <2>1. buf' = f /\ j' = j + 1 /\ k' = k + 1 /\ i' = i /\ phase' = phase
    BY <1>13 DEF Merge, TakeRight
  <2>2. left \in SUBSET Rest /\ j \notin left /\ Rest' = left
    BY <1>1, <1>2, <1>3, <2>1 DEF Rest
  <2>3. Before(idx[j], idx[i])
    BY <1>1, <1>7, <1>12, <1>13, LessIsBefore
  <2>4. \A r \in left : Before(idx[j], idx[r])
    <3> TAKE r \in left
    <3>1. CASE r = i
      BY <2>3, <3>1
    <3>2. CASE r \in i + 1 .. mid - 1
      <4>1. idx[r] \in Slots /\ Before(idx[i], idx[r])
        BY <1>2, <1>8, <3>2
      <4> QED
        BY <1>1, <1>7, <2>3, <4>1, BeforeTransitive
    <3>3. CASE r \in j + 1 .. end - 1
      BY <1>8, <3>3
    <3> QED
      BY <1>2, <3>1, <3>2, <3>3
  <2> HIDE DEF f, left
  <2>5. /\ \A p \in start .. k : f[p] \in start .. end - 1
        /\ \A p, r \in start .. k : p < r => Before(f[p], f[r])
        /\ \A p \in start .. k, r \in left : Before(f[p], idx[r])
        /\ \A s \in Nat : Aligned(s, 2 * width) /\ s < start => Run(f, s, s + 2 * width)
    <3>1. f = [buf EXCEPT ![k] = idx[j]]
      BY DEF f
    <3> QED
      BY <1>1, <1>2, <1>5, <1>7, <2>2, <2>4, <3>1, TakeHead DEF MergingRuns
  <2>6. k' - 1 = k
    BY <1>2, <2>1
  <2>7. Merged'
    BY <1>3, <2>1, <2>2, <2>5, <2>6, SameOrder DEF Merged
  <2>8. BufRuns'
    BY <1>3, <2>1, <2>5, SameRuns DEF BufRuns
  <2> QED
    BY <1>1, <1>9, <2>1, <2>7, <2>8 DEF MergingRuns
<1>14. CASE answer \in Orders /\ answer # "less"
  <2> DEFINE f == [buf EXCEPT ![k] = idx[i]]
             left == (i + 1 .. mid - 1) \cup (j .. end - 1)
  <2>1. buf' = f /\ i' = i + 1 /\ k' = k + 1 /\ j' = j /\ phase' = phase
    BY <1>14 DEF Merge, TakeLeft
  <2>2. left \in SUBSET Rest /\ i \notin left /\ Rest' = left
    BY <1>1, <1>2, <1>3, <2>1 DEF Rest
  <2>3. Before(idx[i], idx[j])
    BY <1>1, <1>7, <1>12, <1>14, NotLessIsAfter
  <2>4. \A r \in left : Before(idx[i], idx[r])
    <3> TAKE r \in left
    <3>1. CASE r = j
      BY <2>3, <3>1
    <3>2. CASE r \in j + 1 .. end - 1
      <4>1. idx[r] \in Slots /\ Before(idx[j], idx[r])
        BY <1>2, <1>8, <3>2
      <4> QED
        BY <1>1, <1>7, <2>3, <4>1, BeforeTransitive
    <3>3. CASE r \in i + 1 .. mid - 1
      BY <1>8, <3>3
    <3> QED
      BY <1>2, <3>1, <3>2, <3>3
  <2> HIDE DEF f, left
  <2>5. /\ \A p \in start .. k : f[p] \in start .. end - 1
        /\ \A p, r \in start .. k : p < r => Before(f[p], f[r])
        /\ \A p \in start .. k, r \in left : Before(f[p], idx[r])
        /\ \A s \in Nat : Aligned(s, 2 * width) /\ s < start => Run(f, s, s + 2 * width)
    <3>1. f = [buf EXCEPT ![k] = idx[i]]
      BY DEF f
    <3> QED
      BY <1>1, <1>2, <1>5, <1>7, <2>2, <2>4, <3>1, TakeHead DEF MergingRuns
  <2>6. k' - 1 = k
    BY <1>2, <2>1
  <2>7. Merged'
    BY <1>3, <2>1, <2>2, <2>5, <2>6, SameOrder DEF Merged
  <2>8. BufRuns'
    BY <1>3, <2>1, <2>5, SameRuns DEF BufRuns
  <2> QED
    BY <1>1, <1>9, <2>1, <2>7, <2>8 DEF MergingRuns
<1>15. CASE answer \notin Orders
  <2>1. phase' = "failed" /\ code' = answer
    BY <1>15 DEF Merge
  <2>2. CompareTerms(idx[j], idx[i]) \notin Orders
    BY <1>10, <1>15 DEF DefaultOrder
  <2>3. idx[j] # idx[i]
    BY <1>1, <1>7 DEF Permutation
  <2>4. \E t \in DOMAIN terms : ~Orderable(t)
    BY <1>1, <1>7, <2>2, <2>3, FailingTerm DEF Orderable
  <2>5. caller = "sort" <=> answer = "D3070"
    BY <1>10, <1>11, <1>15, <2>2 DEF DefaultOrder, Failures
  <2>6. FailureExplained'
    BY <1>3, <2>1, <2>4, <2>5 DEF FailureExplained, Orderable
  <2> QED
    BY <2>1, <2>6
<1> QED
  BY <1>13, <1>14, <1>15

(* The two runs at start, merged and drained, are one sorted run. *)
LEMMA DrainedRun ==
    ASSUME IInv, OrderInv, caller # "lambda", phase = "merging", ~(i < mid /\ j < end)
    PROVE  Run(Drained, start, end)
<1>1. /\ TypeOK /\ InputOK /\ CursorsInRuns /\ Aligned(start, 2 * width) /\ IdxRuns /\ Merged
  BY DEF IInv, OrderInv, MergeSound, MergingRuns
<1>2. /\ mid \in Nat /\ end \in Nat /\ start < mid /\ mid <= end /\ end <= n /\ start < n
      /\ n \in Nat /\ i \in Nat /\ j \in Nat /\ k \in Nat /\ start \in Nat
      /\ start <= i /\ i <= mid /\ mid <= j /\ j <= end /\ k + mid = i + j
      /\ i = mid \/ j = end
  BY <1>1, Runs, KeysAssumption DEF CursorsInRuns, TypeOK
<1>3. Run(idx, start, mid) /\ Run(idx, mid, end)
  BY <1>1, <1>2, HeadRuns
<1> DEFINE from(p) == IF p < j THEN i + (p - k) ELSE p
<1>4. /\ \A p \in start .. k - 1 : Drained[p] = buf[p]
      /\ \A p \in k .. end - 1 : Drained[p] = idx[from(p)] /\ from(p) \in Rest
  <2>1. \A p \in start .. k - 1 : p \in 0 .. k - 1
    BY <1>2
  <2>2. \A p \in k .. end - 1 : IF p < j THEN p \in k .. j - 1 ELSE p \in j .. end - 1
    BY <1>2
  <2> QED
    BY <1>1, <2>1, <2>2, DrainedAt DEF Rest
<1>5. \A p \in Rest : idx[p] \in start .. end - 1
  <2>1. /\ \A p \in i .. mid - 1 : p \in start .. mid - 1
        /\ \A p \in j .. end - 1 : p \in mid .. end - 1
        /\ start .. mid - 1 \subseteq start .. end - 1
        /\ mid .. end - 1 \subseteq start .. end - 1
    BY <1>2
  <2> QED
    BY <1>3, <2>1 DEF Run, Rest
<1>6. \A p \in start .. end - 1 : p \in start .. k - 1 \/ p \in k .. end - 1
  BY <1>2
<1>7. \A p \in start .. end - 1 : Drained[p] \in start .. end - 1
  BY <1>1, <1>4, <1>5, <1>6 DEF Merged
<1>8. ASSUME NEW p \in start .. end - 1, NEW r \in start .. end - 1, p < r
      PROVE  Before(Drained[p], Drained[r])
  <2>1. CASE p \in start .. k - 1 /\ r \in start .. k - 1
    BY <1>1, <1>4, <1>8, <2>1 DEF Merged
  <2>2. CASE p \in start .. k - 1 /\ r \in k .. end - 1
    BY <1>1, <1>4, <2>2 DEF Merged
  <2>3. CASE p \in k .. end - 1 /\ r \in k .. end - 1
    <3>1. \/ from(p) \in start .. mid - 1 /\ from(r) \in start .. mid - 1
          \/ from(p) \in mid .. end - 1 /\ from(r) \in mid .. end - 1
      BY <1>2, <2>3
    <3>2. from(p) < from(r)
      BY <1>2, <1>8, <2>3
    <3> HIDE DEF from
    <3> QED
      BY <1>3, <1>4, <2>3, <3>1, <3>2 DEF Run
  <2>4. CASE p \in k .. end - 1 /\ r \in start .. k - 1
    BY <1>2, <1>8, <2>4
  <2> QED
    BY <1>6, <2>1, <2>2, <2>3, <2>4
<1> QED
  BY <1>7, <1>8 DEF Run

(* So is every run of twice the width that ends where these two do, or     *)
(* before.                                                                 *)
LEMMA DrainedRuns ==
    ASSUME IInv, OrderInv, caller # "lambda", phase = "merging", ~(i < mid /\ j < end),
           NEW s \in Nat, Aligned(s, 2 * width), s < end
    PROVE  Run(Drained, s, Least(s + 2 * width, n))
<1>1. /\ TypeOK /\ CursorsInRuns /\ Aligned(start, 2 * width) /\ BufRuns
  BY DEF IInv, OrderInv, MergeSound, MergingRuns
<1>2. /\ n \in Nat /\ start \in Nat /\ width \in Nat \ {0} /\ 2 * width \in Nat \ {0}
      /\ k \in Nat /\ start <= k /\ start < n /\ end <= start + 2 * width
      /\ end = Least(start + 2 * width, n)
  BY <1>1, Runs, KeysAssumption DEF CursorsInRuns, TypeOK, end, Least
<1>3. CASE s < start
  <2>1. s + 2 * width <= start
    BY <1>1, <1>2, <1>3, AlignedApart
  <2>2. Least(s + 2 * width, n) = s + 2 * width
    BY <1>2, <2>1 DEF Least
  <2> DEFINE hi == s + 2 * width
  <2>3. Run(buf, s, hi)
    BY <1>1, <1>3 DEF BufRuns
  <2>4. \A p \in s .. hi - 1 : p \in 0 .. k - 1
    BY <1>2, <2>1
  <2>5. \A p \in s .. hi - 1 : Drained[p] = buf[p]
    BY <1>1, <2>4, DrainedAt
  <2>6. Run(Drained, s, hi)
    <3> HIDE DEF hi
    <3> QED
      BY <2>3, <2>5, SameRun
  <2> QED
    BY <2>2, <2>6
<1>4. CASE s = start
  BY <1>2, <1>4, DrainedRun
<1>5. CASE start < s
  <2>1. start + 2 * width <= s
    BY <1>1, <1>2, <1>5, AlignedApart
  <2> QED
    BY <1>2, <2>1, Runs, <1>1
<1> QED
  BY <1>2, <1>3, <1>4, <1>5

(* With the cursors at the heads of the next two runs nothing is merged.   *)
LEMMA NextRunsOrders == IInv /\ OrderInv /\ NextRuns => OrderInv'
<1> SUFFICES ASSUME IInv, OrderInv, NextRuns PROVE OrderInv'
  OBVIOUS
<1>1. /\ TypeOK /\ CursorsInRuns /\ InputOK /\ phase = "merging" /\ end < n
      /\ ~(i < mid /\ j < end)
  BY DEF IInv, OrderInv, NextRuns, MergeSound
<1>2. /\ n \in Nat /\ start \in Nat /\ width \in Nat \ {0} /\ end \in Nat
      /\ end = start + 2 * width
  BY <1>1, Runs, KeysAssumption DEF CursorsInRuns, TypeOK
<1>3. /\ n' = n /\ caller' = caller /\ terms' = terms /\ key' = key /\ idx' = idx
      /\ width' = width /\ input' = input /\ Slots' = Slots /\ phase' = phase
      /\ buf' = Drained /\ start' = end /\ k' = end
  BY DEF NextRuns, input, StartRuns, Slots
<1>4. InputOK'
  BY <1>1, <1>3 DEF InputOK
<1> SUFFICES ASSUME caller # "lambda" PROVE MergingRuns'
  BY <1>1, <1>3, <1>4 DEF OrderInv
<1>5. MergingRuns
  BY <1>1 DEF OrderInv
<1>6. Aligned(start, 2 * width)'
  BY <1>2, <1>3, <1>5, AlignedFacts DEF MergingRuns
<1>7. IdxRuns'
  BY <1>3, <1>5, SameRunIdx DEF MergingRuns, IdxRuns
<1>8. BufRuns'
  <2>1. \A s \in Nat : Aligned(s, 2 * width) /\ s < end => Run(Drained, s, s + 2 * width)
    <3> SUFFICES ASSUME NEW s \in Nat, Aligned(s, 2 * width), s < end
                 PROVE  Run(Drained, s, s + 2 * width)
      OBVIOUS
    <3>1. s + 2 * width <= end
      BY <1>2, <1>3, <1>6, AlignedApart, 2 * width \in Nat \ {0}
    <3>2. Least(s + 2 * width, n) = s + 2 * width
      BY <1>1, <1>2, <3>1 DEF Least
    <3> QED
      BY <1>1, <3>2, DrainedRuns
  <2> QED
    BY <1>3, <2>1, SameOrder DEF BufRuns, Run
<1>9. Merged'
  BY <1>2, <1>3 DEF Merged
<1> QED
  BY <1>6, <1>7, <1>8, <1>9 DEF MergingRuns

(* The next pass finds runs of twice the width in order. *)
LEMMA NextPassOrders == IInv /\ OrderInv /\ NextPass => OrderInv'
<1> SUFFICES ASSUME IInv, OrderInv, NextPass PROVE OrderInv'
  OBVIOUS
<1>1. /\ TypeOK /\ CursorsInRuns /\ InputOK /\ phase = "merging" /\ end = n
      /\ ~(i < mid /\ j < end)
  BY DEF IInv, OrderInv, NextPass, MergeSound
<1>2. n \in Nat /\ 0 < n /\ width \in Nat \ {0} /\ 2 * width \in Nat \ {0}
  BY <1>1, KeysAssumption DEF CursorsInRuns, TypeOK
<1>3. /\ n' = n /\ caller' = caller /\ terms' = terms /\ key' = key /\ idx' = Drained
      /\ width' = 2 * width /\ input' = input /\ Slots' = Slots
      /\ start' = 0 /\ k' = 0
      /\ phase' = IF 2 * width < n THEN "merging" ELSE "apply"
  BY DEF NextPass, input, StartRuns, Slots
<1>4. InputOK'
  BY <1>1, <1>3 DEF InputOK
<1> SUFFICES ASSUME caller # "lambda"
             PROVE  /\ phase' = "merging" => MergingRuns'
                    /\ phase' \in {"apply", "done"} => Run(idx, 0, n)'
                    /\ phase' = "failed" => FailureExplained'
  BY <1>3, <1>4 DEF OrderInv
<1>5. \A s \in Slots : Aligned(s, 2 * width) => Run(Drained, s, Least(s + 2 * width, n))
  BY <1>1, <1>2, DrainedRuns DEF Slots
<1>6. IdxRuns'
  BY <1>3, <1>5, SameRunIdx DEF IdxRuns
<1>7. Aligned(start, 2 * width)' /\ BufRuns' /\ Merged'
  BY <1>2, <1>3, AlignedFacts DEF BufRuns, Merged
<1>8. ASSUME 2 * width >= n PROVE Run(idx, 0, n)'
  <2>1. Least(0 + 2 * width, n) = n
    BY <1>2, <1>8 DEF Least
  <2>2. Run(Drained, 0, n)
    BY <1>2, <1>5, <2>1, AlignedFacts DEF Slots
  <2> QED
    BY <1>3, <2>2, SameRunIdx
<1> QED
  BY <1>2, <1>3, <1>6, <1>7, <1>8 DEF MergingRuns

LEMMA ApplyOrders == IInv /\ OrderInv /\ Apply => OrderInv'
<1> SUFFICES ASSUME IInv, OrderInv, Apply PROVE OrderInv'
  OBVIOUS
<1>1. /\ input' = input /\ n' = n /\ caller' = caller /\ terms' = terms /\ key' = key
      /\ idx' = idx /\ phase = "apply" /\ phase' \in {"done", "panic"} /\ Slots' = Slots
  BY DEF Apply, input, Slots
<1>2. InputOK'
  BY <1>1 DEF OrderInv, InputOK
<1>3. caller # "lambda" => Run(idx, 0, n)'
  BY <1>1, SameRunIdx DEF OrderInv
<1> QED
  BY <1>1, <1>2, <1>3 DEF OrderInv

LEMMA InitOrders == Init => OrderInv
<1> SUFFICES ASSUME Init PROVE OrderInv
  OBVIOUS
<1>1. InputOK
  <2>1. n \in Nat
    BY KeysAssumption DEF Init
  <2>2. Evaluated \subseteq Keys
    BY DEF Evaluated
  <2>3. key \in [Slots -> [DOMAIN terms -> Keys]]
    BY <2>2 DEF Init
  <2> QED
    BY <2>1, <2>3, KeysAssumption, Zenon DEF Init, InputOK
<1>2. n \in Nat /\ idx \in [Slots -> Slots] /\ \A p \in Slots : idx[p] = p
  BY KeysAssumption DEF Init, Identity, Slots
<1>3. ASSUME phase = "merging" PROVE MergingRuns
  <2>1. n >= 2 /\ width = 1 /\ start = 0 /\ k = 0
    BY <1>2, <1>3 DEF Init
  <2>2. IdxRuns
    <3> SUFFICES ASSUME NEW s \in Slots PROVE Run(idx, s, Least(s + width, n))
      BY DEF IdxRuns
    <3>1. s \in Nat /\ s + 1 <= n
      BY <1>2 DEF Slots
    <3>2. Least(s + width, n) = s + 1
      BY <1>2, <2>1, <3>1 DEF Least
    <3>3. \A p \in s .. s + 1 - 1 : p = s
      BY <3>1
    <3> QED
      BY <1>2, <3>1, <3>2, <3>3 DEF Run
  <2> QED
    BY <2>1, <2>2, AlignedFacts DEF MergingRuns, BufRuns, Merged
<1>4. ASSUME phase = "done" PROVE Run(idx, 0, n)
  <2>1. n < 2
    BY <1>2, <1>4 DEF Init
  <2>2. \A p, q \in 0 .. n - 1 : ~(p < q)
    BY <1>2, <2>1
  <2> QED
    BY <1>2, <2>2 DEF Run, Slots
<1>5. phase \in {"merging", "done"}
  BY DEF Init
<1> QED
  BY <1>1, <1>3, <1>4, <1>5 DEF OrderInv

LEMMA StutterOrders == OrderInv /\ UNCHANGED vars => OrderInv'
<1> SUFFICES ASSUME OrderInv, UNCHANGED vars PROVE OrderInv'
  OBVIOUS
<1>1. /\ UNCHANGED <<n, caller, terms, key, idx, buf, width, start, i, j, k, phase, code>>
      /\ input' = input /\ Slots' = Slots /\ mid' = mid /\ end' = end
  BY DEF vars, input, cursors, Slots, mid, end
<1>2. InputOK'
  BY <1>1 DEF OrderInv, InputOK
<1>3. MergingRuns => MergingRuns'
  <2>1. IdxRuns => IdxRuns'
    BY <1>1, SameRunIdx DEF IdxRuns
  <2>2. BufRuns => BufRuns'
    BY <1>1, SameOrder DEF BufRuns, Run
  <2>3. Rest' = Rest
    BY <1>1 DEF Rest
  <2>4. Merged => Merged'
    BY <1>1, <2>3, SameOrder DEF Merged
  <2> QED
    BY <1>1, <2>1, <2>2, <2>4 DEF MergingRuns
<1>4. Run(idx, 0, n) => Run(idx, 0, n)'
  BY <1>1, SameRunIdx
<1>5. FailureExplained => FailureExplained'
  BY <1>1 DEF FailureExplained, Orderable
<1> QED
  BY <1>1, <1>2, <1>3, <1>4, <1>5 DEF OrderInv

LEMMA AlwaysOrdered == Spec => [](IInv /\ OrderInv)
<1>1. Init => IInv /\ OrderInv
  BY InitSound, InitOrders
<1>2. (IInv /\ OrderInv) /\ [Next]_vars => (IInv /\ OrderInv)'
  BY StepSound, CompareOrders, NextRunsOrders, NextPassOrders, ApplyOrders, StutterOrders
     DEF Next
<1> QED
  BY <1>1, <1>2, PTL DEF Spec

-----------------------------------------------------------------------------
(* For every array and every number of items: a sort by an order that      *)
(* succeeds leaves them in that order, and ties in the order they came in  *)
(* (try_sort.rs takes the left head unless the right one is less).         *)
THEOREM SortsStably == Spec => []SortedStably
<1>1. OrderInv => SortedStably
  <2> SUFFICES ASSUME OrderInv, phase = "done", caller # "lambda", NoNaN,
                      NEW p \in Slots, NEW q \in Slots, p < q
               PROVE  \/ CompareTerms(idx[p], idx[q]) = "less"
                      \/ CompareTerms(idx[p], idx[q]) = "equal" /\ idx[p] < idx[q]
    BY DEF SortedStably
  <2> QED
    BY DEF OrderInv, Run, Before, Ordered, Slots
<1> QED
  BY <1>1, AlwaysOrdered, PTL

(* For every array: the merge compares few of the pairs, yet a sort by one *)
(* term succeeds only if every two keys can be ordered, and one that fails *)
(* has two that cannot, with the code of its caller (value.rs              *)
(* compare_order, hof.rs and sort_evaluated_items).                        *)
THEOREM ReportsUnorderable == Spec => []UnorderableReported
<1>1. IInv /\ OrderInv => UnorderableReported
  <2> SUFFICES ASSUME IInv, OrderInv PROVE UnorderableReported
    OBVIOUS
  <2>1. ASSUME phase = "done", Len(terms) = 1 PROVE Orderable(1)
    <3>1. InputOK /\ DOMAIN terms = {1} /\ caller # "lambda"
      BY <2>1, OneTerm DEF OrderInv
    <3> SUFFICES ASSUME NEW a \in Slots, NEW b \in Slots, a # b
                 PROVE  CompareKeys(key[a][1], key[b][1]) \in Orders
      BY DEF Orderable
    <3>2. PICK p \in Slots, q \in Slots : idx[p] = a /\ idx[q] = b
      BY DEF IInv, Permutation
    <3>3. Before(a, b) \/ Before(b, a)
      <4>1. p < q \/ q < p
        BY <3>1, <3>2 DEF InputOK, Slots
      <4> QED
        BY <2>1, <3>1, <3>2, <4>1 DEF OrderInv, Run, Slots
    <3>4. \/ CompareKeys(key[a][1], key[b][1]) \in Orders
          \/ CompareKeys(key[b][1], key[a][1]) \in Orders
      BY <2>1, <3>3 DEF Before, Alike
    <3>5. key[a][1] \in Keys /\ key[b][1] \in Keys
      BY <3>1 DEF InputOK
    <3> QED
      BY <3>4, <3>5, CompareKeysFacts
  <2>2. ASSUME phase = "failed", caller # "lambda"
        PROVE  (\E t \in DOMAIN terms : ~Orderable(t)) /\ (caller = "sort" <=> code = "D3070")
    BY <2>2 DEF OrderInv, FailureExplained
  <2> QED
    BY <2>1, <2>2 DEF UnorderableReported
<1> QED
  BY <1>1, AlwaysOrdered, PTL
=============================================================================

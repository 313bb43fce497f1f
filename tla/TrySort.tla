------------------------------ MODULE TrySort ------------------------------
(***************************************************************************)
(* try_sort_by (try_sort.rs), the stable merge sort behind $sort and the   *)
(* `^(...)' stage, one comparison at a time, with the three comparators    *)
(* that call it: $sort without a comparator, the terms of `^(...)', and a  *)
(* lambda, which may answer anything and need not be an order.             *)
(*                                                                         *)
(* Items are positions 0 .. n-1 of the array; all that is known of one is  *)
(* the key each sort term gives for it, or that the term fails on it.  The *)
(* sort permutes positions.                                                *)
(***************************************************************************)
EXTENDS Naturals, Sequences, FiniteSets

CONSTANTS Keys,   \* the sort keys: [kind, rank]
          Directions, \* of the terms of `^(...)': which are descending?
          MaxItems, \* bound of this model: items
          MaxKeys \* bound of this model: sort keys of all the items together

Numeric == {"number", "nan"}
Kinds == Numeric \cup {"undefined", "string", "other", "failing"}

ASSUME KeysAssumption == /\ Keys \subseteq [kind : Kinds, rank : Nat]
                         /\ Directions \subseteq [{1} -> BOOLEAN] \cup [{1, 2} -> BOOLEAN]
                         /\ MaxItems \in Nat /\ MaxKeys \in Nat

(* The items $sort compares are their own keys. *)
Evaluated == {x \in Keys : x.kind # "failing"}

VARIABLES n,      \* items.len()
          caller, \* "sort" without comparator, "order_by" or "lambda"
          terms,  \* for each sort term, is it descending?
          key,    \* the key of each item under each term
          idx,    \* the permutation at the start of a pass
          buf,    \* the permutation being merged
          width, start, i, j, k,
          phase,
          code    \* the error returned

input == <<n, caller, terms, key>>
cursors == <<i, j, k>>
vars == <<input, idx, buf, width, start, cursors, phase, code>>

Slots == 0 .. n - 1

Least(a, b) == IF a <= b THEN a ELSE b
mid == Least(start + width, n)
end == Least(start + 2 * width, n)

-----------------------------------------------------------------------------
(* Value::compare_order: its order, or the code of its error.  Any number   *)
(* ties with a NaN, two numbers of different sizes although they do not.    *)
CompareOrder(x, y) ==
    CASE "undefined" \in {x.kind, y.kind} ->
             IF x.kind = y.kind THEN "equal"
             ELSE IF x.kind = "undefined" THEN "greater" ELSE "less"
      [] {x.kind, y.kind} \in {{"number"}, {"string"}} ->
             IF x.rank < y.rank THEN "less" ELSE IF x.rank = y.rank THEN "equal" ELSE "greater"
      [] "nan" \in {x.kind, y.kind} /\ {x.kind, y.kind} \subseteq Numeric -> "equal"
      [] "string" \in {x.kind, y.kind} /\ {x.kind, y.kind} \cap Numeric # {} -> "T2007"
      [] OTHER -> "T2008"

(* The keys of two items, each evaluated for the comparison. *)
CompareKeys(x, y) ==
    IF "failing" \in {x.kind, y.kind} THEN "error" ELSE CompareOrder(x, y)

Reversed(o) == CASE o = "less" -> "greater" [] o = "greater" -> "less" [] OTHER -> o

Orders == {"less", "equal", "greater"}

(* compare_sort_terms: the first term that tells the two items apart, or    *)
(* fails on them, decides.                                                  *)
CompareTerms(a, b) ==
    LET by(t) == CompareKeys(key[a][t], key[b][t])
        telling == {t \in DOMAIN terms : by(t) # "equal"}
        first == CHOOSE t \in telling : \A u \in telling : t <= u
    IN  IF telling = {} THEN "equal"
        ELSE IF terms[first] THEN Reversed(by(first)) ELSE by(first)

(* fn_sort's own comparator: whatever cannot be ordered is D3070. *)
DefaultOrder(a, b) ==
    LET o == CompareTerms(a, b) IN IF o \in Orders THEN o ELSE "D3070"

(* What the caller's comparator may answer for items a and b.  A lambda's   *)
(* true is "less", its false "equal", and it may fail.                      *)
Answers(a, b) ==
    CASE caller = "sort" -> {DefaultOrder(a, b)}
      [] caller = "order_by" -> {CompareTerms(a, b)}
      [] caller = "lambda" -> {"less", "equal", "error"}

-----------------------------------------------------------------------------
Identity(m) == [p \in 0 .. m - 1 |-> p]

Init == /\ n \in 0 .. MaxItems
        /\ \/ caller = "sort" /\ terms = <<FALSE>>
           \/ caller = "order_by" /\ terms \in Directions
           \/ caller = "lambda" /\ terms = <<>>
        /\ n * Len(terms) <= MaxKeys
        /\ key \in [Slots -> [DOMAIN terms -> IF caller = "sort" THEN Evaluated ELSE Keys]]
        /\ idx = Identity(n)
        /\ buf = [p \in Slots |-> 0]
        /\ width = 1
        /\ start = 0
        /\ i = 0 /\ k = 0
        /\ j = Least(1, n)
        /\ phase = IF n < 2 THEN "done" ELSE "merging"
        /\ code = "none"

(* The head of the left run goes to buf; ties do. *)
TakeLeft == /\ buf' = [buf EXCEPT ![k] = idx[i]]
            /\ i' = i + 1
            /\ k' = k + 1
            /\ UNCHANGED j

TakeRight == /\ buf' = [buf EXCEPT ![k] = idx[j]]
             /\ j' = j + 1
             /\ k' = k + 1
             /\ UNCHANGED i

(* Defect: an error is latched as a tie, and the sort goes on. *)
MergeOn(answer) ==
    /\ IF answer = "less" THEN TakeRight ELSE TakeLeft
    /\ UNCHANGED <<phase, code>>

(* Defect: ties are taken from the right run. *)
MergeTiesRight(answer) ==
    IF answer \in Orders
    THEN /\ IF answer # "greater" THEN TakeRight ELSE TakeLeft
         /\ UNCHANGED <<phase, code>>
    ELSE phase' = "failed" /\ code' = answer /\ UNCHANGED <<buf, cursors>>

Merge(answer) ==
    IF answer \in Orders
    THEN /\ IF answer = "less" THEN TakeRight ELSE TakeLeft
         /\ UNCHANGED <<phase, code>>
    ELSE phase' = "failed" /\ code' = answer /\ UNCHANGED <<buf, cursors>>

(* One comparison of the heads of the two runs, both non-empty. *)
Compare == /\ phase = "merging"
           /\ i < mid /\ j < end
           /\ \E answer \in Answers(idx[j], idx[i]) : Merge(answer)
           /\ UNCHANGED <<input, idx, width, start>>

(* Defect: only the left run's rest is copied. *)
DrainedLeft == [p \in Slots |-> IF p >= k /\ p < k + (mid - i) THEN idx[i + (p - k)]
                                ELSE buf[p]]

(* What is left of the two runs, one of them empty, copied after k. *)
Drained == [p \in Slots |->
              IF p >= k /\ p < k + (mid - i) THEN idx[i + (p - k)]
              ELSE IF p >= k + (mid - i) /\ p < end THEN idx[j + (p - (k + (mid - i)))]
              ELSE buf[p]]

(* Defect: the right run begins past the end of the array. *)
StartRunsPastEnd(s, w) == /\ start' = s
                          /\ i' = s /\ k' = s
                          /\ j' = s + w

(* The cursors at the head of the two runs at s. *)
StartRuns(s, w) == /\ start' = s
                   /\ i' = s /\ k' = s
                   /\ j' = Least(s + w, n)

(* Two runs are merged and there are more in this pass. *)
NextRuns == /\ phase = "merging"
            /\ ~(i < mid /\ j < end)
            /\ end < n
            /\ buf' = Drained
            /\ StartRuns(end, width)
            /\ UNCHANGED <<input, idx, width, phase, code>>

(* Defect: the widths stay. *)
NextPassSameWidth ==
            /\ phase = "merging"
            /\ ~(i < mid /\ j < end)
            /\ end = n
            /\ idx' = Drained
            /\ buf' = idx
            /\ width' = width
            /\ StartRuns(0, width)
            /\ phase' = IF width < n THEN "merging" ELSE "apply"
            /\ UNCHANGED <<input, code>>

(* The next width: one pass over the array sorts runs of twice the length.  *)
NextPass == /\ phase = "merging"
            /\ ~(i < mid /\ j < end)
            /\ end = n
            /\ idx' = Drained
            /\ buf' = idx
            /\ width' = 2 * width
            /\ StartRuns(0, 2 * width)
            /\ phase' = IF 2 * width < n THEN "merging" ELSE "apply"
            /\ UNCHANGED <<input, code>>

(* The items move to their places; a slot visited twice is a panic. *)
Apply == /\ phase = "apply"
         /\ phase' = IF \A p, q \in Slots : idx[p] = idx[q] => p = q THEN "done" ELSE "panic"
         /\ UNCHANGED <<input, idx, buf, width, start, cursors, code>>

Next == Compare \/ NextRuns \/ NextPass \/ Apply

Spec == Init /\ [][Next]_vars /\ WF_vars(Next)

-----------------------------------------------------------------------------
TypeOK == /\ n \in 0 .. MaxItems
          /\ caller \in {"sort", "order_by", "lambda"}
          /\ idx \in [Slots -> Slots]
          /\ buf \in [Slots -> Slots]
          /\ width \in Nat \ {0}
          /\ start \in 0 .. n
          /\ i \in 0 .. n /\ j \in 0 .. n /\ k \in 0 .. n
          /\ phase \in {"merging", "apply", "done", "failed", "panic"}
          /\ code \in {"none", "D3070", "T2007", "T2008", "error"}

(* Whatever the comparator answers, an order or not, every item is in the   *)
(* result exactly once, and applying the permutation never panics: the      *)
(* unreachable! of try_sort.rs is.                                          *)
PermutationKept == /\ {idx[p] : p \in Slots} = Slots
                   /\ \A p, q \in Slots : idx[p] = idx[q] => p = q
                   /\ phase # "panic"

(* With a NaN among the keys ties are not transitive, and there is no order. *)
NoNaN == \A a \in Slots : \A t \in DOMAIN terms : key[a][t].kind # "nan"

(* A sort by an order that succeeds leaves the items in that order, and     *)
(* items that tie in the order they came in.                                *)
SortedStably ==
    phase = "done" /\ caller # "lambda" /\ NoNaN =>
        \A p, q \in Slots : p < q =>
            \/ CompareTerms(idx[p], idx[q]) = "less"
            \/ CompareTerms(idx[p], idx[q]) = "equal" /\ idx[p] < idx[q]

(* Can the keys of one term all be ordered? *)
Orderable(t) ==
    \A a, b \in Slots : a # b => CompareKeys(key[a][t], key[b][t]) \in Orders

(* Although the sort does not compare all pairs, no pair that cannot be     *)
(* ordered escapes it: with one term it fails exactly when such a pair      *)
(* exists, whatever missing keys and NaNs lie between the two, and $sort's  *)
(* own comparator has one code for it, D3070.  A key that a term fails to   *)
(* give can be ordered with no other.                                       *)
UnorderableReported ==
    /\ phase = "done" /\ Len(terms) = 1 => Orderable(1)
    /\ phase = "failed" /\ caller # "lambda" =>
           /\ \E t \in DOMAIN terms : ~Orderable(t)
           /\ caller = "sort" <=> code = "D3070"

(* Every sort ends, also under a comparator that is not an order. *)
Terminates == <>(phase \in {"done", "failed"})

(* How far a sort is from its end: the passes left at most, and within one  *)
(* the items that are still to be placed.                                   *)
Remaining == CASE phase = "merging" -> 2 + (n - width) * (2 * n + 1) + (2 * n - k - start)
               [] phase = "apply" -> 1
               [] OTHER -> 0

(* Every step of a sort brings it nearer to its end, whatever the           *)
(* comparator answers, so it compares at most n * (2n + 3) times.           *)
Advances == [][Remaining' \in Nat /\ Remaining' < Remaining]_vars
=============================================================================

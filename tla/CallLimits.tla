----------------------------- MODULE CallLimits ------------------------------
(***************************************************************************)
(* What function calls promise: calls nest, each piece of code in progress *)
(* returns to the one that called it, and a limit refuses a call exactly   *)
(* when that many calls of its kind are in progress.  There are no         *)
(* counters here to go up and down, no arenas and no code; CallMachine has *)
(* them, and implements this.                                              *)
(***************************************************************************)
EXTENDS Naturals, Sequences, SequencesExt, FiniteSets

CONSTANTS MaxDepth, \* lambda bodies in progress
          MaxIter,  \* tail calls of one trampoline
          MaxEval   \* $evals in progress

VARIABLES calls,    \* what is in progress, innermost last: [kind, passes]
          outcome,  \* what the innermost returns, or "running"
          cancelled

vars == <<calls, outcome, cancelled>>

InProgress(kind) == Cardinality({i \in DOMAIN calls : calls[i].kind = kind})

(* Why a call of this kind is refused. *)
Refusals(kind) ==
    CASE kind = "body" -> {"T0410"} \cup (IF InProgress("body") = MaxDepth THEN {"U1001"} ELSE {})
      [] kind = "eval" -> {"T0410"} \cup (IF InProgress("eval") = MaxEval THEN {"D3121"}
                                          ELSE {"D3120"})

(* What a caller is given: it goes on with a value, and ends with an error.*)
Given(r) == IF r = "value" THEN "running" ELSE r

Init == /\ calls = <<[kind |-> "expr", passes |-> 0]>>
        /\ outcome = "running"
        /\ cancelled \in BOOLEAN

-----------------------------------------------------------------------------
(* A call begins. *)
Begin(kind) ==
    /\ calls # <<>> /\ outcome = "running"
    /\ kind = "body" => ~cancelled /\ InProgress("body") < MaxDepth
    /\ kind = "eval" => InProgress("eval") < MaxEval
    /\ calls' = Append(calls, [kind |-> kind, passes |-> 0])
    /\ UNCHANGED <<outcome, cancelled>>

(* A call is refused before it begins. *)
Refused(kind) ==
    /\ calls # <<>> /\ outcome = "running"
    /\ outcome' \in (IF cancelled THEN {"D3001"} ELSE {}) \cup
                    (IF kind = "body" /\ cancelled THEN {} ELSE Refusals(kind))
    /\ UNCHANGED <<calls, cancelled>>

(* The innermost piece of code ends; a lambda's body may end in a tail call.*)
End ==
    /\ calls # <<>> /\ outcome = "running"
    /\ outcome' \in {"value", "error"}
           \cup (IF cancelled THEN {"D3001"} ELSE {})
           \cup (IF Last(calls).kind = "body" THEN {"tail"} ELSE {})
    /\ UNCHANGED <<calls, cancelled>>

(* The innermost call returns to its caller; an error inside an $eval is   *)
(* the $eval's, and the expression's outcome stays as the result.          *)
Return ==
    /\ calls # <<>> /\ outcome \notin {"running", "tail"}
    /\ calls' = Front(calls)
    /\ outcome' = CASE Last(calls).kind = "expr" -> outcome
                    [] Last(calls).kind = "eval" -> IF outcome = "value" THEN "running" ELSE "D3121"
                    [] OTHER -> Given(outcome)
    /\ UNCHANGED cancelled

(* A tail call takes the place of the body that made it, *)
Again ==
    /\ calls # <<>> /\ outcome = "tail"
    /\ ~cancelled /\ Last(calls).passes < MaxIter
    /\ calls' = [calls EXCEPT ![Len(calls)].passes = @ + 1]
    /\ outcome' = "running"
    /\ UNCHANGED cancelled

(* or is refused, or has no result, and the body's caller is told.         *)
NotAgain ==
    /\ calls # <<>> /\ outcome = "tail"
    /\ calls' = Front(calls)
    /\ outcome' \in IF Last(calls).passes = MaxIter THEN {"U1001"}
                    ELSE IF cancelled THEN {"D3001"} ELSE {"T0410", "running"}
    /\ UNCHANGED cancelled

Cancel == /\ ~cancelled
          /\ cancelled' = TRUE
          /\ UNCHANGED <<calls, outcome>>

Next == \/ \E kind \in {"body", "native", "eval"} : Begin(kind)
        \/ \E kind \in {"body", "eval"} : Refused(kind)
        \/ End \/ Return \/ Again \/ NotAgain
        \/ Cancel

Spec == Init /\ [][Next]_vars
=============================================================================

------------------------------ MODULE Transforms ------------------------------
(***************************************************************************)
(* The transform |pattern|update,delete| (evaluator/mod.rs), a function    *)
(* from a document to a copy of it in which the objects that the pattern   *)
(* finds are changed.  The code finds them by their identity; here equal   *)
(* objects are one, and the documents have no two.                         *)
(***************************************************************************)
EXTENDS Selection

EvalTransform(n, env) == [transform |-> [node |-> n, env |-> env]]

\* compute_updated_object, validate_transform_clauses: what the two clauses
\* answer for an object, undefined or null being nothing.
Clauses(t, target) ==
    LET values == EvalOperands(Tail(t.node.kids), target, t.env)
        update == values[1]
        delete == IF Len(values) = 2 THEN values[2] ELSE Undefined
        Nothing == {Undefined, Null}
        IsKeys(v) == IsText(v) \/ (IsArray(v) /\ \A i \in DOMAIN v.array : IsText(v.array[i]))
    IN  IF IsError(update) THEN update
        ELSE IF update \notin Nothing /\ ~IsObject(update) THEN Error("T2011")
        ELSE IF IsError(delete) THEN delete
        ELSE IF delete \notin Nothing /\ ~IsKeys(delete) THEN Error("T2012")
        ELSE [added |-> IF update \in Nothing THEN Object(<<>>) ELSE update,
              removed |-> IF delete \in Nothing THEN {}
                          ELSE {key.string : key \in ToSet(Items(delete))}]
\* The update comes first, then the delete.
ComputeUpdatedObject(t, target) ==
    AndThen(Clauses(t, target), LAMBDA c :
        LET all == c.added.object @@ target.object
        IN  Object([k \in DOMAIN all \ c.removed |-> all[k]]))

RECURSIVE ReplaceAllInValue(_, _)
\* A replaced object is not looked into.
ReplaceAllInValue(v, updates) ==
    CASE v \in DOMAIN updates -> updates[v]
      [] IsArray(v) /\ v \notin DOMAIN updates ->
            Array([i \in DOMAIN v.array |-> ReplaceAllInValue(v.array[i], updates)])
      [] IsObject(v) /\ v \notin DOMAIN updates ->
            Object([k \in DOMAIN v.object |-> ReplaceAllInValue(v.object[k], updates)])
      [] OTHER -> v

ApplyTransform(t, doc) ==
    AndThen(EvalOperand(t.node.kids[1], doc, t.env), LAMBDA matched :
        LET targets == SelectSeq(Items(matched), IsObject)
            updated == [i \in DOMAIN targets |-> ComputeUpdatedObject(t, targets[i])]
            UpdateOf(target) == updated[CHOOSE i \in DOMAIN targets : targets[i] = target]
        IN  IF targets = <<>>
            THEN IF matched = Undefined THEN doc
                 ELSE AndThen(Clauses(t, doc), LAMBDA ok : doc)
            ELSE AndThenAll(updated, LAMBDA ok :
                    ReplaceAllInValue(doc, [target \in ToSet(targets) |-> UpdateOf(target)])))

\* transform_document: one argument, an object or an array.
Transform(t, args) ==
    LET doc == IF args = <<>> THEN Null ELSE Collapsed(args[1])
    IN  IF Len(args) # 1 \/ ~(doc = Undefined \/ IsObject(doc) \/ IsArray(doc))
        THEN Error("T0410")
        ELSE IF doc = Undefined THEN Undefined ELSE ApplyTransform(t, doc)
=============================================================================

------------------------------- MODULE Process -------------------------------
(***************************************************************************)
(* The pass between the parser and everything else (parser/process.rs):    *)
(* dot chains become paths, decorated lone steps become paths of one step, *)
(* tail calls are marked, and a misplaced ? or % is refused.  The side     *)
(* table of static flags is the function StaticFlags of the node.          *)
(***************************************************************************)
EXTENDS Parser

RECURSIVE StepHasKeepArray(_)
\* The [] of a step, or of what it filters or sorts.
StepHasKeepArray(n) ==
    CASE n.k \in KeepsArray /\ n.keep -> TRUE
      [] n.k \in {"Binary", "Sort"} -> StepHasKeepArray(n.kids[1])
      [] n.k = "Path" -> n.keep
      [] OTHER -> FALSE

PathNode(steps, keep, group, pos) ==
    [Node("Path", "", steps, pos) EXCEPT !.keep = keep, !.group = group]

\* A lone step that its own evaluator could not honour becomes a path.
WrapDecoratedStep(n) ==
    LET binds == n.focus # <<>> \/ n.index # <<>> IN
    CASE n.k = "Name" /\ (binds \/ (n.keep /\ n.group = <<>>)) ->
            PathNode(<<n>>, n.keep, <<>>, n.pos)
      [] n.k \in {"Wildcard", "Sort"} /\ n.keep -> PathNode(<<n>>, TRUE, <<>>, n.pos)
      [] OTHER -> n

RECURSIVE MarkTailPosition(_)
\* Mutant: the branches of a condition are forgotten.
MarkTailNoBranches(n) ==
    CASE n.k = "Function" /\ n.group = <<>> -> [n EXCEPT !.thunk = TRUE]
      [] n.k = "Block" /\ n.kids # <<>> ->
            [n EXCEPT !.kids[Len(n.kids)] = MarkTailPosition(@)]
      [] OTHER -> n
\* The call whose value the lambda returns as it is.
MarkTailPosition(n) ==
    CASE n.k = "Function" /\ n.group = <<>> -> [n EXCEPT !.thunk = TRUE]
      [] n.k = "Condition" ->
            [n EXCEPT !.kids = [i \in DOMAIN @ |->
                IF i = 1 THEN @[i] ELSE MarkTailPosition(@[i])]]
      [] n.k = "Block" /\ n.kids # <<>> ->
            [n EXCEPT !.kids[Len(n.kids)] = MarkTailPosition(@)]
      [] OTHER -> n

FirstFailure(nodes) == SelectSeq(nodes, Failed)[1]
AnyFailed(nodes) == \E i \in DOMAIN nodes : Failed(nodes[i])

RECURSIVE ProcessNode(_), Undecorated(_), CollectPathSteps(_)

\* Mutant: a string step stays a string.
CollectRawSteps(n) ==
    IF IsBinary(n, ".")
    THEN LET l == CollectPathSteps(n.kids[1])
             r == CollectPathSteps(n.kids[2])
         IN  [steps |-> l.steps \o r.steps, groups |-> n.group \o l.groups \o r.groups]
    ELSE LET p == ProcessNode(n) IN
         [groups |-> <<>>, steps |-> IF p.k = "Path" THEN p.kids ELSE <<p>>]
\* The steps of a dot chain, and the groups its dots carry.
CollectPathSteps(n) ==
    IF IsBinary(n, ".")
    THEN LET l == CollectPathSteps(n.kids[1])
             r == CollectPathSteps(n.kids[2])
         IN  [steps |-> l.steps \o r.steps, groups |-> n.group \o l.groups \o r.groups]
    ELSE LET p == ProcessNode(n) IN
         [groups |-> <<>>,
          steps |-> CASE p.k = "Path" -> p.kids
                      [] p.k = "StringLit" -> <<Node("Name", p.v, <<>>, p.pos)>>
                      [] OTHER -> <<p>>]

ProcessGroup(groups) ==
    [g \in DOMAIN groups |-> [i \in DOMAIN groups[g] |-> ProcessNode(groups[g][i])]]

ProcessDotBinary(n) ==
    LET chain == CollectPathSteps(n)
        group == ProcessGroup(chain.groups)
    IN  CASE AnyFailed(chain.steps) -> FirstFailure(chain.steps)
          [] Len(group) > 1 -> Failure("S0210")
          [] group # <<>> /\ AnyFailed(group[1]) -> FirstFailure(group[1])
          [] OTHER -> PathNode(chain.steps,
                          \E i \in DOMAIN chain.steps : StepHasKeepArray(chain.steps[i]),
                          group, n.pos)

\* process_subscript_lhs and process_sort_operand: not made a path.
KeepsRawOperand(n) ==
    \/ IsBinary(n, "[")
    \/ n.k = "Sort" /\ n.kids[1].k = "Wildcard"

ProcessKids(n) ==
    [i \in DOMAIN n.kids |->
        IF i = 1 /\ KeepsRawOperand(n) THEN Undecorated(n.kids[i]) ELSE ProcessNode(n.kids[i])]
Undecorated(n) ==
    IF IsBinary(n, ".") THEN ProcessDotBinary(n)
    ELSE LET kids == ProcessKids(n)
             group == ProcessGroup(n.group)
             parts == kids \o FlattenSeq(group)
         IN  CASE AnyFailed(parts) -> FirstFailure(parts)
               [] n.k = "Lambda" -> [n EXCEPT !.kids = <<MarkTailPosition(kids[1])>>]
               [] OTHER -> [n EXCEPT !.kids = kids, !.group = group]

ProcessNode(n) ==
    LET p == Undecorated(n) IN IF Failed(p) THEN p ELSE WrapDecoratedStep(p)

-----------------------------------------------------------------------------
(* What the evaluator asks of a subtree *)

RECURSIVE StaticFlags(_)
\* Mutant: the predicate of a subscript shows no binding.
StaticFlagsOperandOnly(n) ==
    LET bound == IF n.k \in BindsStep /\ n.focus \o n.index # <<>>
                 THEN {"index_binding"} ELSE {}
        below == UNION {StaticFlags(c) : c \in ToSet(Children(n))}
        through == IF n.k = "Path"
                   THEN UNION {StaticFlags(n.kids[i]) : i \in DOMAIN n.kids} ELSE {}
    IN  bound \cup (below \ {"index_binding"}) \cup (through \cap {"index_binding"})
StaticFlags(n) ==
    LET Of(i) == StaticFlags(n.kids[i])
        own == CASE n.k = "Parent" -> {"parent_ref"}
                 [] n.k = "Placeholder" -> {"placeholder"}
                 [] n.k = "Variable" /\ n.v \in {"index", "key"} -> {"group_bindings"}
                 [] OTHER -> {}
        bound == IF n.k \in BindsStep /\ n.focus \o n.index # <<>>
                 THEN {"index_binding"} ELSE {}
        below == UNION {StaticFlags(c) : c \in ToSet(Children(n))}
        \* A binding shows through predicates, sorts and paths only.
        through == CASE IsBinary(n, "[") -> Of(1) \cup Of(2)
                     [] n.k = "Sort" -> Of(1)
                     [] n.k = "Path" -> UNION {Of(i) : i \in DOMAIN n.kids}
                     [] OTHER -> {}
    IN  own \cup bound \cup (below \ {"index_binding"})
            \cup (through \cap {"index_binding"})

RECURSIVE HasKeepArray(_)
\* evaluator/binary.rs: whether a subscript keeps its one answer in an array.
HasKeepArray(n) ==
    CASE n.k \in {"Name", "Binary", "Variable", "Function", "Sort", "Negate",
                  "ArrayCons", "ObjCons"} /\ n.keep -> TRUE
      [] n.k \in {"Binary", "Sort"} /\ ~n.keep -> HasKeepArray(n.kids[1])
      [] n.k = "Path" -> n.keep
      [] OTHER -> FALSE

RECURSIVE BodyIsTailCall(_)
\* evaluator/functions.rs: whether a lambda may answer with another call.
BodyIsTailCall(n) ==
    CASE n.k = "Function" -> n.group = <<>>
      [] n.k = "Condition" -> \E i \in 2 .. Len(n.kids) : BodyIsTailCall(n.kids[i])
      [] n.k = "Block" /\ n.kids # <<>> -> BodyIsTailCall(n.kids[Len(n.kids)])
      [] OTHER -> FALSE

-----------------------------------------------------------------------------
(* The two refusals: each walk skips the subtrees without its flag *)

RECURSIVE PlaceholderMisplaced(_, _), ParentMisplaced(_, _)

\* A ? stands for a whole argument of a call and nothing else.
PlaceholderMisplaced(n, argument) ==
    /\ "placeholder" \in StaticFlags(n)
    /\ CASE n.k = "Placeholder" -> ~argument
         [] n.k \in {"Function", "Partial"} ->
               \/ \E i \in DOMAIN n.kids : PlaceholderMisplaced(n.kids[i], i > 1)
               \/ \E p \in ToSet(GroupPairs(n)) : PlaceholderMisplaced(p, FALSE)
         [] OTHER -> \E c \in ToSet(Children(n)) : PlaceholderMisplaced(c, FALSE)

\* Whether the i-th child is evaluated against a value that was navigated to.
Navigates(n, i, navigating) ==
    CASE n.k = "Path" -> navigating \/ i > 1
      [] IsBinary(n, "[") -> navigating \/ i = 2
      [] n.k \in {"Function", "Partial"} -> navigating \/ i = 1
      [] n.k = "Transform" -> TRUE
      [] n.k = "Sort" -> navigating \/ i > 1
      [] OTHER -> navigating
ParentMisplaced(n, navigating) ==
    /\ "parent_ref" \in StaticFlags(n)
    /\ \/ n.k = "Parent" /\ ~navigating
       \/ \E i \in DOMAIN n.kids : ParentMisplaced(n.kids[i], Navigates(n, i, navigating))
       \/ \E p \in ToSet(GroupPairs(n)) : ParentMisplaced(p, TRUE)

\* process_ast
ProcessAst(n) ==
    LET root == ProcessNode(n) IN
    CASE Failed(root) -> root
      [] ~Failed(root) /\ PlaceholderMisplaced(root, FALSE) -> Failure("S0211")
      [] ~Failed(root) /\ ~PlaceholderMisplaced(root, FALSE)
            /\ ParentMisplaced(root, FALSE) -> Failure("S0217")
      [] OTHER -> root

\* The tree that a source is evaluated, formatted and highlighted from.
Compile(src) ==
    LET r == Parse(src) IN IF r.ps.err # "" THEN Failure(r.ps.err) ELSE ProcessAst(r.n)
=============================================================================

-------------------------------- MODULE Query --------------------------------
(***************************************************************************)
(* Expressions as they are asked of documents: an author starts from an    *)
(* opening, keeps replacing a name by a phrase, and every expression on    *)
(* the way is compiled and evaluated on a document.  A dialect is a set of *)
(* openings, phrases and documents that go together.                       *)
(***************************************************************************)
CONSTANTS MaxParseDepth, MaxRangeSize, TextOrder,
          Openings, Phrases, Documents,  \* of each dialect, by its name
          MaxEdits                       \* how many phrases are written, by name

-----------------------------------------------------------------------------
(* The interpreter: its parts, given the evaluator that they are the parts   *)
(* of (evaluator/mod.rs) and the builtins by their names (stdlib/mod.rs).    *)

RECURSIVE Eval(_, _, _), CallBuiltin(_, _, _, _)
INSTANCE Expressions WITH Ev <- Eval, Builtin <- CallBuiltin
Eval(n, input, env) == EvalNode(n, input, env)
CallBuiltin(name, args, focus, env) == CallBuiltinByName(name, args, focus, env)

\* The scope an evaluation starts in: the library, and $$ the input.
StdLib == [vars |-> [name \in LibraryFunctions \cup HigherOrderFunctions |-> [builtin |-> name]],
           up |-> <<>>]
\* The entry from outside: the answer is a value or an error.
Answer(n, input) == Collapsed(Eval(n, input, Bind(Child(StdLib), "$", input)))

-----------------------------------------------------------------------------
VARIABLES src, dialect, doc, edits,
          sent                           \* whether the expression was sent
vars == <<src, dialect, doc, edits, sent>>

\* The name that a phrase may take the place of.
Hole == "a"

Init == /\ dialect \in DOMAIN Openings
        /\ src \in Openings[dialect]
        /\ doc \in Documents[dialect]
        /\ edits = 0
        /\ sent = FALSE

Write == /\ ~sent
         /\ edits < MaxEdits[dialect]
         /\ \E i \in DOMAIN src, phrase \in Phrases[dialect] :
                /\ src[i] = Hole
                /\ src' = SubSeq(src, 1, i - 1) \o phrase \o SubSeq(src, i + 1, Len(src))
         /\ edits' = edits + 1
         /\ UNCHANGED <<dialect, doc, sent>>

\* The expression is sent to be compiled and evaluated.
Send == /\ ~sent
        /\ sent' = TRUE
        /\ UNCHANGED <<src, dialect, doc, edits>>

Next == Write \/ Send
Spec == Init /\ [][Next]_vars

-----------------------------------------------------------------------------
Top == Bind(Child(StdLib), "$", doc)
\* P holds of the tree of the source, if it has one.
OfTree(P(_)) == LET tree == Compile(src) IN Failed(tree) \/ P(tree)
AnswerOf(n) == Answer(n, doc)
\* P holds of the answers to both, unless one of them fails.
UnlessFailed(v, w, P(_, _)) == IsError(v) \/ IsError(w) \/ P(v, w)

RECURSIVE Stored(_), Leaves(_)
\* A value that may be in a container.
Stored(v) ==
    /\ ~IsSequence(v) /\ ~IsError(v) /\ v # Undefined
    /\ IsArray(v) => \A i \in DOMAIN v.array : Stored(v.array[i])
    /\ IsObject(v) => \A k \in DOMAIN v.object : Stored(v.object[k])
\* The items of a value and of the arrays in it, in their order.
Leaves(v) ==
    IF IsArray(v) THEN FlattenSeq([i \in DOMAIN v.array |-> Leaves(v.array[i])]) ELSE Items(v)

\* What is answered is a value: the evaluator's sequences and undefined, which are
\* no values of JSON, stay out of every container (value.rs, Value::Sequence;
\* hof.rs, embed_callback_result).
AnswersAreValues == [][Send => OfTree(LAMBDA tree :
    LET v == AnswerOf(tree) IN IsError(v) \/ v = Undefined \/ Stored(v))]_vars

-----------------------------------------------------------------------------
\* What is computed without a call, or without evaluating a term, is what
\* the call or the term answers, and fails as it fails: with the same code,
\* attributed to the same operator or function (hof_fast.rs; mod.rs,
\* sort_evaluated_items).
LiftsTransparent == [][Send => OfTree(LAMBDA tree :
    AnswerOf(tree) = Collapsed(Eval(tree, doc, Unlifted(Top))))]_vars

-----------------------------------------------------------------------------
\* Undefined is after everything, unless the order is turned around.
KeyBefore(direction, k, l) ==
    LET Less(x, y) == IF Undefined \in {x, y} THEN x # Undefined /\ y = Undefined
                      ELSE CompareOrder(x, y) = Number(-1)
    IN  IF direction = ">" THEN Less(l, k) ELSE Less(k, l)
\* The items in the order of the terms, equal ones as they came.
InOrder(n, tuples) ==
    LET terms == Tail(n.kids)
        Key(t, i) == EvalOperand(terms[t], tuples[i].value, Unlifted(tuples[i].env))
        Differ(t, i, j) == CompareOrder(Key(t, i), Key(t, j)) # Number(0)
        Before(i, j) ==
            \/ \E t \in DOMAIN terms :
                  /\ KeyBefore(n.words[t], Key(t, i), Key(t, j))
                  /\ \A s \in 1 .. t - 1 : ~Differ(s, i, j)
            \/ i < j /\ \A t \in DOMAIN terms : ~Differ(t, i, j)
        order == SortSeq([i \in DOMAIN tuples |-> i], Before)
    IN  [k \in DOMAIN order |-> tuples[order[k]].value]
\* A sorted answer has the items in the order of the first term that tells
\* two of them apart, and in the order they came where none does, the terms
\* with a % being asked of the way to the item (mod.rs, eval_sort).
SortedByTerms == [][Send => OfTree(LAMBDA tree :
    tree.k = "Sort" => LET contexts == SortContexts(tree.kids[1], doc, Top) IN
        UnlessFailed(AnswerOf(tree), contexts, LAMBDA v, s : Items(v) = InOrder(tree, s.tuples)))]_vars

-----------------------------------------------------------------------------
\* The documented rule of a filter, for a predicate that answers alike for
\* all items or is no position for any of them: a number is a position,
\* rounded down and from the end if it is negative, an array of numbers is
\* several, and anything else is true or not of each item.
IsPosition(v) ==
    IsFinite(v) \/ (IsArray(v) /\ v.array # <<>> /\ \A i \in DOMAIN v.array : IsFinite(v.array[i]))
Floor(v) == IF v.number < 0 THEN -((1 - Halves(v)) \div 2) ELSE Halves(v) \div 2
FromStart(v, size) == IF Floor(v) < 0 THEN Floor(v) + size ELSE Floor(v)
PlacesOf(v, size) == [i \in DOMAIN Items(v) |-> FromStart(Items(v)[i], size)]
Ruled(items, tests) ==
    LET Selected(i) == IF IsPosition(tests[i]) THEN i - 1 \in ToSet(PlacesOf(tests[i], Len(items)))
                     ELSE ToBoolean(tests[i]) = Boolean(TRUE)
        kept == SetToSortSeq({i \in DOMAIN items : Selected(i)}, <)
    IN  Collapsed(Sequence([k \in DOMAIN kept |-> items[kept[k]]], FALSE))
\* Positions are not repeated, and the same for all items, or there are none.
Uniform(tests) ==
    \/ \A i \in DOMAIN tests : ~IsPosition(tests[i])
    \/ /\ \A i \in DOMAIN tests : tests[i] = tests[1]
       /\ IsInjective(PlacesOf(tests[1], Len(tests)))
FilteredAs(predicate, from, answer) ==
    LET items == Items(AnswerOf(from))
        tests == [i \in DOMAIN items |-> EvalOperand(predicate, items[i], Top)]
    IN  \/ IsError(answer) \/ IsError(AnswerOf(from)) \/ ~Uniform(tests)
        \/ answer = Ruled(items, tests)
\* The predicates of a value and of the parents of a path select by the same
\* rule (subscript.rs; path.rs, filter_tuple_ctxs).
PredicatesFollowRule == [][Send => OfTree(LAMBDA tree :
    LET last == tree.kids[Len(tree.kids)] IN
    /\ IsBinary(tree, "[") /\ ~HasKeepArray(tree) =>
           FilteredAs(tree.kids[2], tree.kids[1], AnswerOf(tree))
    /\ tree.k = "Path" /\ IsBinary(last, "[") /\ last.kids[1].k = "Parent" =>
           FilteredAs(last.kids[2],
                      [tree EXCEPT !.kids = Append(Front(@), last.kids[1])], AnswerOf(tree)))]_vars

-----------------------------------------------------------------------------
\* The group of an expression: of a path, the one that a step carries.
PathGroup(n) == IF n.k = "Path" THEN n.group \o FlattenSeq([i \in DOMAIN n.kids |-> n.kids[i].group])
                ELSE n.group
Ungrouped(n) == IF n.k = "Path"
                THEN [n EXCEPT !.group = <<>>,
                               !.kids = [i \in DOMAIN @ |-> [@[i] EXCEPT !.group = <<>>]]]
                ELSE [n EXCEPT !.group = <<>>]

RECURSIVE Looped(_, _, _)
\* The steps as loops in loops, each over what its step finds for the values
\* of the loops around it.
Looped(steps, val, env) ==
    LET step == Head(steps)
        filter == IF IsBinary(step, "[") /\ IsJoin(step.kids[1]) THEN <<step.kids[2]>> ELSE <<>>
        name == IF filter = <<>> THEN step ELSE step.kids[1]
        found == Items(Collapsed(Eval(name, val, env)))
        Scope(j) == BindAll(BindAll(Child(env), name.index, Number(j - 1)), name.focus, found[j])
        Passes(j) == filter = <<>>
                     \/ ToBoolean(Eval(filter[1], found[j], Scope(j))) = Boolean(TRUE)
        From(j) == IF ~Passes(j) THEN <<>>
                   ELSE Looped(Tail(steps), IF name.focus # <<>> THEN val ELSE found[j], Scope(j))
    IN  IF steps = <<>> THEN <<val>> ELSE FlattenSeq([j \in DOMAIN found |-> From(j)])
\* A path that binds variables is its steps as nested loops: a join does not
\* move, an index counts from each value anew, and no tuple sees what is bound
\* for another (path.rs, eval_path_tuple).
StreamsAreLoops == [][Send => OfTree(LAMBDA tree :
    /\ tree.k = "Path" /\ HasTupleStep(tree) /\ PathGroup(tree) = <<>> /\ ~tree.keep /\ ~RefersToParent(tree)
    /\ \A i \in DOMAIN tree.kids : tree.kids[i].k \in {"Name", "Variable", "Binary"}
    => UnlessFailed(AnswerOf(tree), Undefined, LAMBDA v, ok :
           v = Collapsed(Sequence(Looped(tree.kids, doc, Top), FALSE))))]_vars

-----------------------------------------------------------------------------
\* The objects that a group would make of each of its members alone.
Singles(n) ==
    LET object == Node("ObjCons", "", PathGroup(n)[1], n.pos)
    IN  IF n.k = "Path" THEN [Ungrouped(n) EXCEPT !.kids = Append(@, object)]
        ELSE Node("Path", "", <<Ungrouped(n), object>>, n.pos)
Constant(s) == \A i \in DOMAIN s : s[i] = s[1]
\* A variable is only ever where a path starts.
StartsPaths(n) ==
    \A m \in Subtree(n) : m.k = "Path" =>
        \A i \in 2 .. Len(m.kids) : \A c \in Subtree(m.kids[i]) : c.k # "Variable"
\* A group has, for each key, what its members with the key answer alone, in
\* their order; a variable with the same value for all of them is that value
\* (group.rs, collect_group_items, merge_group_envs).
GroupsCollectMembers == [][Send => OfTree(LAMBDA tree :
    Len(PathGroup(tree)) = 1 /\ StartsPaths(PathGroup(tree)[1][2]) =>
        UnlessFailed(AnswerOf(tree), AnswerOf(Singles(tree)), LAMBDA v, w :
            LET alone == SelectSeq(Items(w), IsObject)
                all == IF IsObject(v) THEN v ELSE Object(NoVariables)
                Of(object, k) == IF k \in DOMAIN object.object THEN Leaves(object.object[k]) ELSE <<>>
                Each(k) == SelectSeq([i \in DOMAIN alone |-> Of(alone[i], k)], LAMBDA s : s # <<>>)
            IN  \A k \in DOMAIN all.object \cup UNION {DOMAIN o.object : o \in ToSet(alone)} :
                    \/ Of(all, k) = FlattenSeq(Each(k))
                    \/ Each(k) # <<>> /\ Constant(Each(k)) /\ Of(all, k) = Each(k)[1]))]_vars

-----------------------------------------------------------------------------
\* A stage of a chain is a call with the piped value before its arguments
\* (mod.rs, eval_chain).
ChainIsApplication == [][Send => OfTree(LAMBDA tree :
    IsBinary(tree, "~>") /\ tree.kids[2].k = "Function" =>
        LET call == tree.kids[2] IN
        AnswerOf(tree) = AnswerOf([call EXCEPT !.kids = <<@[1], tree.kids[1]>> \o Tail(@)]))]_vars

\* A block binds its # whatever is in it: another pair of parentheses inside
\* changes nothing (path.rs, eval_tuple_step).
BlocksBindIndex == [][Send => OfTree(LAMBDA tree :
    LET Again(n) == [n EXCEPT !.kids = <<Node("Block", "", n.kids, n.pos)>>] IN
    tree.k = "Path" /\ tree.kids[1].k = "Block" /\ tree.kids[1].index # <<>> =>
        AnswerOf(tree) = AnswerOf([tree EXCEPT !.kids[1] = Again(@)]))]_vars
=============================================================================

-------------------------------- MODULE Syntax --------------------------------
(***************************************************************************)
(* Sources as they are written: an author starts from one name and keeps   *)
(* replacing a name by a phrase, or drops a comment between two lexemes.   *)
(* Every source on the way goes through the lexer, the parser, the pass    *)
(* and the formatter.  A dialect is the set of phrases one author uses.    *)
(***************************************************************************)
EXTENDS Formatter

CONSTANTS Dialects,      \* the sets of phrases, by name
          MaxEdits,      \* how many phrases an author writes, by name
          MaxComments    \* how many comments its sources may hold
VARIABLES src, dialect, edits,
          sent           \* whether the source was sent
vars == <<src, dialect, edits, sent>>

\* The name that a phrase may take the place of.
Hole == "a"

Init == /\ src = <<Hole>>
        /\ dialect \in DOMAIN Dialects
        /\ edits = 0
        /\ sent = FALSE

Write == /\ ~sent
         /\ edits < MaxEdits[dialect]
         /\ \E i \in DOMAIN src, phrase \in Dialects[dialect] :
                /\ src[i] = Hole
                /\ src' = SubSeq(src, 1, i - 1) \o phrase \o SubSeq(src, i + 1, Len(src))
         /\ edits' = edits + 1
         /\ UNCHANGED <<dialect, sent>>

\* Not next to a slash, which the lexer would read together with it.
Remark == /\ ~sent
          /\ Len(Comments(src)) < MaxComments[dialect]
          /\ \E i \in 1 .. Len(src) + 1 :
                /\ i > 1 => src[i - 1] # "/"
                /\ i <= Len(src) => src[i] # "/"
                /\ src' = InsertAt(src, i, Comment)
          /\ UNCHANGED <<dialect, edits, sent>>

\* The source is sent to be compiled and formatted.
Send == /\ ~sent
        /\ sent' = TRUE
        /\ UNCHANGED <<src, dialect, edits>>

Next == Write \/ Remark \/ Send
Spec == Init /\ [][Next]_vars

-----------------------------------------------------------------------------
(* The other walks of the same facts, made by the evaluator *)

RECURSIVE NodeHasIndexBinding(_)

\* evaluator/path.rs, for a tree without the side table.
NodeHasIndexBinding(n) ==
    \/ n.k \in {"Name", "Variable", "Binary", "Sort", "Block"}
          /\ (n.index # <<>> \/ n.focus # <<>>)
    \/ IsBinary(n, "[") /\ (\E i \in {1, 2} : NodeHasIndexBinding(n.kids[i]))
    \/ n.k = "Sort" /\ NodeHasIndexBinding(n.kids[1])
    \/ n.k = "Path" /\ (\E i \in DOMAIN n.kids : NodeHasIndexBinding(n.kids[i]))

\* evaluator/path.rs and group.rs: subtree_any.
SubtreeAny(n, flag) ==
    \E m \in Subtree(n) :
        CASE flag = "parent_ref" -> m.k = "Parent"
          [] flag = "placeholder" -> m.k = "Placeholder"
          [] flag = "group_bindings" -> m.k = "Variable" /\ m.v \in {"index", "key"}

-----------------------------------------------------------------------------
\* P holds of the tree of the source, if it has one.
OfTree(P(_)) == LET tree == Compile(src) IN Failed(tree) \/ P(tree)

RECURSIVE OwnCalls(_)
\* The calls of a body, without those of the lambdas written in it.
OwnCalls(n) ==
    IF n.k = "Lambda" THEN {}
    ELSE (IF n.k = "Function" THEN {n} ELSE {})
         \cup UNION {OwnCalls(c) : c \in ToSet(Children(n))}

\* What a tree carries: a decoration is only ever on a kind of node that the
\* formatter writes it for (formatter.rs, the decoration audit of emit).
DecorationsFit ==
    [][Send => OfTree(LAMBDA tree : \A n \in Subtree(tree) :
        /\ n.keep => n.k \in KeepsArray \cup {"Path"}
        /\ n.focus \o n.index # <<>> => n.k \in BindsStep
        /\ n.group # <<>> => n.k \in HoldsGroup \cup {"Path", "Grouped"}
        /\ n.thunk => n.k = "Function" /\ n.group = <<>>
        /\ Len(n.focus) <= 1 /\ Len(n.index) <= 1 /\ Len(n.group) <= 1)]_vars

\* The formatter writes text that compiles to the tree it was given: no
\* parenthesis, group, suffix, binding or dot is lost or moved, although it
\* writes none of the parentheses a precedence would call for (formatter.rs).
FormatKeepsTree ==
    [][Send => OfTree(LAMBDA tree : LET text == Formatted(tree, Comments(src)) IN
        /\ Unwritable \notin ToSet(text)
        /\ Unplaced(Compile(text)) = Unplaced(tree))]_vars

\* Formatting what was formatted changes nothing, and keeps every comment
\* where it is (formatter.rs, the idempotency tests).
FormatIsStable ==
    [][Send => OfTree(LAMBDA tree : LET text == Formatted(tree, Comments(src)) IN
        Format(text) = text)]_vars

\* What the evaluator reads from the side table is what its own walks of the
\* tree would find (process.rs compute_static_flags; path.rs, group.rs).
FlagsMirrorWalks ==
    [][Send => OfTree(LAMBDA tree : \A n \in Subtree(tree) :
        /\ ("index_binding" \in StaticFlags(n)) = NodeHasIndexBinding(n)
        /\ \A flag \in {"parent_ref", "placeholder", "group_bindings"} :
               (flag \in StaticFlags(n)) = SubtreeAny(n, flag))]_vars

\* A lambda is taken to answer with a call exactly when one of the calls of
\* its body is marked to be returned unmade (process.rs, functions.rs).
TailWalksAgree ==
    [][Send => OfTree(LAMBDA tree : \A n \in Subtree(tree) : n.k = "Lambda" =>
        BodyIsTailCall(n.kids[1]) = (\E c \in OwnCalls(n.kids[1]) : c.thunk))]_vars

\* In a tree that compiles, no dot is left, a string is never a step, and a
\* ? stands only for an argument of a partial application: what the
\* evaluator takes for granted (process.rs; evaluator/mod.rs, eval_partial).
OnlyEvaluableNodes ==
    [][Send => OfTree(LAMBDA tree : \A n \in Subtree(tree) :
        /\ ~IsBinary(n, ".")
        /\ n.k = "Path" => \A i \in DOMAIN n.kids : n.kids[i].k \notin {"StringLit", "Path"}
        /\ \A c \in ToSet(Children(n)) : c.k = "Placeholder" =>
               n.k = "Partial" /\ c \in ToSet(Tail(n.kids)))]_vars

\* Of ** the suffix [] is honoured by a subscript chain around it (ast.rs).
SubscriptHonoursSuffix ==
    [][Send => OfTree(LAMBDA tree : \A n \in Subtree(tree) :
        IsBinary(n, "[") /\ n.kids[1].k = "Descendant" /\ n.kids[1].keep
            => HasKeepArray(n))]_vars
=============================================================================

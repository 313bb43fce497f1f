# Verification of the jsntrs evaluator

jsntrs (`src/crates/jsntrs`) is a JSONata 2.x engine in Rust, a port of a Go
implementation: an expression is compiled to an arena of nodes and evaluated
against a JSON value. This directory holds TLA+ models of the parts of it that
keep state between steps or that do the same thing in more than one way, from the
text of an expression to the value it answers with, the TLC
configurations that check them on small instances, and TLAPS proofs of what
holds for instances of every size. Source paths below are relative to
`src/crates/jsntrs/src/`.

- [1. The system](#1-the-system)
- [2. The modules](#2-the-modules)
- [3. The runs, their bounds and what they show](#3-the-runs-their-bounds-and-what-they-show)
- [4. Fairness](#4-fairness)
- [5. What is proved, and how](#5-what-is-proved-and-how)
- [6. Where code and text disagree](#6-where-code-and-text-disagree)
- [7. What is not modelled](#7-what-is-not-modelled)
- [8. Plan](#8-plan)

## 1. The system

### Components, the state they keep and what makes them correct

| Component | State | Operations | Correct when |
|---|---|---|---|
| **Environment chain** `evaluator/environment.rs` | a tree of scopes: `bindings`, `parent`, a per-scope `lookup_cache` with `cache_generation`, a `generation` shared by the tree | `new_child`, `new_eval_child`, `bind`, `lookup` | a lookup returns the nearest binding, whichever scope was rebound since it was memoised |
| **Closure teardown** `evaluator/environment.rs` | `CallCounter.closure_envs` and its sweep threshold, one per evaluation or per shared base | `note_closure_env`, `compact_closure_envs`, `teardown_cycles` | every scope a lambda captured is registered until the end; the list stays bounded; nothing is left allocated; nobody else's scope is emptied |
| **Calls** `evaluator/functions.rs`, `stdlib/eval_fn.rs` | `depth`, `eval_depth`, the tail call iterations, the cancellation flag | `eval_function`, `call_function` (the trampoline), `fn_eval`, callbacks of builtins, `poll_cancelled` | counters return to zero on every path; recursion of every kind ends; a cancellation is noticed and reported |
| **Sorting** `try_sort.rs` | a permutation, a buffer and merge cursors | one comparison; end of two runs; end of a pass; the final move | a stable sort under an order, a permutation under anything; errors are reported |
| **WebAssembly instance** `wasm.rs` | compiled expressions by handle, the next handle, a FIFO cache of texts | `jsntrsEval`, `jsntrsCompile`, `jsntrsEvalHandle`, `jsntrsReleaseHandle` | a live handle keeps its expression although the counter wraps; map and queue of the cache agree |
| **General evaluator** `evaluator/mod.rs`, `path.rs`, `subscript.rs`, `group.rs`, `binary.rs` | none of its own: the environment and the value under evaluation | `eval` and one function per node kind | it is the reference the fast paths are measured by |
| **Fast paths** `fast_path.rs` | the classification made at compile time | `analyze`, `eval_fast`, `eval_fast_with_bindings`, `eval_tape_path` | the answer is the general evaluator's, for every document and from every entry point |
| **Entry points** `expression.rs` | the compiled arena, the thread's cached root environment | `compile`, `evaluate`, `evaluate_value`, `evaluate_bytes`, `evaluate_with_*` | each tries the fast path that fits it, builds an environment, tears it down on success and on error |
| **Batch evaluator** `stream.rs` | a vector of expression slots, custom functions, a metrics hook | `add`, `compile`, `replace`, `remove`, `reset`, `eval_many`, `eval_one` | the expressions of one batch share a base environment and do not see each other's variables |
| **Paths** `evaluator/path.rs` | none; a stream of tuples (a value and a scope) for a path that binds or goes back | a step per kind of node, `expand_path_tuple`, joins `@`, indices `#`, parents `%` | each kind of step binds, filters and forgets alike: a path is its steps as nested loops |
| **Predicates** `evaluator/subscript.rs` | none | `lhs[rhs]` on one value, on several, on parents | a number is a position, several are several, anything else is a test, of whatever is filtered |
| **Groups** `evaluator/group.rs` | buckets by key, merged scopes | `eval_group_by`, `eval_tuple_group` | a group has what its members answer alone, in their order |
| **Operators and nodes** `evaluator/binary.rs`, `mod.rs` | none | one function per operator and per node kind, sorts, transforms, `~>` | the order of evaluation, the error and the token it is attributed to |
| **Signatures** `evaluator/signature.rs` | none | `parse_signature`, `process_call_args` | arguments are coerced, completed from the focus, or rejected with the right code |
| **Higher-order builtins** `stdlib/hof.rs`, `stdlib/hof_fast.rs` | none | `$map`, `$filter`, `$reduce`, `$each`, `$sift`, `$sort`, `$single`; lambdas of a few shapes evaluated without a call | a lifted lambda answers and fails as the call would |
| **Other builtins** `stdlib/*.rs` | none | strings, arrays, objects, numbers, pictures, dates, regular expressions | pure functions, compared with the reference implementation by the tests |
| **Values** `value.rs`, `value/*.rs` | none | collapse of sequences, casts, equality, ordering, parsing, printing | a sequence is unwrapped exactly where JSONata says so |
| **Lexer, parser** `lexer/`, `parser/mod.rs`, `parser/ast.rs` | position, the arena under construction | `Parser::parse` | text to tree, within a depth and a node limit |
| **Post-processing** `parser/process.rs` | the arena | `process_ast`, `mark_tail_calls`, `compute_static_flags` | paths are flattened, `[]` propagated, `%` resolved, only calls in tail position marked |
| **Formatter, highlighter** `formatter.rs`, `highlight.rs` | an output buffer | `format`, `highlight` | what is formatted compiles to the same tree, formatting it again changes nothing, and comments stay where they were |

### How they interact

An entry point compiles text (lexer, parser, post-processing, `analyze`), tries
a fast path and, if that defers, builds an environment under the thread's root
and calls `eval`. `eval` walks the arena; names, paths and operators are pure,
blocks and path steps open child environments, lambdas capture the environment
they stand in and register it with the call counter, calls go through
`call_function`, which loops for tail calls. Builtins call back into
`call_function` (higher-order functions, the comparator of `$sort`) or into a
whole new evaluation (`$eval`, and host functions, which may call any entry
point). At the end the counter's suspects are emptied so that reference cycles
between lambdas and scopes are freed. Everything runs on one thread
(`Rc`, `RefCell`, thread locals); the one thing another thread touches is the
`AtomicBool` of the cancellation.

### What is hard in it

- *Stale caches*: a lookup memoised in one scope is outdated by a bind in
  another, possibly of another evaluation of the thread.
- *Reentrancy*: a host function evaluates while an evaluation is running, on the
  same environment or on another.
- *Reference cycles*: Rust frees nothing that refers to itself; the teardown has
  to find all cycles from a list that sweeps shorten while lambdas still run.
- *Partial failure*: errors leave `call_function`, `$eval`, builtins and sorts
  in the middle, with counters and buffers half updated.
- *Cancellation* at any moment, between two passes of a trampoline or in a loop.
- *Numeric edges*: limits compared after an increment, a last merge run that is
  too short, a handle counter that wraps at 2^32.
- *Several implementations of one thing*: four walks of a path, three of a
  comparison, two of each lifted builtin, each with its own idea of an empty
  array, a singleton and an undefined value.

`PROJECT.json` lists each such hazard at its line, with the properties that
would catch it.

## 2. The modules

| Module | Models | Composes |
|---|---|---|
| `LexicalScope` | the abstract scope chain: nearest binding, no cache | |
| `Environment` | the chain with caches, generation, counters, suspects and nested evaluations | extends `LexicalScope`, implements `LSpec` |
| `ClosureEnvs` | ownership of scopes by reference counting, the suspects list, its sweep and the teardown | |
| `CallLimits` | what calls promise: they nest, and limits count what is in progress | implemented by `CallMachine` |
| `CallMachine` | the trampoline, `$eval`, builtins that call back, both counters, cancellation | |
| `TrySort` | the merge sort under each of its comparators | |
| `WasmInstance` | handles and the expression cache | |
| `HandleTable` | what handles promise: a table of places and a request | implemented by `WasmInstance` |
| `JsonValue` | values, sequences and their collapse | |
| `Evaluator` | the general evaluation of what the fast paths may be tried on | extends `JsonValue` |
| `EntryPoints` | which evaluators each entry point tries, whatever they answer | |
| `FastPath` | classification, the lifted evaluations | extends `Evaluator`, instantiates `EntryPoints` |
| `Lexer`, `Signatures` | lexemes to tokens; the `<...>` of a lambda | |
| `Parser` | the nodes of a tree; the Pratt parser | extends `Lexer`, `Signatures` |
| `Process` | paths, suffixes, tail calls, static flags | extends `Parser` |
| `Formatter` | the layout of a tree as lexemes, with its comments | extends `Process` |
| `Syntax` | authors who write sources, and what holds of every one | extends `Formatter` |
| `Operators` | casts, equality and the operators on values | extends `JsonValue` |
| `Scopes` | the scope of an evaluation, parents and literals | extends `Operators`, `Process` |
| `Selection`, `Transforms`, `Calls`, `Library` | names, `*`, `**` and predicates; `\|...\|`; functions, signatures and `~>`; builtins | each extends the one before |
| `LiftedLambda` | the lambdas and calls evaluated without a call | extends `Library` |
| `Paths`, `Grouping`, `Sorting`, `TupleStream` | steps; `{...}`; `^(...)` and `$sort`; `@`, `#` and `%` | each extends the one before |
| `HigherOrder`, `Expressions` | the builtins with callbacks; a node of each kind | each extends the one before |
| `Query` | `Eval`, with all of the above; authors who ask expressions of documents, and what holds of the answers | instantiates `Expressions` with its own `Eval` |
| `*Proofs` | theorems about the module they are named after | |
| `WalkProofs` | lemmas on the walks of a path, for `FastPathProofs` | extends `FastPath` |
| `MC*` | instances for TLC: symmetry, views, documents, expressions | |

A definition marked `Mutant:`, `Defect:` or `A mutation of` is a plausible bug in the code, stated next to the
definition it would replace. No behaviour of a specification uses one; each
shows that some property would notice the bug (`mutants` in `PROJECT.json`).

### `Environment` and `LexicalScope`

State: `chain[e]` (the `parent` links), `bindings[e]`, `cache[e]` and
`cacheGen[e]` (`lookup_cache`, `cache_generation`), `generation`, `calls[e]`
(which `CallCounter` the scope uses), `suspects[k]` (`closure_envs`), `bases`
(environments the host shares between evaluations), `running` (the scopes of the
evaluations in progress, innermost last). Actions: `NewChild`, `NewBase`
(`new_custom_env`, `eval_many`), `Bind`, `Lookup` with its three branches,
`StartFresh` (`evaluate_value`), `StartShared` (`evaluate_with_env`),
`NoteClosureEnv`, `Finish` (`teardown_cycles`).

`LexicalScope` says what the chain promises: lookup is nearest-binding
resolution. A scope below a torn down one is `dangling` until the next bind, and
nothing is promised of it: `teardown_cycles` drops bindings without a new
generation. Whether an evaluation in progress can ever be in such a scope is a
property (`RunningNotDangling`), not an assumption.

### `ClosureEnvs`

A scope is kept by the evaluator's stack (`frames`), by child scopes and by
function values in bindings (`holds`) or in flight (`hand`). `Surviving` is what
reference counting leaves: the largest set of scopes each of which is referred
to from outside or from the set, so a cycle stays. A function value is a record
of the scopes its calls run in, the scopes its transforms run in, and the scopes
it keeps; lambdas, transforms, partial applications and compositions are the
ways to make one, and only lambdas are noted. A lambda keeps the functions in
the focus it was written at besides its scope (`captured_focus`); `found` is
what of them its body can run: all when it has no parameter and is called
without arguments, else none. The order `compact_closure_envs`
leaves, by address, is any order. Two variables are history, read by properties
only: `born` numbers the scopes in the order they were made, and `risky` records
that a function was bound in a scope older than one it keeps, or in one it keeps
but does not call.

### `CallMachine`

`stack` holds the Rust frames that matter: the expression, lambda bodies,
builtins and `$eval`s. The code being run is any code of a bounded size: at each
point it may call a lambda, a builtin or `$eval`, end, fail, or end in a tail
call. `Apply` is one pass of the loop of `call_function`, in the order of the
source: cancellation, signature, depth, body. `ReturnBody`, `Bounce`,
`ReturnNative`, `ReturnEval`, `ReturnExpr` are the ways back. `Cancel` is the
other thread. A frame carries the arena its code is evaluated with and the arena
its node ids come from.

`CallLimits` is the promise without the counters and the code: a stack of calls
with the passes each has made, the outcome of the innermost, and the
cancellation. A call is refused exactly when as many of its kind are in progress
as the limit allows; a tail call takes its caller's place; an error inside an
`$eval` is the `$eval`'s. The mapping (`ImplementsLimits`) reads the calls off
the stack and forgets the counters.

### `TrySort`

One comparison per step, with the index arrays and cursors of `try_sort_by`.
`caller` is the code that sorts: `$sort` without a function, the terms of
`^(...)`, or `$sort` with a lambda, which may answer anything, inconsistently
even, or fail. Of an item only its keys are known: a number or a string with its
rank, a NaN, a missing key, a value of another kind, or (`failing`) that the term
fails on the item. The items of `$sort` are their own keys and are there already.
`Directions` says which lists of terms `^(...)` may have, of one or two terms.
A NaN, which an input cannot hold but `0/0` gives (`binary.rs:302-306`), ties with
every number (`value.rs:331`), two numbers that do not tie included; so the
keys are in no order, and `SortedStably` is about arrays without one. Everything else
is said of them too.

### `WasmInstance`

Calls are atomic, as in a WebAssembly instance; the search for a free handle is
a loop, and each of its iterations a step. `held` records what clients were
given. A client of the model releases what it holds and nothing else.

`HandleTable` is the promise without the counter: a request is answered with
some empty place, and a place is emptied by its only holder. The mapping
(`ImplementsTable`) reads a place's holders from `held` and forgets the counter,
the loop and the cache, so the steps of the search are stutters and the wrap of
the counter cannot be seen.

### `JsonValue`, `Evaluator`, `FastPath`

Expressions are records with the kind of their node and a postfix (`"keep"` for
`[]`, `"group"` for `{"k": $}`); a call has a second one, for its name. `Eval` is the general evaluator. `FastClass` is
`analyze`; `EvalTapePath`, `EvalFast` and `EvalFastWithBindings` are the three
ways an entry point may avoid `Eval`. The entry points themselves, with their
fallbacks, are the actions of `EntryPoints` (`EvaluateText`, `EvaluateValue`,
`EvaluateBound`, `EvaluateGeneral`), whose evaluators are parameters; `FastPath`
instantiates it with its own.

The documents are the members of a constant `Value`, which holds every value
inside them too, and `Height` says how many levels of values are inside each:
`ValuesAreJson` asks that a container's items and fields are values of a smaller
height, which is all that is known of a document, so they may have any shape and
depth. `ExpressionsAreShallow` describes what the parser may hand to `analyze` in
the classes that are lifted and next to them. TLC evaluates both assumptions on
the documents and expressions of the run. A recursion over a value is a recursive
function on `Value`, and a loop over items a fold, so that theorems can be
proved about them.
What is abstracted: numbers are integers and one infinity, a quotient is kept as
the pair that is divided, the string and number primitives shared by both sides
are uninterpreted, `$shuffle` is opaque, object keys are unordered.

### `Lexer`, `Parser`, `Process`, `Formatter`, `Syntax`

A source is a sequence of lexemes, the runs of characters that no reading splits
further; what the characters decide is kept where a property needs it (a slash
after an operand divides, a dot between two digits belongs to the number). The
parser's fields are a record every operation takes and returns. A node is a
record that holds its children, with the slots of all kinds; the arena is left
out, `CallMachine` has it. `Process` is `process_ast` with its refusals, its
tail marks and the static flags; `Formatter` lays a tree out as lexemes and puts
the comments back. In `Syntax`, an author starts from one name and keeps
replacing a name by a phrase of a *dialect*, or drops a comment between two
lexemes; every source on the way, whether it parses or not, may be sent
to be compiled, formatted and compiled again; the properties are of that step
(`[][Send => ...]_vars`). The properties compare one pass with another: the
formatter with the parser, the side table with the walks it replaces
(`path.rs`, `group.rs`), the tail marks with the test of a tail body.

### `Operators` to `Expressions`, and `Query`

The interpreter follows the files of the evaluator: `Operators` (`binary.rs`,
`value.rs`), `Selection` (`mod.rs`, `subscript.rs`), `Calls` (`functions.rs`,
`signature.rs`), `Paths` and `TupleStream` (`path.rs`), `Grouping` (`group.rs`),
`Sorting` (`mod.rs`, `try_sort.rs`), `HigherOrder` and `LiftedLambda` (`hof.rs`,
`hof_fast.rs`), `Expressions` (`mod.rs`). Each is written over an evaluator
`Ev` that is a parameter of the module, and `Query` ties the knot. A
scope is a record of variables and of the scope around it; an error is a value
with a code and the token it is attributed to, so that "fails alike" is an
equation. What is computed twice in the code is computed twice in the model: a
lambda of a lifted shape is analysed and run by `LiftedLambda`, or called, and
`Unlifted` turns the first off as the tests of the code do.

In `Query`, an author starts from an opening such as `$filter(r,
function($v){a})` and replaces names by phrases; every expression on the way may
be sent, which compiles it by the modules above and evaluates it on a document
of its dialect, and the properties are of that step. The
reference definitions the answers are compared with are in `Query` and share
with the interpreter only the evaluation of the parts: nested loops for a path
that binds, an insertion of positions for a filter, the order of the terms for a
sort, each member alone for a group, the nested application for a chain.

What is abstracted: numbers are whole or end in .5, with one infinity and NaN,
so products are small; the JSON text of a container, changed case and the
digits of `$formatBase` and `$formatNumber` are any texts of their own; object
keys are unordered; equal objects are one object for a transform, and
equal containers one container where a join asks whether two parents are the same
(`value_ptr_eq`; the documents in which parents are asked for hold no two equal
ones, `EqualIsSame`); a `:=` takes
effect in the block it stands in only.

## 3. The runs, their bounds and what they show

| Run | Bounds | Shows |
|---|---|---|
| `environment` | 3 scopes below the root, one name which is also `$`, 2 values, 2 binds | every lookup is the nearest binding (refinement of `LexicalScope`), no cache outlives a bind, the end of an evaluation takes nothing from another |
| `closure_envs` | 3 scopes, sweep threshold 2, one function in flight, one per scope, 2 frames for transforms, one function that keeps or runs anything but the one scope of a lambda (so a captured focus is a lambda without one) | scopes of callable lambdas are registered to the end, the list is bounded, evaluations that bind functions only where nothing they keep is younger leak nothing |
| `call_machine` | depth 2, one tail call, 2 nested `$eval`s, 2 calls per piece of code, one builtin nested by the text | counters, limits, cancellation (refinement of `CallLimits`), termination |
| `sort` | up to 5 items and 6 sort keys (3 items with two terms), 7 keys of 6 kinds, a term in either direction and two that disagree, every lambda | permutation, stability, errors, termination |
| `wasm_instance` | 4 handles and 0, 3 texts, 2 clients, 2 cache entries | handles across a wrap, cache, return of `compile` |
| `fast_path` | paths of up to 3 names, all lifted builtins, documents up to four containers deep | every entry point answers as the general evaluator, and under the caller's bindings |
| `syntax` | five dialects, 2 to 4 phrases deep, 2 comments, parse depth 7 | formatting keeps the tree and is stable; flags, tail marks and decorations agree with every walk that relies on them |
| `query` | ten dialects, 3 or 4 phrases after the opening, ranges of 3, two documents each | the lifts are transparent; predicates, sorts, streams and groups are what their definitions say; no sequence is stored |
| `call_cross_arena` | depth 1 | finding 1 |
| `fast_count` | the documents of `fast_path` | finding 2 |
| `query_chain` | chains of builtins, 3 phrases | finding 3 |
| `query_block` | a block with an index, 3 phrases | finding 4 |

Why the bounds are enough for the interesting cases to happen:

- *environment*: three scopes are a base, an evaluation on it and a child of
  either, or two nested evaluations and a child of one. Two binds are one that
  fills what a cache memoises and one that outdates it; one name suffices because
  caches are per name. TLC's view leaves out `answer`, which no step reads, and
  environments other than the root and values are symmetric.
- *closure_envs*: three scopes are a scope, a block in it and a call; a
  threshold of 2 makes sweeps happen at the second registration and the
  threshold grow.
- *call_machine*: two bodies, two `$eval`s and a builtin between them give every
  pair of adjacent frames; each limit is met and, under a mutant, exceeded.
- *sort*: five items have runs of 1, 2 and 4 with a short last run in each pass;
  lengths that are powers of two and lengths that are not both occur. Two numbers
  and a NaN are the least that tie without an order, and a missing key beside two
  kinds is the least that hides a pair that cannot be ordered.
- *wasm_instance*: with four handles the counter wraps while some are live and
  some free, and the search passes over live ones and over 0.
- *fast_path*: depth four is where two levels of singleton unwrapping meet an
  array in an array.

- *syntax*: two phrases put any construct in any operand of any other; a third
  and a fourth are spent where a decoration meets another (`steps`), where
  numbers, dots and minuses weld (`numbers`) and in lambda bodies. The depth
  limit of the parser is met.
- *query*: the dialects are the ten ways the code has more than one
  implementation of. `tests` and `folds` are lambdas of a lifted shape or nearly
  one, over fields that are missing or of any type; `texts` are templates with a
  `$substring`, whose start and length are cut, negative, past the end or no
  numbers; `calls` are calls as steps
  and in lambdas, with arguments of which something may be prepared; `sorts`,
  `filters`, `parents`, `joins`, `groups` are named for what they ask, over
  rows with ties, rows in rows and arrays in arrays; `values` puts everything
  inside everything. Three phrases reach a predicate on a join, a lifted clause
  of a compound test with a mirrored literal, and a group of a stream.

Deadlock is checked for `wasm_instance`, which serves calls forever. The others
model evaluations, which end, authors, who stop when they have sent a source, or
run out of the bound on binds or scopes.

## 4. Fairness

- `CallMachine`: `WF_vars(Evaluate)`. The evaluating thread goes on running; the
  action is never disabled before the end, so weak fairness is what a running
  thread gives. `Cancel` has no fairness: nobody need cancel.
- `TrySort`: `WF_vars(Next)`, likewise: one thread, one loop.
- `WasmInstance`: `WF_vars(Search)`: a call that has begun goes on. Nothing
  obliges clients to call. `CompileReturns` holds because a call only begins
  while a handle is free, which is the condition the comment at `wasm.rs:114-117`
  states.
- The other modules have no liveness property and no fairness.

## 5. What is proved, and how

All theorems are for every value of the constants that satisfies the `ASSUME`s
of the module: types of the limits, `Unbound` not a value, `Scope` an
environment, and the like.

**`EnvironmentProofs`.** `IInv` is the type invariant, the shape of the tree
(chains, suspects and running scopes exist; no cache comes from the future) and
`CacheCoherent`. The shape is needed because coherence of a scope's cache
depends on its ancestors only, and a new scope must not become one: that is
`InheritedDepends`. `CacheIsCoherent` follows, and `Refinement`
(`Spec => ImplementsLexicalScope`), with one step lemma for the lookup's three
branches. For `NeverDangling` and `TeardownIsLocal`, `OInv` adds who owns what:
a scope stands under scopes of its own counter, a counter suspects its own
scopes only, and two running evaluations never share a counter. The last
conjunct needs the hypothesis `~Reentrant`, which the theorems state and which
cannot be dropped (section 6).

**`ClosureEnvsProofs`.** `IInv` says that references lead to scopes that are
alive, that the suspects are scopes made so far with fewer entries than the
threshold, and that each bound or flying function calls registered scopes. That
what a function calls it also keeps is the strengthening that makes sweeps
harmless: a scope a sweep drops is not alive, so no function calls it.
The functions in the focus a lambda captures are registered before it is
(`LambdaFacts`), whatever they are. `TypeCorrect`, `RegisteredUntilTeardown` and
`ListBounded` follow.

`NeverLeaks` is about the end. `TInv` adds that scopes have different ages, a
parent being older than its child (`Aged`), and that without a risky bind no
binding leads to a younger scope, and one that leads to its own scope is of a
function that calls it (`Outgrown`). Suppose teardown leaves scopes that the
result does not need. The youngest of them is kept by another: not by a child,
which is younger; not by a binding of an older scope, which would lead to a
younger one; so by a binding of its own, of a function that calls it. But then
it was registered, and teardown has emptied it. The argument replaces a search
of the reference graph by one on ages, and it is also how the discipline was
found: see `NoLeak` in section 6.

**`CallMachineProofs`.** `IInv` says that the stack is sound for the values of
the counters: the depth a body stored is its rank among bodies, so setting the
counter back to the stored depth less one is right wherever a return happens.
With it, `TypeCorrect`, `CountersFollowStack`, `RefusalsReported`,
`OverflowsAtLimit` and `CancellationStops`. `LimitsImplemented` is the refinement
`Spec => ImplementsLimits`, one lemma per action. Each counter equals the number
of calls of its kind in the stack, which turns the code's comparison after an
increment into the abstract comparison of what is in progress; `TailOnBody`, that
only a lambda's body asks for a tail call, is the one addition to `IInv`.
Two theorems are the safety half of `Terminates`. `RecursionBounded`: a frame is
the expression's, a body, an `$eval` or a builtin, the first three are counted and
the last nested by the text, so the stack is never deeper than the limits added
up. `AlwaysAdvances`: each step of the evaluating thread either ends the innermost
code or makes the stack smaller in the lexicographic order of what its frames may
still do (`Unspent`: passes left, then calls left), outermost frame first. On
stacks of bounded depth that order has no infinite descent.

**`TrySortProofs`.** `MergeSound` is the invariant of the merge: the cursors lie
in their runs, and `buf` below `k` holds exactly what has been taken of `idx`,
once each. The comparator's answer is arbitrary in the proof, so
`KeepsPermutation` holds for comparators that are no order. `AlwaysAdvances` is
the safety half of `Terminates`: a number that every step lowers (`Remaining`, the
passes left and the items left in this one), so a sort makes at most n(2n + 3)
comparisons, again for any comparator.

The second part is about the sorts with an order: `$sort` without a function, and
`^(...)` with the one or two terms the model gives it. `Before` is
transitive and total on the items although keys may be missing or of kinds that
cannot be compared, because what fails to compare fails with everything of
another kind (`CompareKeysFacts`, `TermsFacts`). It has two parts: the order of a
stable sort, which needs that no key is NaN (`TermsOrder`), and what is left of it
when some are (`Alike`: the keys can be ordered, and missing ones are at their end),
which `ReportsUnorderable` reads. `OrderInv` says that each
aligned run of the pass is in order, that the merged runs are and are twice as
long, and that what has been taken of the two runs at `start` comes before what
has not. Runs are aligned to multiples of the width, so that a last run shorter
than the width and a pass that leaves it alone need no case of their own.
`SortsStably` reads the result off the last pass. `ReportsUnorderable` needs more
than that a failing comparison had a reason: a success means that adjacent items
were comparable, hence all of them, and the converse is `FailureExplained`.

**`WalkProofs` and `FastPathProofs`.** `IInv` says where an answer came from: the
tape, the class's evaluator, or the general one, and under which bindings each may
be asked. From it alone, with nothing known of the evaluators, follow
`BoundNamesWin` (`BindingsWin` of the `fast_path` run) and `EntriesAddNothing`: by
every entry point and under every binding, an expression has the general
evaluator's answer if the fast evaluators agree with the general one wherever
they answer. That a call is only ever lifted by the class that looks at the
bindings is `CallsClassified`, proved of `analyze`. What is left is the agreement
of the evaluators, which is where several walks must flatten and unwrap alike:

- `PathsAlwaysTransparent`. A recursive function on `Value` is what its equation
  says by induction on `Height` (`RecursionExists`), a fold is unrolled item by
  item (`FoldUnrolls`). What a name finds in an array, the arrays inside it
  flattened, is then one function of the list of its items (`EvalNameIs`), and the
  walk on a parsed value is that function name after name (`PathWalk`). On the
  tape the cursors stand for the values they point at, and each step keeps it so
  (`TapePathStepIs`, `TapeWalkIs`). A comparison is two such walks and the equality
  both sides share.
- `FunctionsAlwaysTransparent`. `eval_function` goes down the path item by item
  and the general evaluator level by level, so the two meet in the middle:
  `Levels` is what the last names find in one value, `Lists` what the first
  names find in the document, and taking a level from one to the other changes
  nothing (`LevelsKeep`). A fold that meets no array in an array has visited the
  items of the path's value, each once and in order (`FoldedIs`). Any other fold
  defers, as does one that meets something other than a number, so that the
  aggregate of what was visited is left, with the builtins' three readings of
  nothing (`AggregateFaithful`). A count
  needs that no array lies in an array: then the lists hold none and a list is as
  long as the count says (`CountedIs`, `ListsPlain`). The builtins that are applied
  to a path's value are compared with the call one kind of value at a time
  (`AppliedFaithful`), and the argument of `$f([path])` with that of `$f(path)`
  (`LiftedArgument`).

The one hypothesis, `FoldsSafely`, is in the property the run checks; without
either half of it the property is false (finding 2 and section 6).

**`LexerProofs`.** `ReadsForward`: for every source and every place in it the
next token is that of the first lexeme that is no comment, and what it takes
lies in the source and is not empty, so a parser that asks for tokens gets to the
end. `OnlySlashesDepend`: the parser's one hint, whether an operand stands
before, decides what a slash is and nothing else. They are about the operator
`NextToken` and need no state.

**`WasmInstanceProofs`.** Types, disjoint handles for any width, and agreement
of the cache's map and queue for any capacity, from the queue being free of
repetitions. `TableImplemented` is the refinement `Spec => ImplementsTable`: a
step of `WasmInstance` is a step of `HandleTable` or a stutter. The end of a
search gives a place that is empty in the table because `held` and `exprs`
agree, which is `HandlesKeptApart` made inductive. `SearchEnds` is the safety half of
`CompileReturns`: each candidate passed over brings every free handle one
iteration nearer, across the wrap too, and there is one, so the loop of `compile`
runs at most `Width` times.

Only model-checked:

- Liveness: `Terminates` of `TrySort` and of `CallMachine`, `CompileReturns`. They
  rest on fairness and ENABLED. What every step lowers is proved of each
  (`AlwaysAdvances` twice, `SearchEnds`); what is left to TLC is that a step is
  taken.
- The properties of `Syntax` and `Query`. The parser, the formatter and the
  interpreter call themselves through parameters and in circles, which is written
  with `RECURSIVE` operators, and those the prover cannot expand. For the fast
  paths each recursion is over one value and could be made a function with a
  measure; here there is no such measure short of that of whole programs.

## 6. Where code and text disagree

With a run and a counterexample each:

1. `call_cross_arena`: a lambda of the outer expression called from the text of
   an `$eval` has its body looked up in the arena of the text
   (`functions.rs:503`), which `parser/ast.rs:109` forbids.
2. `fast_count`: `$count(a.b)` on `[{"a":{"b":[[1,2]]}},{"a":5}]` is 1 by the
   fast path and 2 by the general evaluator (`fast_path.rs:561`).
3. `query_chain`: `"s" ~> $uppercase(a)` is answered although `$uppercase("s",
   a)` is T0410 (`mod.rs:618`): a stage of a chain does not check the signature
   of a builtin.
4. `query_block`: `(a.n)#$i.$i` is undefined and `((a.n))#$i.$i` is not
   (`path.rs:466`): a block of one path forgets its own `#` and `@`.

The same modules refute what some other comments promise. No run repeats these;
each is seen by checking the named definition as the invariant (or property) of
the configuration, with the constants changed as said:

- `Environment`, `Reentrant = TRUE`, `RunningKeepsBindings`: an evaluation that
  a host function starts on the environment the running evaluation uses empties
  scopes of the running one (`environment.rs:345`).
- `ClosureEnvs`, `NoLeak`: `($f := ($x := 1; function(){$x}); 2)` leaves a cycle
  through a scope no lambda captured (`environment.rs:352`); so do closures that
  are not lambdas, which `eval_transform` (`mod.rs:1368`), `eval_partial`
  (`functions.rs:382`) and `eval_chain_step` (`mod.rs:685`) do not note. To ask
  that functions are bound at or above the scopes they keep, in the tree, is not
  enough to exclude them: with five scopes, lambdas alone close a cycle through
  two scopes no lambda captured. `DisciplinedNeverLeaks` therefore asks for age,
  not for place in the tree.
- `CallMachine`, `CancelIsD3001`: a cancellation inside `$eval` is reported as
  D3121 (`eval_fn.rs:63`), where `expression.rs:236` promises D3001.
- `FastPath`, `UnwrappedArgumentsAgree`: `$sum([a]{"k": $})` is lifted as
  `$sum(a)` (`fast_path.rs:332`) and forgets the grouping.
- `FastPath`, `GroupedNamesAgree`: in `$sum{"k": $}(a)` the grouping belongs to
  the name, and what is called is an object, a T1006; `try_function` looks at the
  postfixes of the call alone (`fast_path.rs:259`) and the lifted call sums.
- `Syntax`, `SubscriptHonoursSuffix`: `**[][0]` does not keep its array, as the
  list of kinds at `binary.rs:409` has no `**`.

`DisciplinedNeverLeaks` and `FunctionsTransparent` (with its hypotheses on the
argument and the called name) say what does hold beside them.

Met while translating, and modelled as the code has them: the pieces of a
lifted template know `$string`, `$lowercase`, `$uppercase` and `$substring` by
name, whatever is bound to it; a lifted parameter may carry `#` or a group that
is not looked at; the predicates of joins, of blocks in a stream and of compound
joins are cast to a boolean, where the others may be positions
(`path.rs:297`, `576`, `775`); a group over tuples has no D1009; `%[[0,0]]`
selects a parent once, a subscript the item twice; the `[]` of a call in tail
position is not looked at if a lambda is called. The properties of `Query` are
stated so that these are inside their hypotheses only where a text promises
otherwise.

## 7. What is not modelled

- Dates, number words, `$formatInteger`, the digits of `$formatNumber` and
  `$formatBase`, JSON text: string construction over f64 or large ranges, a
  model of which would repeat the code; the tests compare them with the
  reference implementation.
- Regular expressions: a crate matches them. A pattern is a literal text here.
- Of the builtins, those that are pure functions of their arguments and have no
  second implementation (most of `string_funcs.rs`, `array.rs`, `object.rs`).
- Line breaks and indentation of the formatter; the highlighter; the limit on
  the nodes of a parse.
- A `:=` inside a branch, an operand or an argument, and a lambda that refers to
  itself by name: scopes are values in the interpreter. What rebinding does to
  lookups is in `Environment`, and recursion in `CallMachine`.
- f64 rounding, the overflow of products, Unicode: TLC has none of them.
- The slot vector and metrics of `StreamEvaluator`: one assignment per
  operation. What its `eval_many` shares between expressions is in
  `Environment`.
- A handle released twice: nothing tells the second client's handle from the
  first's once the counter has wrapped, so no property can hold of it.
- The wrap of the u64 generation: 2^64 binds on one thread.
- Memory reclaimed by dropping scopes is in `ClosureEnvs` and not in
  `Environment`; the two are separate because the questions asked of them are.
- Benchmarks, examples, fuzz targets, scripts, the playground.

## 8. Plan

Done, in order of importance: `LexicalScope`/`Environment`, `ClosureEnvs`,
`CallMachine` (the state every evaluation depends on), `TrySort`,
`WasmInstance` with `HandleTable`, `JsonValue`/`Evaluator`/`FastPath`, the
syntax from `Lexer` to `Formatter`, and the interpreter with `Query`.

The theorems followed the same order: types and safety invariants of each of
these, then the refinements (`LexicalScope`, `HandleTable`, `CallLimits`), the
stable sort, the teardown, the variants of the loops and of calls, the lexer,
the entry points, and the transparency of the fast paths.

Next:

1. Theorems: the lemmas on positions in `Operators` (`PlaceOf` and `PlacesOf`
   agree), in a module without recursive operators; the refusals
   of `Signatures`.
2. `EntryPoints` composed with `Environment`: that an entry point tears down what
   it built on every way out.
3. `StreamEvaluator`'s slots composed with `Environment`.

---------------------------- MODULE WasmInstance ----------------------------
(***************************************************************************)
(* wasm.rs: the state a WebAssembly instance keeps between calls, which    *)
(* are the compiled expressions behind numeric handles and the cache of    *)
(* jsntrsEval.  The instance has one thread and no call re-enters it, so   *)
(* a call is atomic; but compile's search for a free handle is a loop, and *)
(* its iterations are steps.  jsntrsEvalHandle changes nothing: what it    *)
(* would evaluate is compiled[h].                                          *)
(***************************************************************************)
EXTENDS Naturals, Sequences, FiniteSets, Functions

CONSTANTS Source,    \* texts of expressions that compile
          Client,    \* the scripts that share the instance
          Width,     \* handles are counted modulo Width, which is 2^32
          CacheCap,  \* EXPR_CACHE_CAP
          None       \* no expression

ASSUME WasmAssumption == /\ Width \in Nat /\ Width > 1
                         /\ CacheCap \in Nat \ {0}
                         /\ None \notin Source

Handle == 0 .. Width - 1

VARIABLES compiled,   \* COMPILED: the expression behind each handle
          nextHandle, \* NEXT_HANDLE
          searching,  \* the call of compile in progress: who, and what for
          held,       \* the handles clients were given and have not released
          cache,      \* ExprCache.map: the texts it holds
          order       \* ExprCache.order

handles == <<compiled, nextHandle, searching, held>>
vars == <<handles, cache, order>>

Live == {h \in Handle : compiled[h] # None}

Init == /\ compiled = [h \in Handle |-> None]
        /\ nextHandle = 0
        /\ searching = None
        /\ held = [c \in Client |-> {}]
        /\ cache = {}
        /\ order = <<>>

-----------------------------------------------------------------------------
(* jsntrsCompile: the text compiles, the search for a handle begins.  The   *)
(* comment promises an end "while fewer than u32::MAX handles are live".    *)
Compile(c, s) == /\ searching = None
                 /\ Cardinality(Live) < Width - 1
                 /\ searching' = [client |-> c, source |-> s]
                 /\ UNCHANGED <<compiled, nextHandle, held, cache, order>>

(* Defect: the counter is trusted, whatever is behind the handle. *)
FreeUnlessZero(h) == h # 0

(* Defect: 0 is given out after a wrap. *)
FreeIfDead(h) == compiled[h] = None

Free(h) == h # 0 /\ compiled[h] = None

(* Defect: the counter advances only when the handle it names is free. *)
SearchInPlace ==
          /\ searching # None
          /\ LET h == (nextHandle + 1) % Width
             IN  IF Free(h)
                 THEN /\ nextHandle' = h
                      /\ compiled' = [compiled EXCEPT ![h] = searching.source]
                      /\ held' = [held EXCEPT ![searching.client] =
                                    @ \cup {[handle |-> h, source |-> searching.source]}]
                      /\ searching' = None
                 ELSE UNCHANGED <<compiled, nextHandle, held, searching>>
          /\ UNCHANGED <<cache, order>>

(* One iteration of the loop: the counter wraps, and a handle that is 0 or  *)
(* live is passed over.                                                     *)
Search == /\ searching # None
          /\ LET h == (nextHandle + 1) % Width
             IN  /\ nextHandle' = h
                 /\ IF Free(h)
                    THEN /\ compiled' = [compiled EXCEPT ![h] = searching.source]
                         /\ held' = [held EXCEPT ![searching.client] =
                                       @ \cup {[handle |-> h, source |-> searching.source]}]
                         /\ searching' = None
                    ELSE UNCHANGED <<compiled, held, searching>>
          /\ UNCHANGED <<cache, order>>

(* Defect: the handle is forgotten by its client, the expression stays. *)
ReleaseKeepingExpression(c, t) ==
                 /\ searching = None
                 /\ t \in held[c]
                 /\ held' = [held EXCEPT ![c] = @ \ {t}]
                 /\ UNCHANGED <<compiled, nextHandle, searching, cache, order>>

(* jsntrsReleaseHandle, by a client that holds the handle. *)
Release(c, t) == /\ searching = None
                 /\ t \in held[c]
                 /\ compiled' = [compiled EXCEPT ![t.handle] = None]
                 /\ held' = [held EXCEPT ![c] = @ \ {t}]
                 /\ UNCHANGED <<nextHandle, searching, cache, order>>

(* Defect: the oldest text leaves the queue and stays in the map. *)
InsertEvictingOrder(s) ==
    LET full == Cardinality(cache) >= CacheCap /\ order # <<>>
        queue == IF full THEN Tail(order) ELSE order
    IN  /\ cache' = cache \cup {s}
        /\ order' = IF s \in cache THEN queue ELSE Append(queue, s)

(* ExprCache::insert. *)
Insert(s) ==
    LET full == Cardinality(cache) >= CacheCap /\ order # <<>>
        kept == IF full THEN cache \ {Head(order)} ELSE cache
        queue == IF full THEN Tail(order) ELSE order
    IN  /\ cache' = kept \cup {s}
        /\ order' = IF s \in kept THEN queue ELSE Append(queue, s)

(* jsntrsEval of a text that is not cached and compiles: it enters the      *)
(* cache whether or not its evaluation fails.                               *)
Eval(s) == /\ searching = None
           /\ s \notin cache
           /\ Insert(s)
           /\ UNCHANGED handles

Next == \/ \E c \in Client, s \in Source : Compile(c, s)
        \/ Search
        \/ \E c \in Client : \E t \in held[c] : Release(c, t)
        \/ \E s \in Source : Eval(s)

(* A call that runs goes on running. *)
Spec == Init /\ [][Next]_vars /\ WF_vars(Search)

-----------------------------------------------------------------------------
Ticket == [handle : Handle \ {0}, source : Source]

(* Handles are numbers other than 0. *)
TypeOK == /\ compiled \in [Handle -> Source \cup {None}]
          /\ nextHandle \in Handle
          /\ searching \in [client : Client, source : Source] \cup {None}
          /\ held \in [Client -> SUBSET Ticket]
          /\ cache \subseteq Source
          /\ order \in Seq(Source)

(* However often the counter has wrapped, a handle a client has not         *)
(* released evaluates the expression it was given for, and nobody else      *)
(* holds that handle.                                                       *)
HandlesKeptApart ==
    \A c, d \in Client : \A t \in held[c], u \in held[d] :
        /\ compiled[t.handle] = t.source
        /\ t.handle = u.handle => c = d /\ t = u

(* The cache stays within its capacity, and its map and its queue hold the  *)
(* same texts, each once: what is evicted is always the oldest.             *)
CacheAgrees == /\ Cardinality(cache) <= CacheCap
               /\ Len(order) = Cardinality(cache)
               /\ Range(order) = cache

(* jsntrsCompile returns, although the counter may have to pass over every  *)
(* live handle, while one handle is free.                                   *)
CompileReturns == searching # None ~> searching = None

(* How many iterations the search is from trying handle h: Width at most. *)
Ahead(h) == IF h > nextHandle THEN h - nextHandle ELSE h + Width - nextHandle

(* Passing over a candidate never wastes an iteration: some handle is free, *)
(* and each free one is nearer after it, also when the counter wraps, so    *)
(* compile's loop runs at most Width times.                                 *)
SearchNears ==
    [][searching # None /\ searching' # None =>
          /\ \E h \in Handle : Free(h)
          /\ \A h \in Handle : Free(h) => Ahead(h) > 1 /\ Ahead(h)' = Ahead(h) - 1]_vars

(* The clients that hold a handle. *)
Holders(h) == {c \in Client : \E t \in held[c] : t.handle = h}

Table == INSTANCE HandleTable WITH
            Handle <- Handle \ {0},
            table <- [h \in Handle \ {0} |->
                         [source |-> compiled[h], holders |-> Holders(h)]],
            asking <- searching

(* The instance is a table of handles: behind its counter, the wraps and    *)
(* the passed over candidates, every request gets an empty handle of its    *)
(* own, a release empties exactly the handle released, and no evaluation    *)
(* in between touches any.                                                  *)
ImplementsTable == Table!Spec
=============================================================================

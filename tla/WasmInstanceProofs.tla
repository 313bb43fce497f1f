------------------------- MODULE WasmInstanceProofs -------------------------
(* Proofs about module WasmInstance, for every width of the counter, every  *)
(* capacity of the cache and any number of clients.                         *)
EXTENDS WasmInstance, FiniteSetTheorems, TLAPS

Distinct(q) == \A a, b \in DOMAIN q : q[a] = q[b] => a = b

CacheSound == CacheAgrees /\ Distinct(order) /\ IsFiniteSet(cache)

(* The inductive invariant. *)
IInv == /\ TypeOK
        /\ HandlesKeptApart
        /\ CacheSound

LEMMA InitSound == Init => IInv
<1> SUFFICES ASSUME Init PROVE IInv
  OBVIOUS
<1>1. TypeOK
  BY WasmAssumption DEF Init, TypeOK, Handle
<1>2. HandlesKeptApart
  BY DEF Init, HandlesKeptApart
<1>3. CacheSound
  BY WasmAssumption, FS_EmptySet DEF Init, CacheSound, CacheAgrees, Distinct, Range
<1> QED
  BY <1>1, <1>2, <1>3 DEF IInv

(* A handle is given out when it is 0 or live to nobody. *)
LEMMA SearchSound == IInv /\ Search => IInv'
<1> SUFFICES ASSUME IInv, Search PROVE IInv'
  OBVIOUS
<1> DEFINE h == (nextHandle + 1) % Width
<1>1. h \in Handle
  BY WasmAssumption DEF IInv, TypeOK, Handle
<1>2. CacheSound'
  BY DEF IInv, Search, CacheSound, CacheAgrees, Range, Distinct
<1>3. searching.source \in Source /\ searching.client \in Client
  BY DEF IInv, TypeOK, Search
<1>4. CASE Free(h)
  <2> DEFINE t == [handle |-> h, source |-> searching.source]
             c == searching.client
  <2>1. /\ compiled' = [compiled EXCEPT ![h] = searching.source]
        /\ held' = [held EXCEPT ![c] = @ \cup {t}]
        /\ nextHandle' = h /\ searching' = None /\ cache' = cache /\ order' = order
    BY <1>4 DEF Search
  <2>2. h # 0 /\ compiled[h] = None /\ t \in Ticket
    BY <1>1, <1>3, <1>4 DEF Free, Ticket
  <2>3. TypeOK'
    BY <1>1, <1>3, <2>1, <2>2 DEF IInv, TypeOK
  <2>4. \A d \in Client : \A u \in held[d] :
           u.handle # h /\ u.handle \in Handle /\ compiled[u.handle] = u.source
    BY <2>2, WasmAssumption DEF IInv, HandlesKeptApart, TypeOK, Ticket
  <2>5. \A d \in Client : \A u \in held'[d] : u \in held[d] \/ (d = c /\ u = t)
    BY <1>3, <2>1 DEF IInv, TypeOK
  <2>6. compiled'[h] = searching.source
        /\ \A g \in Handle : g # h => compiled'[g] = compiled[g]
    BY <1>1, <2>1 DEF IInv, TypeOK
  <2>7. t.handle = h /\ t.source = searching.source
    OBVIOUS
  <2> HIDE DEF t, c, h
  <2>8. \A d, e \in Client : \A u \in held[d], v \in held[e] :
           u.handle = v.handle => d = e /\ u = v
    BY DEF IInv, HandlesKeptApart
  <2>9. HandlesKeptApart'
    <3> SUFFICES ASSUME NEW d \in Client, NEW e \in Client,
                        NEW u \in held'[d], NEW v \in held'[e]
                 PROVE  /\ compiled'[u.handle] = u.source
                        /\ u.handle = v.handle => d = e /\ u = v
      BY DEF HandlesKeptApart
    <3>1. compiled'[u.handle] = u.source
      BY <2>4, <2>5, <2>6, <2>7
    <3>2. u.handle = v.handle => d = e /\ u = v
      BY <2>4, <2>5, <2>7, <2>8
    <3> QED
      BY <3>1, <3>2
  <2> QED
    BY <1>2, <2>3, <2>9 DEF IInv
<1>5. CASE ~Free(h)
  <2>1. /\ compiled' = compiled /\ held' = held /\ nextHandle' = h
        /\ searching' = searching /\ cache' = cache /\ order' = order
    BY <1>5 DEF Search
  <2> QED
    BY <1>1, <1>2, <2>1 DEF IInv, TypeOK, HandlesKeptApart
<1> QED
  BY <1>4, <1>5

LEMMA ReleaseSound ==
    ASSUME IInv, NEW c \in Client, NEW t \in held[c], Release(c, t)
    PROVE  IInv'
<1>1. /\ compiled' = [compiled EXCEPT ![t.handle] = None]
      /\ held' = [held EXCEPT ![c] = @ \ {t}]
      /\ nextHandle' = nextHandle /\ searching' = searching
      /\ cache' = cache /\ order' = order
  BY DEF Release
<1>2. t.handle \in Handle
  BY DEF IInv, TypeOK, Ticket
<1>3. TypeOK'
  BY <1>1 DEF IInv, TypeOK
<1>4. HandlesKeptApart'
  <2> SUFFICES ASSUME NEW d \in Client, NEW e \in Client,
                      NEW u \in held'[d], NEW v \in held'[e]
               PROVE  /\ compiled'[u.handle] = u.source
                      /\ u.handle = v.handle => d = e /\ u = v
    BY DEF HandlesKeptApart
  <2>1. u \in held[d] /\ v \in held[e] /\ (d = c => u # t)
    BY <1>1 DEF IInv, TypeOK
  <2>2. u.handle # t.handle
    BY <2>1 DEF IInv, HandlesKeptApart
  <2>3. compiled'[u.handle] = compiled[u.handle]
    BY <1>1, <2>2 DEF IInv, TypeOK
  <2> QED
    BY <2>1, <2>3 DEF IInv, HandlesKeptApart
<1>5. CacheSound'
  BY <1>1 DEF IInv, CacheSound, CacheAgrees, Range, Distinct
<1> QED
  BY <1>3, <1>4, <1>5 DEF IInv

(* The oldest text leaves the queue and the map together. *)
LEMMA EvictOldest ==
    ASSUME CacheSound, TypeOK, order # <<>>
    PROVE  /\ Tail(order) \in Seq(Source)
           /\ Range(Tail(order)) = cache \ {Head(order)}
           /\ Distinct(Tail(order))
           /\ IsFiniteSet(cache \ {Head(order)})
           /\ Cardinality(cache \ {Head(order)}) = Cardinality(cache) - 1
           /\ Len(Tail(order)) = Len(order) - 1
<1>1. /\ order \in Seq(Source) /\ Len(order) \in Nat /\ Len(order) > 0
      /\ DOMAIN order = 1 .. Len(order)
  BY DEF TypeOK
<1>2. /\ Tail(order) \in Seq(Source) /\ Len(Tail(order)) = Len(order) - 1
      /\ DOMAIN Tail(order) = 1 .. Len(order) - 1
      /\ \A p \in 1 .. Len(order) - 1 : Tail(order)[p] = order[p + 1]
  BY <1>1
<1>3. Head(order) = order[1] /\ Head(order) \in cache
  BY <1>1 DEF CacheSound, CacheAgrees, Range
<1>4. Distinct(Tail(order))
  BY <1>1, <1>2 DEF CacheSound, Distinct
<1>5. Range(Tail(order)) = cache \ {Head(order)}
  <2>1. \A p \in 1 .. Len(order) - 1 : Tail(order)[p] \in cache \ {Head(order)}
    BY <1>1, <1>2, <1>3 DEF CacheSound, CacheAgrees, Distinct, Range
  <2>2. ASSUME NEW s \in cache \ {Head(order)}
        PROVE  \E p \in 1 .. Len(order) - 1 : Tail(order)[p] = s
    <3>1. PICK q \in 1 .. Len(order) : order[q] = s
      BY <1>1 DEF CacheSound, CacheAgrees, Range
    <3>2. q # 1
      BY <3>1, <1>3
    <3>3. q - 1 \in 1 .. Len(order) - 1 /\ (q - 1) + 1 = q
      BY <1>1, <3>1, <3>2
    <3> QED
      BY <1>2, <3>1, <3>3
  <2> QED
    BY <1>2, <2>1, <2>2 DEF Range
<1>6. /\ IsFiniteSet(cache \ {Head(order)})
      /\ Cardinality(cache \ {Head(order)}) = Cardinality(cache) - 1
  BY <1>3, FS_RemoveElement DEF CacheSound
<1> QED
  BY <1>2, <1>4, <1>5, <1>6

(* A text that is not in the map enters both. *)
LEMMA AddNewest ==
    ASSUME NEW S \in SUBSET Source, NEW q \in Seq(Source), IsFiniteSet(S),
           Range(q) = S, Distinct(q), NEW s \in Source, s \notin S
    PROVE  /\ Append(q, s) \in Seq(Source)
           /\ Range(Append(q, s)) = S \cup {s}
           /\ Distinct(Append(q, s))
           /\ IsFiniteSet(S \cup {s})
           /\ Cardinality(S \cup {s}) = Cardinality(S) + 1
           /\ Len(Append(q, s)) = Len(q) + 1
<1>1. /\ Append(q, s) \in Seq(Source) /\ Len(q) \in Nat
      /\ Len(Append(q, s)) = Len(q) + 1
      /\ DOMAIN q = 1 .. Len(q)
      /\ DOMAIN Append(q, s) = 1 .. Len(q) + 1
      /\ \A p \in 1 .. Len(q) : Append(q, s)[p] = q[p]
      /\ Append(q, s)[Len(q) + 1] = s
  OBVIOUS
<1>2. \A p \in 1 .. Len(q) : q[p] \in S
  BY <1>1 DEF Range
<1>3. \A p \in 1 .. Len(q) + 1 : p \in 1 .. Len(q) \/ p = Len(q) + 1
  BY <1>1
<1>4. Distinct(Append(q, s))
  BY <1>1, <1>2, <1>3 DEF Distinct
<1>5. Range(Append(q, s)) = S \cup {s}
  <2>1. \A p \in 1 .. Len(q) + 1 : Append(q, s)[p] \in S \cup {s}
    BY <1>1, <1>2, <1>3
  <2>2. \A u \in S \cup {s} : \E p \in 1 .. Len(q) + 1 : Append(q, s)[p] = u
    BY <1>1 DEF Range
  <2> QED
    BY <1>1, <2>1, <2>2 DEF Range
<1>6. IsFiniteSet(S \cup {s}) /\ Cardinality(S \cup {s}) = Cardinality(S) + 1
  BY FS_AddElement
<1> QED
  BY <1>1, <1>4, <1>5, <1>6

LEMMA EvalSound ==
    ASSUME IInv, NEW s \in Source, Eval(s)
    PROVE  IInv'
<1> DEFINE full == Cardinality(cache) >= CacheCap /\ order # <<>>
           kept == IF full THEN cache \ {Head(order)} ELSE cache
           queue == IF full THEN Tail(order) ELSE order
<1>1. /\ UNCHANGED handles /\ s \notin cache /\ s \notin kept
      /\ cache' = kept \cup {s} /\ order' = Append(queue, s)
  BY DEF Eval, Insert
<1>2. /\ TypeOK /\ CacheSound /\ Cardinality(cache) \in Nat /\ CacheCap \in Nat \ {0}
      /\ order \in Seq(Source) /\ cache \subseteq Source
  BY WasmAssumption, FS_CardinalityType DEF IInv, CacheSound, TypeOK
<1>3. /\ queue \in Seq(Source) /\ kept \subseteq Source /\ IsFiniteSet(kept)
      /\ Range(queue) = kept /\ Distinct(queue)
      /\ Len(queue) = Cardinality(kept) /\ Cardinality(kept) < CacheCap
  <2>1. CASE full
    <3>1. kept = cache \ {Head(order)} /\ queue = Tail(order)
      BY <2>1
    <3> QED
      BY <1>2, <2>1, <3>1, EvictOldest DEF CacheSound, CacheAgrees
  <2>2. CASE ~full
    <3>1. kept = cache /\ queue = order
      BY <2>2
    <3>2. Cardinality(cache) < CacheCap
      <4>1. CASE order = <<>>
        BY <1>2, <4>1 DEF CacheSound, CacheAgrees
      <4>2. CASE order # <<>>
        BY <1>2, <2>2, <4>2
      <4> QED
        BY <4>1, <4>2
    <3> QED
      BY <1>2, <3>1, <3>2 DEF CacheSound, CacheAgrees
  <2> QED
    BY <2>1, <2>2
<1> HIDE DEF full, kept, queue
<1>4. Cardinality(kept) \in Nat
  BY <1>3, FS_CardinalityType
<1>5. /\ order' \in Seq(Source) /\ cache' \subseteq Source
      /\ Range(order') = cache' /\ Distinct(order') /\ IsFiniteSet(cache')
      /\ Cardinality(cache') = Cardinality(kept) + 1 /\ Len(order') = Len(queue) + 1
  BY <1>1, <1>3, AddNewest
<1>6. CacheSound'
  BY <1>2, <1>3, <1>4, <1>5 DEF CacheSound, CacheAgrees
<1>7. TypeOK'
  BY <1>1, <1>2, <1>5 DEF TypeOK, handles
<1>8. HandlesKeptApart'
  BY <1>1 DEF IInv, HandlesKeptApart, handles
<1> QED
  BY <1>6, <1>7, <1>8 DEF IInv

LEMMA StepSound == IInv /\ [Next]_vars => IInv'
<1> SUFFICES ASSUME IInv, [Next]_vars PROVE IInv'
  OBVIOUS
<1>1. CASE UNCHANGED vars
  BY <1>1 DEF IInv, vars, handles, TypeOK, HandlesKeptApart, CacheSound, CacheAgrees
<1>2. ASSUME NEW c \in Client, NEW s \in Source, Compile(c, s)
      PROVE  IInv'
  BY <1>2 DEF IInv, Compile, TypeOK, HandlesKeptApart, CacheSound, CacheAgrees
<1>3. CASE Search
  BY <1>3, SearchSound
<1>4. ASSUME NEW c \in Client, NEW t \in held[c], Release(c, t)
      PROVE  IInv'
  BY <1>4, ReleaseSound
<1>5. ASSUME NEW s \in Source, Eval(s)
      PROVE  IInv'
  BY <1>5, EvalSound
<1> QED
  BY <1>1, <1>2, <1>3, <1>4, <1>5 DEF Next

LEMMA AlwaysSound == Spec => []IInv
<1> QED
  BY InitSound, StepSound, PTL DEF Spec

-----------------------------------------------------------------------------
(* The instance's tables keep their types; 0 is never a handle.             *)
THEOREM TypeCorrect == Spec => []TypeOK
<1>1. IInv => TypeOK
  BY DEF IInv
<1> QED
  BY <1>1, AlwaysSound, PTL

(* For every width of the counter, whenever it wraps and whatever is live   *)
(* then, compile gives no two clients one handle and replaces no live       *)
(* expression.                                                              *)
THEOREM HandlesApart == Spec => []HandlesKeptApart
<1>1. IInv => HandlesKeptApart
  BY DEF IInv
<1> QED
  BY <1>1, AlwaysSound, PTL

(* For every capacity the cache stays within it, and eviction keeps its map *)
(* and its queue in agreement.                                              *)
THEOREM CacheInAgreement == Spec => []CacheAgrees
<1>1. IInv => CacheAgrees
  BY DEF IInv, CacheSound
<1> QED
  BY <1>1, AlwaysSound, PTL
-----------------------------------------------------------------------------
(* The refinement of HandleTable. *)

LEMMA InitRefines == Init => Table!Init
  BY WasmAssumption DEF Init, Table!Init, Table!Empty, Holders, Handle

(* A handle without an expression is an empty place of the table. *)
LEMMA EmptyPlace ==
    ASSUME IInv, NEW h \in Handle, compiled[h] = None
    PROVE  Holders(h) = {}
  BY WasmAssumption DEF IInv, TypeOK, HandlesKeptApart, Ticket, Holders

(* While fewer than Width - 1 handles are live, one is empty. *)
LEMMA SomeEmpty ==
    ASSUME IInv, Cardinality(Live) < Width - 1
    PROVE  \E h \in Handle \ {0} : compiled[h] = None
<1> SUFFICES ASSUME \A h \in Handle \ {0} : compiled[h] # None PROVE FALSE
  OBVIOUS
<1>1. Handle \ {0} = 1 .. Width - 1
  BY WasmAssumption DEF Handle
<1>2. IsFiniteSet(Handle \ {0}) /\ Cardinality(Handle \ {0}) = Width - 1
  <2>1. Width - 1 \in Int /\ 1 \in Int /\ 1 <= Width - 1 /\ (Width - 1) - 1 + 1 = Width - 1
    BY WasmAssumption
  <2>2. /\ IsFiniteSet(1 .. Width - 1)
        /\ Cardinality(1 .. Width - 1)
              = IF 1 > Width - 1 THEN 0 ELSE (Width - 1) - 1 + 1
    BY <2>1, FS_Interval
  <2>3. Cardinality(1 .. Width - 1) = Width - 1
    <3>1. ~(1 > Width - 1)
      BY <2>1
    <3>2. Cardinality(1 .. Width - 1) = (Width - 1) - 1 + 1
      BY <2>2, <3>1
    <3> QED
      BY <2>1, <3>2
  <2> QED
    BY <1>1, <2>2, <2>3
<1>3. IsFiniteSet(Handle)
  BY WasmAssumption, FS_Interval DEF Handle
<1>4. Handle \ {0} \subseteq Live /\ Live \subseteq Handle
  BY DEF Live
<1>5. IsFiniteSet(Live)
  BY <1>3, <1>4, FS_Subset
<1>6. Cardinality(Handle \ {0}) <= Cardinality(Live)
  BY <1>4, <1>5, FS_Subset
<1>7. Cardinality(Live) \in Nat
  BY <1>5, FS_CardinalityType
<1> QED
  BY <1>2, <1>6, <1>7, WasmAssumption

LEMMA CompileRefines ==
    ASSUME IInv, NEW c \in Client, NEW s \in Source, Compile(c, s)
    PROVE  Table!Ask(c, s)
<1>1. PICK h \in Handle \ {0} : compiled[h] = None
  BY SomeEmpty DEF Compile
<1>2. Holders(h) = {}
  BY <1>1, EmptyPlace
<1> QED
  BY <1>1, <1>2 DEF Compile, Table!Ask, Table!Empty, Holders

LEMMA SearchRefines ==
    ASSUME IInv, Search
    PROVE  Table!Give \/ UNCHANGED Table!vars
<1>1. PICK h \in Handle : h = (nextHandle + 1) % Width
  BY WasmAssumption DEF IInv, TypeOK, Handle
<1>2. PICK c \in Client, s \in Source : searching = [client |-> c, source |-> s]
  BY DEF IInv, TypeOK, Search
<1>3. CASE Free(h)
  <2> DEFINE t == [handle |-> h, source |-> s]
  <2>1. /\ compiled' = [compiled EXCEPT ![h] = s]
        /\ held' = [held EXCEPT ![c] = @ \cup {t}]
        /\ searching # None /\ searching' = None
    BY <1>1, <1>2, <1>3 DEF Search
  <2>2. h \in Handle \ {0} /\ compiled[h] = None /\ Holders(h) = {}
    BY <1>1, <1>3, EmptyPlace DEF Free
  <2>3. held'[c] = held[c] \cup {t} /\ \A d \in Client : d # c => held'[d] = held[d]
    BY <2>1 DEF IInv, TypeOK
  <2>4. t.handle = h
    OBVIOUS
  <2> HIDE DEF t
  <2>5. Holders(h)' = {c}
    BY <2>2, <2>3, <2>4 DEF Holders
  <2>6. ASSUME NEW g \in Handle \ {0}, g # h
        PROVE  Holders(g)' = Holders(g) /\ compiled'[g] = compiled[g]
    BY <2>1, <2>3, <2>4, <2>6 DEF Holders, IInv, TypeOK
  <2>7. compiled'[h] = s
    BY <2>1 DEF IInv, TypeOK
  <2>8. searching.source = s /\ searching.client = c
    BY <1>2
  <2> QED
    BY <2>1, <2>2, <2>5, <2>6, <2>7, <2>8 DEF Table!Give, Table!Empty
<1>4. CASE ~Free(h)
  <2>1. compiled' = compiled /\ held' = held /\ searching' = searching
    BY <1>1, <1>4 DEF Search
  <2> QED
    BY <2>1 DEF Table!vars, Holders
<1> QED
  BY <1>3, <1>4

LEMMA ReleaseRefines ==
    ASSUME IInv, NEW c \in Client, NEW t \in held[c], Release(c, t)
    PROVE  \E h \in Handle \ {0} : Table!Release(c, h)
<1> DEFINE h == t.handle
<1>1. /\ compiled' = [compiled EXCEPT ![h] = None]
      /\ held' = [held EXCEPT ![c] = @ \ {t}]
      /\ searching = None /\ searching' = searching
  BY DEF Release
<1>2. h \in Handle \ {0}
  BY DEF IInv, TypeOK, Ticket
<1>3. \A d \in Client : \A u \in held[d] : u.handle = h => d = c /\ u = t
  BY DEF IInv, HandlesKeptApart
<1>4. Holders(h) = {c} /\ Holders(h)' = {}
  BY <1>1, <1>3 DEF Holders, IInv, TypeOK
<1>5. \A g \in Handle \ {0} : g # h =>
         Holders(g)' = Holders(g) /\ compiled'[g] = compiled[g]
  BY <1>1 DEF Holders, IInv, TypeOK
<1>6. compiled'[h] = None
  BY <1>1, <1>2 DEF IInv, TypeOK
<1> HIDE DEF h
<1>7. Table!Release(c, h)
  BY <1>1, <1>2, <1>4, <1>5, <1>6 DEF Table!Release, Table!Empty
<1> QED
  BY <1>2, <1>7

LEMMA StepRefines == IInv /\ [Next]_vars => [Table!Next]_(Table!vars)
<1> SUFFICES ASSUME IInv, [Next]_vars PROVE Table!Next \/ UNCHANGED Table!vars
  OBVIOUS
<1>1. CASE UNCHANGED vars
  BY <1>1 DEF vars, handles, Table!vars, Holders
<1>2. ASSUME NEW c \in Client, NEW s \in Source, Compile(c, s)
      PROVE  Table!Next
  BY <1>2, CompileRefines DEF Table!Next
<1>3. CASE Search
  BY <1>3, SearchRefines DEF Table!Next
<1>4. ASSUME NEW c \in Client, NEW t \in held[c], Release(c, t)
      PROVE  Table!Next
  BY <1>4, ReleaseRefines DEF Table!Next
<1>5. ASSUME NEW s \in Source, Eval(s)
      PROVE  UNCHANGED Table!vars
  BY <1>5 DEF Eval, handles, Table!vars, Holders
<1> QED
  BY <1>1, <1>2, <1>3, <1>4, <1>5 DEF Next

(* Whatever the width of the counter, compile, release_handle and eval do    *)
(* to the handles what the abstract table does: the loop, the wraps and the  *)
(* cache are invisible to the clients.                                       *)
THEOREM TableImplemented == Spec => ImplementsTable
<1> QED
  BY InitRefines, StepRefines, AlwaysSound, PTL DEF Spec, ImplementsTable, Table!Spec

-----------------------------------------------------------------------------
(* The loop of compile *)

(* A search has something to find. *)
Findable == searching # None => \E h \in Handle : Free(h)

LEMMA FindableKept == IInv /\ Findable /\ [Next]_vars => Findable'
<1> SUFFICES ASSUME IInv, Findable, [Next]_vars, searching' # None
             PROVE  \E h \in Handle : Free(h)'
  BY DEF Findable
<1>1. ASSUME NEW c \in Client, NEW s \in Source, Compile(c, s)
      PROVE  \E h \in Handle : Free(h)'
  <2>1. PICK h \in Handle \ {0} : compiled[h] = None
    BY <1>1, SomeEmpty DEF Compile
  <2> QED
    BY <1>1, <2>1 DEF Compile, Free
<1>2. CASE Search
  <2>1. searching # None /\ compiled' = compiled
    BY <1>2 DEF Search
  <2> QED
    BY <2>1 DEF Findable, Free
<1>3. ASSUME NEW c \in Client, NEW t \in held[c], Release(c, t) PROVE FALSE
  BY <1>3 DEF Release
<1>4. ASSUME NEW s \in Source, Eval(s) PROVE FALSE
  BY <1>4 DEF Eval, handles
<1>5. CASE UNCHANGED vars
  BY <1>5 DEF vars, handles, Findable, Free
<1> QED
  BY <1>1, <1>2, <1>3, <1>4, <1>5 DEF Next

(* The counter after the last handle is 0. *)
LEMMA Wraps ==
    ASSUME NEW h \in Handle
    PROVE  (h + 1) % Width = IF h + 1 = Width THEN 0 ELSE h + 1
<1>1. CASE h + 1 = Width
  BY <1>1, WasmAssumption DEF Handle
<1>2. CASE h + 1 # Width
  <2>1. h + 1 \in 0 .. Width - 1
    BY <1>2, WasmAssumption DEF Handle
  <2> QED
    BY <1>2, <2>1, WasmAssumption
<1> QED
  BY <1>1, <1>2

LEMMA PassOver ==
    ASSUME IInv, Findable, Next, searching # None, searching' # None
    PROVE  /\ \E h \in Handle : Free(h)
           /\ \A h \in Handle : Free(h) => Ahead(h) > 1 /\ Ahead(h)' = Ahead(h) - 1
<1>1. Search
  BY DEF Next, Compile, Release, Eval
<1> DEFINE g == (nextHandle + 1) % Width
<1>2. nextHandle' = g /\ ~Free(g)
  BY <1>1 DEF Search
<1>3. nextHandle \in Handle /\ g = IF nextHandle + 1 = Width THEN 0 ELSE nextHandle + 1
  BY Wraps DEF IInv, TypeOK
<1>4. ASSUME NEW h \in Handle, Free(h)
      PROVE  Ahead(h) > 1 /\ Ahead(h)' = Ahead(h) - 1
  <2>1. h # g /\ h # 0
    BY <1>2, <1>4 DEF Free
  <2> HIDE DEF g
  <2> QED
    BY <1>2, <1>3, <2>1, WasmAssumption DEF Ahead, Handle
<1> QED
  BY <1>4 DEF Findable

(* For every width, the loop of compile ends within Width iterations: each  *)
(* brings every free handle one nearer, and there is one.                   *)
THEOREM SearchEnds == Spec => SearchNears
<1>1. Init => Findable
  BY DEF Init, Findable
<1>2. IInv /\ Findable /\ [Next]_vars => Findable'
  BY FindableKept
<1>3. IInv /\ Findable /\ [Next]_vars =>
        [searching # None /\ searching' # None =>
            /\ \E h \in Handle : Free(h)
            /\ \A h \in Handle : Free(h) => Ahead(h) > 1 /\ Ahead(h)' = Ahead(h) - 1]_vars
  BY PassOver
<1> QED
  BY <1>1, <1>2, <1>3, AlwaysSound, PTL DEF Spec, SearchNears
=============================================================================

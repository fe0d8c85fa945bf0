---------------------------- MODULE ModulesProofs ---------------------------
(***************************************************************************)
(* Proofs about the vectors of vec.c and the table of modules kept in one. *)
(***************************************************************************)
EXTENDS Modules, SeqLemmas

\* A vector's length never exceeds the capacity it believes to have.
Fits(v) == Len(v.data) <= v.capacity

\* Asking for n cells leaves the elements and sets the capacity, granted or not.
LEMMA ResizeFits ==
    ASSUME NEW S, NEW v \in Vectors(S), NEW n \in Nat, NEW ok \in BOOLEAN
    PROVE  /\ Resize(v, n, ok) \in Vectors(S)
           /\ Resize(v, n, ok).data = v.data
           /\ Resize(v, n, ok).capacity = n
           /\ Resize(v, n, ok).block = IF ok THEN n ELSE v.block
BY DEF Resize, Vectors

\* vec_expand leaves room for one more element, as far as the vector knows, and
\* keeps a block of the believed size if the allocator gave it.
LEMMA ExpandMakesRoom ==
    ASSUME NEW S, NEW v \in Vectors(S), NEW ok \in BOOLEAN, Fits(v)
    PROVE  /\ vec_expand(v, ok) \in Vectors(S)
           /\ vec_expand(v, ok).data = v.data
           /\ Len(v.data) + 1 <= vec_expand(v, ok).capacity
           /\ ok /\ v.capacity <= v.block =>
                vec_expand(v, ok).capacity <= vec_expand(v, ok).block
<1> DEFINE n == IF v.capacity = 0 THEN MinCapacity ELSE 2 * v.capacity
<1>1. v.capacity \in Nat /\ v.block \in Nat /\ v.data \in Seq(S) /\ Len(v.data) \in Nat
  BY DEF Vectors
<1>2. n \in Nat /\ n > v.capacity
  BY <1>1, MinCapacityAssumption
<1>3. CASE Len(v.data) + 1 <= v.capacity
  BY <1>3 DEF vec_expand
<1>4. CASE ~(Len(v.data) + 1 <= v.capacity)
  <2>1. vec_expand(v, ok) = Resize(v, n, ok)
    BY <1>4 DEF vec_expand
  <2>2. Len(v.data) + 1 <= n
    BY <1>1, <1>2 DEF Fits
  <2> HIDE DEF n
  <2>3. /\ Resize(v, n, ok) \in Vectors(S)
        /\ Resize(v, n, ok).data = v.data
        /\ Resize(v, n, ok).capacity = n
        /\ Resize(v, n, ok).block = IF ok THEN n ELSE v.block
    BY <1>2, ResizeFits
  <2> QED BY <2>1, <2>2, <2>3, <1>2
<1> QED BY <1>3, <1>4

\* vec_push makes room first, so one more element fits the capacity.
LEMMA PushFits ==
    ASSUME NEW S, NEW v \in Vectors(S), NEW x \in S, NEW ok \in BOOLEAN, Fits(v)
    PROVE  /\ vec_push(v, x, ok) \in Vectors(S)
           /\ vec_push(v, x, ok).data = Append(v.data, x)
           /\ Fits(vec_push(v, x, ok))
           /\ ok /\ Honest(v) => Honest(vec_push(v, x, ok))
<1> DEFINE w == vec_expand(v, ok)
<1>1. /\ w \in Vectors(S) /\ w.data = v.data /\ Len(v.data) + 1 <= w.capacity
      /\ ok /\ v.capacity <= v.block => w.capacity <= w.block
  BY ExpandMakesRoom
<1> HIDE DEF w
<1>2. v.data \in Seq(S) /\ Append(v.data, x) \in Seq(S) /\ Len(Append(v.data, x)) = Len(v.data) + 1
  BY DEF Vectors
<1>3. vec_push(v, x, ok) = [w EXCEPT !.data = Append(@, x)]
  BY DEF vec_push, w
<1>4. /\ vec_push(v, x, ok) \in Vectors(S)
      /\ vec_push(v, x, ok).data = Append(v.data, x)
      /\ vec_push(v, x, ok).capacity = w.capacity
      /\ vec_push(v, x, ok).block = w.block
  BY <1>1, <1>2, <1>3 DEF Vectors
<1> QED BY <1>1, <1>2, <1>4 DEF Fits, Honest

\* vec_splice of a position of the table takes one element out.
LEMMA SpliceFits ==
    ASSUME NEW S, NEW v \in Vectors(S), NEW start \in Nat, start < Len(v.data), Fits(v)
    PROVE  /\ vec_splice(v, start, 1) \in Vectors(S)
           /\ Len(vec_splice(v, start, 1).data) = Len(v.data) - 1
           /\ Fits(vec_splice(v, start, 1))
           /\ Honest(v) => Honest(vec_splice(v, start, 1))
<1> DEFINE a == SubSeq(v.data, 1, start)
           b == SubSeq(v.data, start + 1 + 1, Len(v.data))
<1>1. v.data \in Seq(S) /\ Len(v.data) \in Nat /\ v.capacity \in Nat /\ v.block \in Nat
  BY DEF Vectors
<1>2. a \in Seq(S) /\ Len(a) = start
  BY <1>1
<1>3. b \in Seq(S) /\ Len(b) = Len(v.data) - start - 1
  BY <1>1
<1> HIDE DEF a, b
<1>4. a \o b \in Seq(S) /\ Len(a \o b) = Len(v.data) - 1
  BY <1>2, <1>3, <1>1
<1>5. vec_splice(v, start, 1) = [v EXCEPT !.data = a \o b]
  BY <1>1 DEF vec_splice, a, b
<1>6. /\ vec_splice(v, start, 1) \in Vectors(S)
      /\ vec_splice(v, start, 1).data = a \o b
      /\ vec_splice(v, start, 1).capacity = v.capacity
      /\ vec_splice(v, start, 1).block = v.block
  BY <1>4, <1>5 DEF Vectors
<1>7. Len(vec_splice(v, start, 1).data) = Len(v.data) - 1
  BY <1>4, <1>6
<1>8. Len(v.data) - 1 <= v.capacity
  BY <1>1 DEF Fits
<1> QED BY <1>6, <1>7, <1>8 DEF Fits, Honest

\* The operations that move or drop elements and do not ask for memory.
LEMMA ShrinkFits ==
    ASSUME NEW S, NEW v \in Vectors(S), NEW d \in Seq(S), Len(d) <= Len(v.data), Honest(v)
    PROVE  /\ [v EXCEPT !.data = d] \in Vectors(S)
           /\ Honest([v EXCEPT !.data = d])
<1>1. v.data \in Seq(S) /\ Len(v.data) \in Nat /\ Len(d) \in Nat /\ v.capacity \in Nat /\ v.block \in Nat
  BY DEF Vectors
<1>2. /\ [v EXCEPT !.data = d] \in Vectors(S)
      /\ [v EXCEPT !.data = d].data = d
      /\ [v EXCEPT !.data = d].capacity = v.capacity
      /\ [v EXCEPT !.data = d].block = v.block
  BY DEF Vectors
<1>3. Len(d) <= v.capacity /\ v.capacity <= v.block
  BY <1>1 DEF Honest
<1> QED BY <1>2, <1>3 DEF Honest

\* The operations that ask for one more cell and get it.
LEMMA GrowFits ==
    ASSUME NEW S, NEW v \in Vectors(S), NEW d \in Seq(S), Len(d) <= Len(v.data) + 1, Honest(v),
           NEW u, u = [vec_expand(v, TRUE) EXCEPT !.data = d]
    PROVE  u \in Vectors(S) /\ Honest(u)
<1> DEFINE w == vec_expand(v, TRUE)
<1>1. v.data \in Seq(S) /\ Len(v.data) \in Nat /\ Len(d) \in Nat /\ v.capacity \in Nat /\ v.block \in Nat
  BY DEF Vectors
<1>2. Fits(v) /\ v.capacity <= v.block
  BY DEF Fits, Honest
<1>3. /\ w \in Vectors(S) /\ Len(v.data) + 1 <= w.capacity /\ w.capacity <= w.block
  BY <1>2, ExpandMakesRoom
<1> HIDE DEF w
<1>4. /\ [w EXCEPT !.data = d] \in Vectors(S)
      /\ [w EXCEPT !.data = d].data = d
      /\ [w EXCEPT !.data = d].capacity = w.capacity
      /\ [w EXCEPT !.data = d].block = w.block
  BY <1>3 DEF Vectors
<1>5. w.capacity \in Nat /\ w.block \in Nat
  BY <1>3 DEF Vectors
<1>6. Len(d) <= w.capacity
  BY <1>1, <1>3, <1>5
<1>7. Honest([w EXCEPT !.data = d])
  BY <1>3, <1>4, <1>6 DEF Honest
<1> QED BY <1>4, <1>7 DEF w

\* Concatenation adds lengths.
LEMMA ConcatLength ==
    ASSUME NEW S, NEW s \in Seq(S), NEW t \in Seq(S)
    PROVE  s \o t \in Seq(S) /\ Len(s \o t) = Len(s) + Len(t)
OBVIOUS

\* Asking for n cells, and getting them.
LEMMA ResizeHonest ==
    ASSUME NEW S, NEW v \in Vectors(S), NEW n \in Nat, Len(v.data) <= n
    PROVE  Resize(v, n, TRUE) \in Vectors(S) /\ Honest(Resize(v, n, TRUE))
<1>1. /\ Resize(v, n, TRUE) \in Vectors(S)
      /\ Resize(v, n, TRUE).data = v.data
      /\ Resize(v, n, TRUE).capacity = n
      /\ Resize(v, n, TRUE).block = n
  BY ResizeFits
<1>2. n <= n
  OBVIOUS
<1> QED BY <1>1, <1>2 DEF Honest

\* As long as no allocation is refused, every operation of vec.h takes a vector
\* whose elements are within a capacity that was really allocated to such a
\* vector again: vec_insert and vec_swap, which need one cell more than there
\* are elements, vec_compact, which leaves none to spare, and vec_reserve, which
\* may be asked for less than there is.
THEOREM VectorsStayHonest ==
    ASSUME NEW S, NEW v \in Vectors(S), Honest(v), NEW x \in S, NEW n \in Nat
    PROVE  /\ vec_push(v, x, TRUE) \in Vectors(S) /\ Honest(vec_push(v, x, TRUE))
           /\ vec_reserve(v, n, TRUE) \in Vectors(S) /\ Honest(vec_reserve(v, n, TRUE))
           /\ vec_compact(v, TRUE) \in Vectors(S) /\ Honest(vec_compact(v, TRUE))
           /\ vec_truncate(v, n) \in Vectors(S) /\ Honest(vec_truncate(v, n))
           /\ vec_clear(v) \in Vectors(S) /\ Honest(vec_clear(v))
           /\ v.data # <<>> => vec_pop(v) \in Vectors(S) /\ Honest(vec_pop(v))
           /\ \A i \in 0..Len(v.data) :
                /\ vec_insert(v, i, x, TRUE, FALSE, x) \in Vectors(S)
                /\ Honest(vec_insert(v, i, x, TRUE, FALSE, x))
           /\ \A i, j \in 0..Len(v.data) - 1 :
                /\ vec_swap(v, i, j, TRUE, FALSE) \in Vectors(S)
                /\ Honest(vec_swap(v, i, j, TRUE, FALSE))
           /\ vec_reverse(v, TRUE, FALSE) \in Vectors(S) /\ Honest(vec_reverse(v, TRUE, FALSE))
<1> DEFINE len == Len(v.data)
<1>1. v.data \in Seq(S) /\ len \in Nat /\ v.capacity \in Nat /\ v.block \in Nat
  BY DEF Vectors
<1>2. Fits(v) /\ v.capacity <= v.block
  BY DEF Fits, Honest
<1>3. <<>> \in Seq(S) /\ Len(<<>>) = 0
  OBVIOUS
<1>a. vec_expand(v, TRUE).data = v.data /\ vec_expand(v, TRUE) \in Vectors(S)
  BY <1>2, ExpandMakesRoom
<1>4. vec_push(v, x, TRUE) \in Vectors(S) /\ Honest(vec_push(v, x, TRUE))
  BY <1>2, PushFits
<1>5. vec_reserve(v, n, TRUE) \in Vectors(S) /\ Honest(vec_reserve(v, n, TRUE))
  <2>1. CASE n > v.capacity
    <3>1. len <= n
      BY <1>1, <1>2, <2>1 DEF Fits
    <3> QED BY <2>1, <3>1, ResizeHonest DEF vec_reserve
  <2>2. CASE ~(n > v.capacity)
    BY <2>2 DEF vec_reserve
  <2> QED BY <2>1, <2>2
<1>6. vec_compact(v, TRUE) \in Vectors(S) /\ Honest(vec_compact(v, TRUE))
  <2>1. CASE v.data = <<>>
    BY <2>1, <1>3 DEF vec_compact, vec_init, Vectors, Honest
  <2>2. CASE v.data # <<>>
    <3>1. len <= len
      BY <1>1
    <3> QED BY <2>2, <3>1, <1>1, ResizeHonest DEF vec_compact
  <2> QED BY <2>1, <2>2
<1>7. vec_truncate(v, n) \in Vectors(S) /\ Honest(vec_truncate(v, n))
  <2> DEFINE d == IF n < len THEN SubSeq(v.data, 1, n) ELSE v.data
  <2>1. d \in Seq(S) /\ Len(d) <= len
    BY <1>1
  <2>2. vec_truncate(v, n) = [v EXCEPT !.data = d]
    BY DEF vec_truncate, Vectors
  <2> HIDE DEF d
  <2> QED BY <2>1, <2>2, ShrinkFits
<1>8. vec_clear(v) \in Vectors(S) /\ Honest(vec_clear(v))
  <2>1. Len(<<>>) <= len
    BY <1>1, <1>3
  <2> QED BY <1>3, <2>1, ShrinkFits DEF vec_clear
<1>9. ASSUME v.data # <<>> PROVE vec_pop(v) \in Vectors(S) /\ Honest(vec_pop(v))
  <2> DEFINE d == SubSeq(v.data, 1, len - 1)
  <2>1. d \in Seq(S) /\ Len(d) <= len
    BY <1>1, <1>9
  <2>2. vec_pop(v) = [v EXCEPT !.data = d]
    BY DEF vec_pop, Vectors
  <2> HIDE DEF d
  <2> QED BY <2>1, <2>2, ShrinkFits
<1>10. ASSUME NEW i \in 0..len
       PROVE  /\ vec_insert(v, i, x, TRUE, FALSE, x) \in Vectors(S)
              /\ Honest(vec_insert(v, i, x, TRUE, FALSE, x))
  <2> DEFINE a == SubSeq(v.data, 1, i)
             b == SubSeq(v.data, i + 1, len)
             e == a \o <<x>>
             d == e \o b
  <2>1. a \in Seq(S) /\ Len(a) = i
    BY <1>1
  <2>2. b \in Seq(S) /\ Len(b) = len - i
    BY <1>1
  <2>3. <<x>> \in Seq(S) /\ Len(<<x>>) = 1
    OBVIOUS
  <2>4. vec_insert(v, i, x, TRUE, FALSE, x) = [vec_expand(v, TRUE) EXCEPT !.data = d]
    BY <1>a DEF vec_insert, Refused, Vectors
  <2> HIDE DEF a, b
  <2>5. e \in Seq(S) /\ Len(e) = i + 1
    BY <2>1, <2>3
  <2> HIDE DEF e
  <2>6. d \in Seq(S) /\ Len(d) = Len(e) + Len(b)
    BY <2>2, <2>5, ConcatLength
  <2>7. Len(d) <= len + 1
    <3> HIDE DEF d, len
    <3>1. i + 1 + (len - i) <= len + 1 /\ i \in Int /\ len \in Int
      BY <1>1
    <3> QED BY <2>2, <2>5, <2>6, <3>1
  <2> HIDE DEF d
  <2> QED BY <2>4, <2>6, <2>7, GrowFits
<1>11. ASSUME NEW i \in 0..len - 1, NEW j \in 0..len - 1
       PROVE  /\ vec_swap(v, i, j, TRUE, FALSE) \in Vectors(S)
              /\ Honest(vec_swap(v, i, j, TRUE, FALSE))
  <2> DEFINE d == [v.data EXCEPT ![i + 1] = v.data[j + 1], ![j + 1] = v.data[i + 1]]
  <2>1. d \in Seq(S) /\ Len(d) = len
    BY <1>1
  <2>2. vec_swap(v, i, j, TRUE, FALSE) = [vec_expand(v, TRUE) EXCEPT !.data = d]
    BY <1>a DEF vec_swap, Refused, Vectors
  <2> HIDE DEF d
  <2>3. Len(d) <= len + 1
    BY <1>1, <2>1
  <2> QED BY <2>1, <2>2, <2>3, GrowFits
<1>12. vec_reverse(v, TRUE, FALSE) \in Vectors(S) /\ Honest(vec_reverse(v, TRUE, FALSE))
  <2>1. CASE len < 2
    BY <2>1 DEF vec_reverse
  <2>2. CASE ~(len < 2)
    <3> DEFINE d == [k \in DOMAIN v.data |-> v.data[len + 1 - k]]
    <3>1. d \in Seq(S) /\ Len(d) = len
      <4>1. DOMAIN v.data = 1..len
        BY <1>1
      <4>2. \A k \in 1..len : v.data[len + 1 - k] \in S
        BY <1>1
      <4>3. d = [k \in 1..len |-> v.data[len + 1 - k]]
        BY <4>1
      <4> HIDE DEF d
      <4> QED BY <1>1, <4>2, <4>3
    <3>2. vec_reverse(v, TRUE, FALSE) = [vec_expand(v, TRUE) EXCEPT !.data = d]
      BY <2>2, <1>a DEF vec_reverse, Refused, Vectors
    <3> HIDE DEF d
    <3>3. Len(d) <= len + 1
      BY <1>1, <3>1
    <3> QED BY <3>1, <3>2, <3>3, GrowFits
  <2> QED BY <2>1, <2>2
<1> QED BY <1>4, <1>5, <1>6, <1>7, <1>8, <1>9, <1>10, <1>11, <1>12

-----------------------------------------------------------------------------
(***************************************************************************)
(* The table of modules.  The inductive invariant is that it fits its      *)
(* capacity, whether or not allocations failed.                            *)
(***************************************************************************)
TableInv ==
    /\ modules \in Vectors(Module)
    /\ loads \in 0..MaxLoads
    /\ Fits(modules)

\* LoadModule adds at most one module to the table.
LEMMA LoadKeepsTable ==
    ASSUME NEW str, NEW ok \in BOOLEAN, TableInv, LoadModule(str, ok)
    PROVE  TableInv'
<1>1. CASE UNCHANGED <<modules, refs, loads>>
  BY <1>1 DEF TableInv, Fits
<1>2. CASE str \in Declares /\ loads < MaxLoads /\ loads' = loads + 1
           /\ modules' = vec_push(modules, [path |-> str, id |-> loads + 1], ok)
  <2> DEFINE m == [path |-> str, id |-> loads + 1]
  <2>1. loads + 1 \in 1..MaxLoads /\ str \in Paths
    BY <1>2, ModulesAssumption DEF TableInv
  <2>2. m \in Module
    BY <2>1 DEF Module
  <2> HIDE DEF m
  <2>3. vec_push(modules, m, ok) \in Vectors(Module) /\ Fits(vec_push(modules, m, ok))
    BY <2>2, PushFits DEF TableInv
  <2>4. modules' = vec_push(modules, m, ok)
    BY <1>2 DEF m
  <2>5. loads' \in 0..MaxLoads
    BY <1>2, <2>1
  <2>6. Fits(modules')
    BY <2>3, <2>4
  <2> QED BY <2>3, <2>4, <2>5, <2>6 DEF TableInv, Fits
<1> QED BY <1>1, <1>2 DEF LoadModule, Unchanged

\* UnloadModule takes at most one module out of the table.
LEMMA UnloadKeepsTable ==
    ASSUME TableInv, UnloadModule
    PROVE  TableInv'
<1> DEFINE name == NameOf[Top.m.path]
<1>1. modules' = SpliceNamed(name) /\ loads' = loads
  BY DEF UnloadModule
<1> HIDE DEF name
<1>2. CASE Named(name) = {}
  BY <1>1, <1>2 DEF SpliceNamed, TableInv, Fits
<1>3. CASE Named(name) # {}
  <2>1. Named(name) \subseteq 1..Len(modules.data)
    BY DEF Named
  <2>2. Len(modules.data) \in Nat
    BY DEF TableInv, Vectors
  <2>3. Min(Named(name)) \in Named(name)
    BY <1>3, <2>1, <2>2, LeastPosition
  <2> DEFINE start == Min(Named(name)) - 1
  <2>4. start \in Nat /\ start < Len(modules.data)
    BY <2>1, <2>2, <2>3
  <2> HIDE DEF start
  <2>5. vec_splice(modules, start, 1) \in Vectors(Module) /\ Fits(vec_splice(modules, start, 1))
    BY <2>4, SpliceFits DEF TableInv
  <2>6. modules' = vec_splice(modules, start, 1)
    BY <1>1, <1>3 DEF SpliceNamed, start
  <2> QED BY <1>1, <2>5, <2>6 DEF TableInv, Fits
<1> QED BY <1>2, <1>3

\* The table of modules stays within its memory as long as the capacity the
\* vector believes to have was really allocated: whatever loads, unloads,
\* nested dispatches and signals do, vec_expand is asked in time.
THEOREM TableSafe == ModSpec => []TableWithin
<1>1. ModInit => TableInv
  <2>1. <<>> \in Seq(Module) /\ Len(<<>>) = 0
    OBVIOUS
  <2> QED BY <2>1, ModulesAssumption DEF ModInit, vec_init, TableInv, Vectors, Fits
<1>2. TableInv /\ [ModNext]_mvars => TableInv'
  <2> SUFFICES ASSUME TableInv, [ModNext]_mvars PROVE TableInv'
    OBVIOUS
  <2>1. CASE UNCHANGED <<modules, loads>>
    BY <2>1 DEF TableInv, Fits
  <2>2. CASE \E ok \in BOOLEAN : InitializeNext(ok)
    BY <2>2, LoadKeepsTable DEF InitializeNext
  <2>3. CASE \E p \in Paths, ok \in BOOLEAN : HookLoads(p, ok)
    BY <2>3, LoadKeepsTable DEF HookLoads
  <2>4. CASE UnloadModule
    BY <2>4, UnloadKeepsTable
  <2> QED BY <2>1, <2>2, <2>3, <2>4
      DEF ModNext, mvars, InitializeModulesDone, OtherEvent, Signal, CallHook, HookReturns,
          HookUnloads, EventDone
<1>3. TableInv => TableWithin
  BY DEF TableInv, TableWithin, Within, Fits, Vectors
<1> QED BY <1>1, <1>2, <1>3, PTL DEF ModSpec

-----------------------------------------------------------------------------
(***************************************************************************)
(* The dispatches in progress, one upon the other.  As long as no unload   *)
(* was misused, the unloads among them are of different names, and the     *)
(* module each is about stays the first of its name: others are loaded     *)
(* behind it, and what is taken out above has another name.                *)
(***************************************************************************)
Frames == [type : Events, idx : Nat \ {0}, in : Module \union {NoModule},
           called : SUBSET Module, cut : BOOLEAN, m : Module \union {NoModule}]

\* The entry of table d that is found by the name of m is m itself.
StillFirst(d, m) ==
    /\ m \in Module
    /\ \E k \in 1..Len(d) : d[k] = m /\ \A j \in 1..k - 1 : NameOf[d[j].path] # NameOf[m.path]

\* A dispatch during which the table only grew has called what it has passed.
Progress(d, f) ==
    ~f.cut => /\ f.idx <= Len(d) + 1
              /\ \A j \in 1..Len(d) : j < f.idx => d[j] \in f.called
              /\ f.in # NoModule => f.idx <= Len(d) /\ d[f.idx] \in f.called

StackInv ==
    /\ stack \in Seq(Frames)
    /\ \A i \in 1..Len(stack) : Progress(modules.data, stack[i])

Unloads(s) == {i \in 1..Len(s) : s[i].type = "modunload"}

UnloadsFind(d, s) ==
    \A i \in Unloads(s) :
        /\ StillFirst(d, s[i].m)
        /\ \A j \in Unloads(s) : NameOf[s[j].m.path] = NameOf[s[i].m.path] => j = i

\* The object of each path is open as often as the path is in table d.
OfPath(p) == {m \in Module : m.path = p}
Counted(d, r) == \A p \in Paths : r[p] = Cardinality(Positions(d, OfPath(p)))

Sound(d, r, s) == Counted(d, r) /\ UnloadsFind(d, s)

\* The inductive invariant.
ModInv ==
    /\ ModTypeOK /\ Fits(modules) /\ StackInv
    /\ ~misused => Sound(modules.data, refs, stack)

\* A dispatch that begins.
LEMMA FrameWell ==
    ASSUME NEW d \in Seq(Module), NEW type \in Events, NEW m \in Module \union {NoModule}
    PROVE  /\ Frame(type, m) \in Frames /\ Progress(d, Frame(type, m))
           /\ Frame(type, m).type = type /\ Frame(type, m).m = m
<1> DEFINE f == Frame(type, m)
<1>1. /\ f \in Frames /\ f.type = type /\ f.m = m /\ f.idx = 1 /\ f.in = NoModule
  BY DEF Frame, Frames
<1>2. Len(d) \in Nat
  BY LenProperties
<1> HIDE DEF f
<1>3. Progress(d, f)
  BY <1>1, <1>2 DEF Progress
<1> QED BY <1>1, <1>3 DEF f

\* A dispatch goes on top of the others.
LEMMA PushKeepsStack ==
    ASSUME StackInv, modules' = modules, NEW f \in Frames, Progress(modules.data, f),
           stack' = Append(stack, f)
    PROVE  StackInv'
<1>1. stack \in Seq(Frames) /\ Len(stack) \in Nat
  BY LenProperties DEF StackInv
<1>2. /\ stack' \in Seq(Frames) /\ Len(stack') = Len(stack) + 1 /\ stack'[Len(stack) + 1] = f
      /\ \A i \in 1..Len(stack) : stack'[i] = stack[i]
  BY <1>1, AppendProperties
<1>3. \A i \in 1..Len(stack') : i \in 1..Len(stack) \/ i = Len(stack) + 1
  BY <1>1, <1>2
<1> QED BY <1>2, <1>3 DEF StackInv

\* One that is not an unload leaves the unloads in progress as they are.
LEMMA PushKeepsUnloads ==
    ASSUME NEW s \in Seq(Frames), NEW f \in Frames, f.type # "modunload", NEW d, UnloadsFind(d, s)
    PROVE  UnloadsFind(d, Append(s, f))
<1> DEFINE t == Append(s, f)
<1>1. /\ Len(s) \in Nat /\ Len(t) = Len(s) + 1 /\ t[Len(s) + 1] = f
      /\ \A i \in 1..Len(s) : t[i] = s[i]
  BY LenProperties, AppendProperties
<1> HIDE DEF t
<1>2. \A i \in 1..Len(t) : i \in 1..Len(s) \/ i = Len(s) + 1
  BY <1>1
<1>3. \A i \in 1..Len(s) : i \in 1..Len(t)
  BY <1>1
<1>4. Unloads(t) = Unloads(s) /\ \A i \in Unloads(s) : t[i] = s[i]
  BY <1>1, <1>2, <1>3 DEF Unloads
<1>5. UnloadsFind(d, t)
  BY <1>4 DEF UnloadsFind
<1> QED BY <1>5 DEF t

\* Stacks with the same unloads.
LEMMA SameUnloads ==
    ASSUME NEW s, NEW t, Len(t) = Len(s), NEW d, UnloadsFind(d, s),
           \A i \in 1..Len(s) : t[i].type = s[i].type /\ t[i].m = s[i].m
    PROVE  UnloadsFind(d, t)
<1>1. Unloads(t) = Unloads(s) /\ \A i \in Unloads(s) : t[i].m = s[i].m
  BY DEF Unloads
<1> QED BY <1>1 DEF UnloadsFind

\* The dispatch on top goes on.
LEMMA TopKeepsStack ==
    ASSUME StackInv, stack # <<>>, modules' = modules, NEW f \in Frames,
           Progress(modules.data, f), SetTop(f), f.type = Top.type, f.m = Top.m
    PROVE  StackInv' /\ \A d : UnloadsFind(d, stack) => UnloadsFind(d, stack')
<1>1. stack \in Seq(Frames) /\ Len(stack) \in Nat /\ Len(stack) \in 1..Len(stack)
  BY LenProperties, EmptySeq DEF StackInv
<1>2. /\ stack' \in Seq(Frames) /\ Len(stack') = Len(stack)
      /\ \A i \in 1..Len(stack) : stack'[i] = IF i = Len(stack) THEN f ELSE stack[i]
  BY <1>1, ExceptSeq DEF SetTop
<1>3. StackInv'
  BY <1>2 DEF StackInv
<1>4. \A i \in 1..Len(stack) : stack'[i].type = stack[i].type /\ stack'[i].m = stack[i].m
  BY <1>2 DEF Top, Last
<1> QED BY <1>2, <1>3, <1>4, SameUnloads

\* The dispatch on top.
LEMMA TopIsWell ==
    ASSUME StackInv, stack # <<>>
    PROVE  Top \in Frames /\ Len(stack) \in Nat \ {0} /\ Top = stack[Len(stack)]
           /\ Progress(modules.data, Top)
<1>1. stack \in Seq(Frames) /\ Len(stack) \in Nat /\ Len(stack) \in 1..Len(stack)
  BY LenProperties, EmptySeq DEF StackInv
<1>2. Top = stack[Len(stack)]
  BY DEF Top, Last
<1> QED BY <1>1, <1>2, ElementOfSeq DEF StackInv

\* The dispatches below it.
LEMMA PopProperties ==
    ASSUME StackInv, stack # <<>>
    PROVE  /\ Pop \in Seq(Frames) /\ Len(Pop) = Len(stack) - 1
           /\ \A i \in 1..Len(stack) - 1 : Pop[i] = stack[i] /\ i \in 1..Len(stack)
<1>1. stack \in Seq(Frames) /\ Len(stack) \in Nat /\ Len(stack) \in 1..Len(stack)
  BY LenProperties, EmptySeq DEF StackInv
<1>2. \A i \in 1..Len(stack) - 1 : stack[i] \in Frames /\ i \in 1..Len(stack)
  BY <1>1, ElementOfSeq
<1> DEFINE n == Len(stack) - 1
<1>3. n \in Int /\ 1 \in Int /\ n >= 0
  BY <1>1
<1> HIDE DEF n
<1>4. /\ SubSeq(stack, 1, n) \in Seq(Frames)
      /\ Len(SubSeq(stack, 1, n)) = IF 1 <= n THEN n - 1 + 1 ELSE 0
      /\ \A i \in 1..n - 1 + 1 : SubSeq(stack, 1, n)[i] = stack[1 + i - 1]
  BY <1>2, <1>3, SubSeqProperties DEF n
<1>5. Len(SubSeq(stack, 1, n)) = n /\ \A i \in 1..n : SubSeq(stack, 1, n)[i] = stack[i]
  BY <1>3, <1>4
<1> QED BY <1>2, <1>4, <1>5 DEF Pop, n

\* The unloads among the dispatches below it.
LEMMA PopKeepsUnloads ==
    ASSUME StackInv, stack # <<>>, NEW d, UnloadsFind(d, stack)
    PROVE  UnloadsFind(d, Pop)
<1>1. /\ Pop \in Seq(Frames) /\ Len(Pop) = Len(stack) - 1 /\ Len(stack) \in Nat
      /\ \A i \in 1..Len(stack) - 1 : Pop[i] = stack[i] /\ i \in 1..Len(stack)
  BY PopProperties, TopIsWell
<1>2. \A i \in Unloads(Pop) : i \in Unloads(stack) /\ Pop[i] = stack[i]
  BY <1>1 DEF Unloads
<1> QED BY <1>2 DEF UnloadsFind

\* What is put behind the table leaves each module the first of its name,
LEMMA GrowKeepsFirst ==
    ASSUME NEW d \in Seq(Module), NEW x \in Module, NEW m, StillFirst(d, m)
    PROVE  StillFirst(Append(d, x), m)
<1> DEFINE e == Append(d, x)
<1>1. /\ Len(d) \in Nat /\ Len(e) = Len(d) + 1 /\ \A j \in 1..Len(d) : e[j] = d[j]
  BY LenProperties, AppendProperties
<1> HIDE DEF e
<1>2. PICK k \in 1..Len(d) : d[k] = m /\ \A j \in 1..k - 1 : NameOf[d[j].path] # NameOf[m.path]
  BY DEF StillFirst
<1>3. k \in 1..Len(e) /\ e[k] = m
  BY <1>1, <1>2
<1>4. \A j \in 1..k - 1 : j \in 1..Len(d) /\ e[j] = d[j]
  BY <1>1
<1>5. StillFirst(e, m)
  BY <1>2, <1>3, <1>4 DEF StillFirst
<1> QED BY <1>5 DEF e

\* and so does taking out one of another name.
LEMMA RemoveKeepsFirst ==
    ASSUME NEW d \in Seq(Module), NEW i \in 1..Len(d), NEW m, StillFirst(d, m),
           NameOf[d[i].path] # NameOf[m.path]
    PROVE  StillFirst(RemoveAt(d, i), m)
<1> DEFINE e == RemoveAt(d, i)
<1>1. /\ Len(d) \in Nat /\ Len(e) = Len(d) - 1
      /\ \A j \in 1..Len(d) - 1 : e[j] = IF j < i THEN d[j] ELSE d[j + 1]
  BY LenProperties, RemoveAtProperties
<1> HIDE DEF e
<1>2. PICK k \in 1..Len(d) : d[k] = m /\ \A j \in 1..k - 1 : NameOf[d[j].path] # NameOf[m.path]
  BY DEF StillFirst
<1>3. k # i
  BY <1>2
<1>4. CASE k < i
  <2>1. k \in 1..Len(e) /\ e[k] = m
    BY <1>1, <1>2, <1>4
  <2>2. \A j \in 1..k - 1 : e[j] = d[j]
    BY <1>1, <1>4
  <2>3. StillFirst(e, m)
    BY <1>2, <2>1, <2>2 DEF StillFirst
  <2> QED BY <2>3 DEF e
<1>5. CASE k > i
  <2>1. k - 1 \in 1..Len(e) /\ e[k - 1] = m
    BY <1>1, <1>2, <1>5
  <2>2. \A j \in 1..(k - 1) - 1 : e[j] = IF j < i THEN d[j] ELSE d[j + 1]
    BY <1>1
  <2>3. \A j \in 1..(k - 1) - 1 : j \in 1..k - 1 /\ j + 1 \in 1..k - 1
    OBVIOUS
  <2>4. \A j \in 1..(k - 1) - 1 : NameOf[e[j].path] # NameOf[m.path]
    BY <1>2, <2>2, <2>3
  <2>5. StillFirst(e, m)
    BY <2>1, <2>4 DEF StillFirst
  <2> QED BY <2>5 DEF e
<1> QED BY <1>1, <1>3, <1>4, <1>5

\* The first of a name is where the search by name ends.
LEMMA FirstIsFound ==
    ASSUME NEW m, modules.data \in Seq(Module), StillFirst(modules.data, m)
    PROVE  LET I == Named(NameOf[m.path])
           IN  I # {} /\ Min(I) \in 1..Len(modules.data) /\ modules.data[Min(I)] = m
<1> DEFINE d == modules.data
           I == Named(NameOf[m.path])
<1>1. PICK k \in 1..Len(d) : d[k] = m /\ \A j \in 1..k - 1 : NameOf[d[j].path] # NameOf[m.path]
  BY DEF StillFirst
<1>2. Len(d) \in Nat /\ I \subseteq 1..Len(d) /\ k \in I
  BY <1>1, LenProperties DEF Named
<1>3. \A j \in I : ~(j \in 1..k - 1)
  BY <1>1 DEF Named
<1> HIDE DEF I
<1>4. Min(I) \in I /\ Min(I) <= k
  BY <1>2, LeastPosition
<1>5. Min(I) = k
  <2> DEFINE x == Min(I)
  <2>0. x \in I /\ x <= k
    BY <1>4
  <2> HIDE DEF x
  <2>1. x \in Nat /\ k \in Nat /\ x >= 1
    BY <1>2, <2>0
  <2>2. ~(x \in 1..k - 1)
    BY <1>3, <2>0
  <2>3. x = k
    BY <2>0, <2>1, <2>2
  <2> QED BY <2>3 DEF x
<1> QED BY <1>1, <1>2, <1>5 DEF I

\* A table that grows is one step further from the end of each dispatch.
LEMMA GrowKeepsProgress ==
    ASSUME NEW d \in Seq(Module), NEW x \in Module, NEW f \in Frames, Progress(d, f)
    PROVE  Progress(Append(d, x), f)
<1> DEFINE e == Append(d, x)
<1>1. /\ Len(d) \in Nat /\ Len(e) = Len(d) + 1 /\ \A j \in 1..Len(d) : e[j] = d[j]
  BY LenProperties, AppendProperties
<1>2. f.idx \in Nat \ {0}
  BY DEF Frames
<1> HIDE DEF e
<1>3. ASSUME ~f.cut
      PROVE  /\ f.idx <= Len(e) + 1
             /\ \A j \in 1..Len(e) : j < f.idx => e[j] \in f.called
             /\ f.in # NoModule => f.idx <= Len(e) /\ e[f.idx] \in f.called
  <2>1. /\ f.idx <= Len(d) + 1
        /\ \A j \in 1..Len(d) : j < f.idx => d[j] \in f.called
        /\ f.in # NoModule => f.idx <= Len(d) /\ d[f.idx] \in f.called
    BY <1>3 DEF Progress
  <2>2. \A j \in 1..Len(e) : j < f.idx => j \in 1..Len(d)
    BY <1>1, <1>2, <2>1
  <2>3. f.in # NoModule => f.idx \in 1..Len(d)
    BY <1>1, <1>2, <2>1
  <2> QED BY <1>1, <1>2, <2>1, <2>2, <2>3
<1> QED BY <1>3 DEF Progress, e

\* LoadModule keeps the invariant, except for what its caller does besides.
LEMMA LoadKeepsInv ==
    ASSUME ModInv, NEW str, NEW ok \in BOOLEAN, LoadModule(str, ok)
    PROVE  /\ modules' \in Vectors(Module) /\ Fits(modules') /\ loads' \in 0..MaxLoads
           /\ refs' \in [Paths -> Nat] /\ alive' \in BOOLEAN
           /\ StackInv' /\ (~misused => Sound(modules'.data, refs', stack'))
<1>1. /\ modules \in Vectors(Module) /\ Fits(modules) /\ loads \in 0..MaxLoads
      /\ refs \in [Paths -> Nat] /\ alive \in BOOLEAN /\ modules.data \in Seq(Module)
  BY DEF ModInv, ModTypeOK, Vectors
<1>2. TableInv'
  BY <1>1, LoadKeepsTable DEF TableInv
<1>3. modules' \in Vectors(Module) /\ Fits(modules') /\ loads' \in 0..MaxLoads
  BY <1>2 DEF TableInv, Fits
<1>4. CASE UNCHANGED <<modules, refs, loads, stack>> /\ alive' \in BOOLEAN
  <2>1. StackInv'
    BY <1>4 DEF ModInv, StackInv
  <2> QED BY <1>1, <1>3, <1>4, <2>1 DEF ModInv
<1>5. CASE str \in Declares /\ loads < MaxLoads
  <2> DEFINE m == [path |-> str, id |-> loads + 1]
             f == Frame("modload", m)
             d == modules.data
             e == Append(d, m)
  <2>1. str \in Paths /\ m \in Module /\ m.path = str
    <3>1. loads + 1 \in 1..MaxLoads /\ str \in Paths
      BY <1>1, <1>5, ModulesAssumption
    <3> QED BY <3>1 DEF Module
  <2>2. /\ modules' = vec_push(modules, m, ok) /\ stack' = Append(stack, f)
        /\ refs' = [refs EXCEPT ![str] = @ + 1]
        /\ alive' \in IF Within(modules') THEN {TRUE} ELSE BOOLEAN
    <3>1. str # NULL /\ str \notin Paths \ Declares
      BY <1>5, <2>1, ModulesAssumption
    <3> QED BY <3>1 DEF LoadModule
  <2>3. alive' \in BOOLEAN
    BY <2>2
  <2> HIDE DEF m
  <2>4. modules'.data = e
    <3>1. vec_push(modules, m, ok).data = Append(modules.data, m)
      BY ONLY <1>1, <2>1, PushFits, ok \in BOOLEAN
    <3> QED BY <2>2, <3>1
  <2>5. ASSUME ~misused PROVE Counted(e, refs')
    <3> SUFFICES ASSUME NEW p \in Paths
                 PROVE  refs'[p] = Cardinality(Positions(e, OfPath(p)))
      BY DEF Counted
    <3>1. Cardinality(Positions(e, OfPath(p))) =
              Cardinality(Positions(d, OfPath(p))) + IF m \in OfPath(p) THEN 1 ELSE 0
      BY <1>1, <2>1, CountAppend
    <3>2. m \in OfPath(p) <=> str = p
      BY <2>1 DEF OfPath
    <3>3. refs[p] = Cardinality(Positions(d, OfPath(p))) /\ refs[p] \in Nat
      BY <1>1, <2>5 DEF ModInv, Sound, Counted
    <3> QED BY <1>1, <2>1, <2>2, <3>1, <3>2, <3>3
  <2>6. refs' \in [Paths -> Nat]
    BY <1>1, <2>1, <2>2
  <2>7. stack \in Seq(Frames) /\ Len(stack) \in Nat /\ e \in Seq(Module)
    BY <1>1, <2>1, LenProperties, AppendProperties DEF ModInv, StackInv
  <2>8. f \in Frames /\ Progress(e, f) /\ f.type = "modload"
    <3>1. "modload" \in Events
      BY DEF Events
    <3> QED BY <2>1, <2>7, <3>1, FrameWell
  <2> HIDE DEF f, e
  <2>9. StackInv'
    <3>1. /\ stack' \in Seq(Frames) /\ Len(stack') = Len(stack) + 1 /\ stack'[Len(stack) + 1] = f
          /\ \A i \in 1..Len(stack) : stack'[i] = stack[i]
      BY <2>2, <2>7, <2>8, AppendProperties
    <3>2. ASSUME NEW i \in 1..Len(stack) PROVE Progress(e, stack[i])
      <4>1. stack[i] \in Frames /\ Progress(d, stack[i])
        BY <2>7, ElementOfSeq DEF ModInv, StackInv
      <4> QED BY <1>1, <2>1, <4>1, GrowKeepsProgress DEF e
    <3>3. \A i \in 1..Len(stack') : i \in 1..Len(stack) \/ i = Len(stack) + 1
      BY <2>7, <3>1
    <3> QED BY <2>4, <2>8, <3>1, <3>2, <3>3 DEF StackInv
  <2>10. ASSUME ~misused PROVE UnloadsFind(e, stack')
    <3>1. UnloadsFind(d, stack)
      BY <2>10 DEF ModInv, Sound
    <3>2. UnloadsFind(e, stack)
      BY <1>1, <2>1, <3>1, GrowKeepsFirst DEF UnloadsFind, e
    <3> QED BY <2>2, <2>7, <2>8, <3>2, PushKeepsUnloads
  <2> QED BY <1>3, <2>3, <2>4, <2>5, <2>6, <2>9, <2>10 DEF Sound
<1>6. \/ UNCHANGED <<modules, refs, loads, stack>> /\ alive' \in BOOLEAN
      \/ str \in Declares /\ loads < MaxLoads
  BY <1>1 DEF LoadModule, Unchanged
<1> QED BY <1>4, <1>5, <1>6

\* The dispatches below an unload, with the note that the table was cut.
LEMMA CutKeepsStack ==
    ASSUME StackInv, stack # <<>>, stack' = [i \in 1..Len(Pop) |-> [Pop[i] EXCEPT !.cut = TRUE]]
    PROVE  StackInv' /\ \A d : UnloadsFind(d, Pop) => UnloadsFind(d, stack')
<1>1. Pop \in Seq(Frames) /\ Len(Pop) \in Nat
  BY PopProperties, LenProperties
<1>2. ASSUME NEW i \in 1..Len(Pop)
      PROVE  LET f == [Pop[i] EXCEPT !.cut = TRUE]
             IN  f \in Frames /\ f.cut /\ f.type = Pop[i].type /\ f.m = Pop[i].m
  <2>1. Pop[i] \in Frames
    BY <1>1, ElementOfSeq
  <2> QED BY <2>1 DEF Frames
<1>3. stack' \in Seq(Frames) /\ Len(stack') = Len(Pop)
  BY <1>1, <1>2
<1>4. \A i \in 1..Len(Pop) : stack'[i].cut /\ stack'[i].type = Pop[i].type /\ stack'[i].m = Pop[i].m
  BY <1>2
<1>5. StackInv'
  BY <1>3, <1>4 DEF StackInv, Progress
<1> QED BY <1>3, <1>4, <1>5, SameUnloads

\* Without a misuse, UnloadModule removes the entry its event was about.
LEMMA UnloadIsSound ==
    ASSUME ModInv, UnloadModule, ~misused
    PROVE  Sound(modules'.data, refs', stack')
<1> DEFINE m == Top.m
           d == modules.data
           I == Named(NameOf[m.path])
           k == Min(I)
           e == RemoveAt(d, k)
           n == Len(stack)
<1>1. /\ modules \in Vectors(Module) /\ refs \in [Paths -> Nat] /\ d \in Seq(Module)
      /\ Len(d) \in Nat /\ StackInv /\ Counted(d, refs) /\ UnloadsFind(d, stack)
  BY LenProperties DEF ModInv, ModTypeOK, Vectors, Sound
<1>2. /\ stack # <<>> /\ Top.type = "modunload"
      /\ modules' = SpliceNamed(NameOf[m.path])
      /\ refs' = [refs EXCEPT ![m.path] = IF @ = 0 THEN 0 ELSE @ - 1]
      /\ stack' = [i \in 1..Len(Pop) |-> [Pop[i] EXCEPT !.cut = TRUE]]
  BY DEF UnloadModule, Dispatched
<1>3. n \in Nat \ {0} /\ Top = stack[n]
  BY <1>1, <1>2, TopIsWell
<1> HIDE DEF n
<1>4. n \in Unloads(stack)
  BY <1>2, <1>3 DEF Unloads, n
<1>5. StillFirst(d, m)
  BY <1>1, <1>3, <1>4 DEF UnloadsFind
<1>6. I # {} /\ k \in 1..Len(d) /\ d[k] = m /\ m \in Module /\ m.path \in Paths
  <2>1. I # {} /\ k \in 1..Len(d) /\ d[k] = m
    BY <1>1, <1>5, FirstIsFound
  <2> QED BY <1>5, <2>1 DEF StillFirst, Module
<1>7. modules'.data = e
  <2> HIDE DEF I
  <2>1. modules' = vec_splice(modules, k - 1, 1)
    BY <1>2, <1>6 DEF SpliceNamed, I
  <2> HIDE DEF k
  <2>2. k - 1 + 1 + 1 = k + 1
    BY <1>1, <1>6
  <2>3. vec_splice(modules, k - 1, 1).data = SubSeq(d, 1, k - 1) \o SubSeq(d, k - 1 + 1 + 1, Len(d))
    BY <1>1 DEF vec_splice, Vectors
  <2> QED BY <2>1, <2>2, <2>3 DEF RemoveAt
<1> HIDE DEF k, m
<1>8. Counted(e, refs')
  <2> SUFFICES ASSUME NEW p \in Paths
               PROVE  refs'[p] = Cardinality(Positions(e, OfPath(p)))
    BY DEF Counted
  <2>1. Cardinality(Positions(e, OfPath(p))) =
            Cardinality(Positions(d, OfPath(p))) - IF d[k] \in OfPath(p) THEN 1 ELSE 0
    BY <1>1, <1>6, CountRemove
  <2>2. d[k] \in OfPath(p) <=> m.path = p
    BY <1>6 DEF OfPath
  <2>3. refs[p] = Cardinality(Positions(d, OfPath(p))) /\ refs[p] \in Nat
    BY <1>1 DEF Counted
  <2>4. Cardinality(Positions(e, OfPath(p))) \in Nat
    <3>1. e \in Seq(Module)
      BY <1>1, <1>6, RemoveAtProperties
    <3> HIDE DEF e
    <3> QED BY <3>1, PositionsFinite
  <2>5. refs'[p] = IF p = m.path THEN (IF refs[p] = 0 THEN 0 ELSE refs[p] - 1) ELSE refs[p]
    BY <1>1, <1>2, <1>6
  <2> QED BY <2>1, <2>2, <2>3, <2>4, <2>5
<1>9. UnloadsFind(e, Pop)
  <2>1. UnloadsFind(d, Pop)
    BY <1>1, <1>2, PopKeepsUnloads
  <2>2. /\ Len(Pop) = n - 1
        /\ \A i \in 1..n - 1 : Pop[i] = stack[i] /\ i \in 1..n
    BY <1>1, <1>2, PopProperties DEF n
  <2>3. ASSUME NEW i \in Unloads(Pop) PROVE StillFirst(e, Pop[i].m)
    <3>1. i \in 1..n - 1 /\ Pop[i] = stack[i] /\ i \in Unloads(stack)
      BY <2>2 DEF Unloads, n
    <3>2. i # n
      BY <1>3, <3>1
    <3>3. NameOf[m.path] # NameOf[Pop[i].m.path]
      BY <1>1, <1>3, <1>4, <3>1, <3>2 DEF UnloadsFind, m
    <3>4. StillFirst(d, Pop[i].m)
      BY <2>1 DEF UnloadsFind
    <3> QED BY <1>1, <1>6, <3>3, <3>4, RemoveKeepsFirst
  <2> QED BY <2>1, <2>3 DEF UnloadsFind
<1>10. UnloadsFind(e, stack')
  BY <1>1, <1>2, <1>9, CutKeepsStack
<1> QED BY <1>7, <1>8, <1>10 DEF Sound

\* UnloadModule keeps the invariant.
LEMMA UnloadKeepsInv ==
    ASSUME ModInv, UnloadModule
    PROVE  ModInv'
<1> DEFINE p == Top.m.path
<1>1. /\ modules \in Vectors(Module) /\ Fits(modules) /\ loads \in 0..MaxLoads
      /\ refs \in [Paths -> Nat] /\ StackInv
  BY DEF ModInv, ModTypeOK
<1>2. /\ stack # <<>> /\ refs' = [refs EXCEPT ![p] = IF @ = 0 THEN 0 ELSE @ - 1]
      /\ stack' = [i \in 1..Len(Pop) |-> [Pop[i] EXCEPT !.cut = TRUE]]
      /\ alive' \in IF misused THEN BOOLEAN ELSE {TRUE}
      /\ UNCHANGED <<loads, moduleblocks, next, rehashed, misused>>
  BY DEF UnloadModule, Dispatched
<1>3. TableInv'
  BY <1>1, UnloadKeepsTable DEF TableInv
<1> HIDE DEF p
<1>4. refs' \in [Paths -> Nat] /\ alive' \in BOOLEAN
  <2>1. p \in Paths => (IF refs[p] = 0 THEN 0 ELSE refs[p] - 1) \in Nat
    BY <1>1
  <2> QED BY <1>1, <1>2, <2>1
<1>5. StackInv'
  BY <1>1, <1>2, CutKeepsStack
<1>6. ~misused => Sound(modules'.data, refs', stack')
  BY UnloadIsSound
<1> QED BY <1>1, <1>2, <1>3, <1>4, <1>5, <1>6
    DEF ModInv, ModTypeOK, TableInv, Fits, StackInv, Frames

\* The steps that leave the table alone keep the invariant if they keep the
\* dispatches well formed.
LEMMA SameTable ==
    ASSUME ModInv, UNCHANGED <<modules, refs, loads>>, StackInv', alive' \in BOOLEAN,
           moduleblocks' \in Configs \union {<<>>}, next' \in Nat, rehashed' \in BOOLEAN,
           misused' \in BOOLEAN,
           ~misused' => ~misused /\ (UnloadsFind(modules.data, stack) => UnloadsFind(modules.data, stack'))
    PROVE  ModInv'
<1>1. ModTypeOK'
  BY DEF ModInv, ModTypeOK, StackInv, Frames
<1>2. ~misused' => Sound(modules.data, refs, stack')
  BY DEF ModInv, Sound
<1> QED BY <1>1, <1>2 DEF ModInv, Fits

\* A step of CallEvent: the next hook is called.
LEMMA CallKeepsInv ==
    ASSUME ModInv, CallHook
    PROVE  ModInv'
<1> DEFINE d == modules.data
           m == d[Top.idx]
           f == [Top EXCEPT !.in = m, !.called = @ \union {m}]
<1>1. d \in Seq(Module) /\ Len(d) \in Nat /\ StackInv
  BY LenProperties DEF ModInv, ModTypeOK, Vectors
<1>2. /\ stack # <<>> /\ Top.idx <= Len(d) /\ SetTop(f)
      /\ alive' = (refs[m.path] > 0)
      /\ UNCHANGED <<modules, refs, loads, moduleblocks, next, rehashed, misused>>
  BY DEF CallHook
<1>3. Top \in Frames /\ Progress(d, Top)
  BY <1>1, <1>2, TopIsWell
<1>4. Top.idx \in 1..Len(d) /\ m \in Module
  <2>1. Top.idx \in Nat \ {0}
    BY <1>3 DEF Frames
  <2>2. Top.idx \in 1..Len(d)
    BY <1>1, <1>2, <2>1
  <2> QED BY <1>1, <2>2, ElementOfSeq
<1> HIDE DEF m
<1>5. /\ f \in Frames /\ f.type = Top.type /\ f.m = Top.m /\ f.cut = Top.cut
      /\ f.idx = Top.idx /\ f.called = Top.called \union {m}
  BY <1>3, <1>4 DEF Frames
<1> HIDE DEF f
<1>6. Progress(d, f)
  BY <1>2, <1>3, <1>5 DEF Progress, m
<1>7. StackInv' /\ (UnloadsFind(d, stack) => UnloadsFind(d, stack'))
  BY <1>1, <1>2, <1>5, <1>6, TopKeepsStack
<1>8. alive' \in BOOLEAN
  BY <1>2
<1> QED BY <1>2, <1>7, <1>8, SameTable DEF ModInv, ModTypeOK

\* The hook returns and CallEvent goes on to the next module.
LEMMA ReturnKeepsInv ==
    ASSUME ModInv, HookReturns
    PROVE  ModInv'
<1> DEFINE d == modules.data
           f == [Top EXCEPT !.in = NoModule, !.idx = @ + 1]
<1>1. d \in Seq(Module) /\ Len(d) \in Nat /\ StackInv
  BY LenProperties DEF ModInv, ModTypeOK, Vectors
<1>2. /\ stack # <<>> /\ Top.in # NoModule /\ SetTop(f)
      /\ alive' = (refs[Top.in.path] > 0)
      /\ UNCHANGED <<modules, refs, loads, moduleblocks, next, rehashed, misused>>
  BY DEF HookReturns, InHook
<1>3. Top \in Frames /\ Progress(d, Top) /\ Top.idx \in Nat \ {0}
  BY <1>1, <1>2, TopIsWell DEF Frames
<1>4. /\ f \in Frames /\ f.type = Top.type /\ f.m = Top.m /\ f.cut = Top.cut
      /\ f.idx = Top.idx + 1 /\ f.in = NoModule /\ f.called = Top.called
  <2>1. Top.idx + 1 \in Nat \ {0} /\ NoModule \in Module \union {NoModule}
    BY <1>3
  <2> QED BY <1>3, <2>1 DEF Frames
<1> HIDE DEF f
<1>5. Progress(d, f)
  <2> SUFFICES ASSUME ~f.cut
               PROVE  /\ f.idx <= Len(d) + 1
                      /\ \A j \in 1..Len(d) : j < f.idx => d[j] \in f.called
    BY <1>4 DEF Progress
  <2>1. /\ Top.idx <= Len(d) /\ d[Top.idx] \in Top.called
        /\ \A j \in 1..Len(d) : j < Top.idx => d[j] \in Top.called
    BY <1>2, <1>3, <1>4 DEF Progress
  <2>2. \A j \in 1..Len(d) : j < f.idx => j < Top.idx \/ j = Top.idx
    BY <1>1, <1>3, <1>4
  <2> QED BY <1>1, <1>3, <1>4, <2>1, <2>2
<1>6. StackInv' /\ (UnloadsFind(d, stack) => UnloadsFind(d, stack'))
  BY <1>1, <1>2, <1>4, <1>5, TopKeepsStack
<1>7. alive' \in BOOLEAN
  BY <1>2
<1> QED BY <1>2, <1>6, <1>7, SameTable DEF ModInv, ModTypeOK

\* A dispatch ends.
LEMMA DoneKeepsInv ==
    ASSUME ModInv, EventDone
    PROVE  ModInv'
<1>1. StackInv /\ stack # <<>> /\ stack' = Pop
      /\ UNCHANGED <<modules, refs, loads, moduleblocks, next, rehashed, misused, alive>>
  BY DEF ModInv, EventDone, Dispatched
<1>2. /\ Pop \in Seq(Frames) /\ Len(Pop) = Len(stack) - 1
      /\ \A i \in 1..Len(stack) - 1 : Pop[i] = stack[i] /\ i \in 1..Len(stack)
  BY <1>1, PopProperties
<1>3. StackInv'
  BY <1>1, <1>2 DEF StackInv
<1>4. UnloadsFind(modules.data, stack) => UnloadsFind(modules.data, stack')
  BY <1>1, PopKeepsUnloads
<1> QED BY <1>1, <1>3, <1>4, SameTable DEF ModInv, ModTypeOK

\* A dispatch begins: an event of the loop or a signal.
LEMMA BeginKeepsInv ==
    ASSUME ModInv, OtherEvent \/ \E hup \in BOOLEAN : Signal(hup)
    PROVE  ModInv'
<1> DEFINE d == modules.data
<1>1. d \in Seq(Module) /\ StackInv /\ stack \in Seq(Frames)
  BY DEF ModInv, ModTypeOK, Vectors, StackInv
<1>2. ASSUME NEW type \in Events, type # "modunload", stack' = Append(stack, Frame(type, NoModule)),
             modules' = modules
      PROVE  StackInv' /\ (UnloadsFind(d, stack) => UnloadsFind(d, stack'))
  <2> DEFINE f == Frame(type, NoModule)
  <2>1. f \in Frames /\ Progress(d, f) /\ f.type = type
    BY <1>1, FrameWell
  <2> HIDE DEF f
  <2>2. StackInv'
    BY <1>1, <1>2, <2>1, PushKeepsStack DEF f
  <2> QED BY <1>1, <1>2, <2>1, <2>2, PushKeepsUnloads DEF f
<1>3. CASE OtherEvent
  <2>1. stack = <<>> /\ stack' = Append(stack, Frame("other", NoModule))
        /\ UNCHANGED <<modules, refs, loads, moduleblocks, next, rehashed, misused, alive>>
    BY <1>3 DEF OtherEvent
  <2>2. "other" \in Events /\ "other" # "modunload"
    BY DEF Events
  <2>3. StackInv' /\ (UnloadsFind(d, stack) => UnloadsFind(d, stack'))
    BY <1>2, <2>1, <2>2
  <2> QED BY <2>1, <2>3, SameTable DEF ModInv, ModTypeOK
<1>4. ASSUME NEW hup \in BOOLEAN, Signal(hup) PROVE ModInv'
  <2>1. stack' = Append(stack, Frame("signal", NoModule))
        /\ rehashed' = (rehashed \/ hup)
        /\ moduleblocks' = (IF hup THEN <<>> ELSE moduleblocks)
        /\ UNCHANGED <<modules, refs, loads, next, misused, alive>>
    BY <1>4 DEF Signal
  <2>2. "signal" \in Events /\ "signal" # "modunload"
    BY DEF Events
  <2>3. StackInv' /\ (UnloadsFind(d, stack) => UnloadsFind(d, stack'))
    BY <1>2, <2>1, <2>2
  <2>4. moduleblocks' \in Configs \union {<<>>}
    BY <2>1 DEF ModInv, ModTypeOK
  <2>5. rehashed' \in BOOLEAN
    BY <2>1
  <2> QED BY <2>1, <2>3, <2>4, <2>5, SameTable DEF ModInv, ModTypeOK
<1> QED BY <1>3, <1>4

\* A module that may be unloaded is the first of its name.
LEMMA UnloadableIsFirst ==
    ASSUME modules.data \in Seq(Module), NEW m \in Module, Unloadable(m)
    PROVE  StillFirst(modules.data, m)
<1> DEFINE d == modules.data
           I == Named(NameOf[m.path])
<1>1. I # {} /\ d[Min(I)] = m /\ Len(d) \in Nat /\ I \subseteq 1..Len(d)
  BY LenProperties DEF Unloadable, FindModule, Named
<1>2. Min(I) \in I /\ \A j \in I : Min(I) <= j
  BY <1>1, LeastPosition
<1>3. \A j \in 1..Min(I) - 1 : j \in 1..Len(d) /\ j \notin I
  <2> DEFINE x == Min(I)
  <2> HIDE DEF I
  <2>0. x \in I /\ \A j \in I : x <= j
    BY <1>2
  <2>1. SUFFICES \A j \in 1..x - 1 : j \in 1..Len(d) /\ j \notin I
    OBVIOUS
  <2> HIDE DEF x
  <2>2. x \in 1..Len(d)
    BY <1>1, <2>0
  <2>3. \A j \in 1..x - 1 : j \in 1..Len(d) /\ ~(x <= j)
    BY <1>1, <2>2
  <2> QED BY <2>0, <2>3
<1>4. \A j \in 1..Min(I) - 1 : NameOf[d[j].path] # NameOf[m.path]
  BY <1>3 DEF Named
<1> HIDE DEF I
<1> QED BY <1>1, <1>2, <1>4 DEF StillFirst

\* An unload begins.  Without a misuse it is of another name than those in
\* progress.
LEMMA AskKeepsInv ==
    ASSUME ModInv, NEW m \in Module, HookUnloads(m)
    PROVE  ModInv'
<1> DEFINE d == modules.data
           f == Frame("modunload", m)
           n == Len(stack) + 1
<1>1. d \in Seq(Module) /\ StackInv /\ stack \in Seq(Frames) /\ Len(stack) \in Nat /\ n \in Nat
  BY LenProperties DEF ModInv, ModTypeOK, Vectors, StackInv
<1>2. /\ stack' = Append(stack, f) /\ misused' = (misused \/ ~Unloadable(m))
      /\ UNCHANGED <<modules, refs, loads, moduleblocks, next, rehashed, alive>>
  BY DEF HookUnloads
<1>3. f \in Frames /\ Progress(d, f) /\ f.type = "modunload" /\ f.m = m
  <2>1. "modunload" \in Events
    BY DEF Events
  <2> QED BY <1>1, <2>1, FrameWell
<1> HIDE DEF f
<1>4. StackInv'
  BY <1>1, <1>2, <1>3, PushKeepsStack
<1>5. ASSUME Unloadable(m), UnloadsFind(d, stack) PROVE UnloadsFind(d, stack')
  <2>1. /\ Len(stack') = n /\ stack'[n] = f
        /\ \A i \in 1..Len(stack) : stack'[i] = stack[i] /\ i \in 1..n /\ i # n
    BY <1>1, <1>2, <1>3, AppendProperties
  <2>2. \A i \in 1..n : i \in 1..Len(stack) \/ i = n
    BY <1>1
  <2> HIDE DEF n
  <2>3. /\ \A i \in Unloads(stack') : i \in Unloads(stack) \/ i = n
        /\ \A i \in Unloads(stack) : stack'[i] = stack[i] /\ i # n
    BY <2>1, <2>2 DEF Unloads
  <2>4. StillFirst(d, m)
    BY <1>1, <1>5, UnloadableIsFirst
  <2>5. \A i \in Unloads(stack) : NameOf[stack[i].m.path] # NameOf[m.path]
    BY <1>5 DEF Unloadable, Unloads
  <2> SUFFICES ASSUME NEW i \in Unloads(stack')
               PROVE  /\ StillFirst(d, stack'[i].m)
                      /\ \A j \in Unloads(stack') :
                            NameOf[stack'[j].m.path] = NameOf[stack'[i].m.path] => j = i
    BY DEF UnloadsFind
  <2>6. CASE i = n
    BY <1>3, <2>1, <2>3, <2>4, <2>5, <2>6
  <2>7. CASE i \in Unloads(stack)
    <3>1. StillFirst(d, stack'[i].m)
      BY <1>5, <2>3, <2>7 DEF UnloadsFind
    <3>2. ASSUME NEW j \in Unloads(stack'), NameOf[stack'[j].m.path] = NameOf[stack'[i].m.path]
          PROVE  j = i
      <4>1. j # n
        BY <1>3, <2>1, <2>3, <2>5, <2>7, <3>2
      <4>2. j \in Unloads(stack)
        BY <2>3, <4>1
      <4> QED BY <1>5, <2>3, <2>7, <3>2, <4>2 DEF UnloadsFind
    <3> QED BY <3>1, <3>2
  <2> QED BY <2>3, <2>6, <2>7
<1>6. misused \in BOOLEAN /\ misused' \in BOOLEAN /\ (~misused' => ~misused /\ Unloadable(m))
  <2>1. misused \in BOOLEAN
    BY DEF ModInv, ModTypeOK
  <2> QED BY <1>2, <2>1
<1>7. ~misused' => ~misused /\ (UnloadsFind(d, stack) => UnloadsFind(d, stack'))
  BY <1>5, <1>6
<1> QED BY <1>2, <1>4, <1>6, <1>7, SameTable DEF ModInv, ModTypeOK

\* LoadModule is called by InitializeModules or by a hook.
LEMMA LoadersKeepInv ==
    ASSUME ModInv,
           (\E ok \in BOOLEAN : InitializeNext(ok)) \/ \E p \in Paths, ok \in BOOLEAN : HookLoads(p, ok)
    PROVE  ModInv'
<1>1. StackInv /\ next \in Nat /\ misused \in BOOLEAN
  BY DEF ModInv, ModTypeOK
<1>2. \E ok \in BOOLEAN : \E str : LoadModule(str, ok)
  BY DEF InitializeNext, HookLoads
<1>3. /\ modules' \in Vectors(Module) /\ Fits(modules') /\ loads' \in 0..MaxLoads
      /\ refs' \in [Paths -> Nat] /\ alive' \in BOOLEAN
      /\ StackInv' /\ (~misused => Sound(modules'.data, refs', stack'))
  <2>1. PICK ok \in BOOLEAN : \E str : LoadModule(str, ok)
    BY <1>2
  <2>2. PICK str : LoadModule(str, ok)
    BY <2>1
  <2> QED BY <2>2, LoadKeepsInv
<1>4. next' \in Nat /\ UNCHANGED <<moduleblocks, rehashed, misused>>
  BY <1>1 DEF InitializeNext, HookLoads
<1> QED BY <1>1, <1>3, <1>4 DEF ModInv, ModTypeOK, StackInv, Frames, Fits

\* The table is empty at first, and nothing is dispatched.
LEMMA InitModInv == ModInit => ModInv
<1> SUFFICES ASSUME ModInit PROVE ModInv
  OBVIOUS
<1>1. /\ modules = vec_init /\ refs = [p \in Paths |-> 0] /\ loads = 0
      /\ moduleblocks \in Configs /\ next = 1 /\ rehashed = FALSE
      /\ stack = <<>> /\ misused = FALSE /\ alive = TRUE
  BY DEF ModInit
<1>2. modules \in Vectors(Module) /\ modules.data = <<>> /\ Fits(modules)
  BY <1>1 DEF vec_init, Vectors, Fits
<1>3. stack \in Seq(Frames) /\ Len(stack) = 0
  BY <1>1
<1>4. StackInv
  BY <1>3 DEF StackInv
<1>5. Counted(modules.data, refs)
  BY <1>1, <1>2, CountEmpty DEF Counted
<1>a. UnloadsFind(modules.data, stack)
  BY <1>3 DEF UnloadsFind, Unloads
<1>6. refs \in [Paths -> Nat] /\ loads \in 0..MaxLoads /\ next \in Nat
  BY <1>1, ModulesAssumption
<1>7. ModTypeOK
  BY <1>1, <1>2, <1>3, <1>6 DEF ModTypeOK, Frames
<1> QED BY <1>2, <1>4, <1>5, <1>a, <1>7 DEF ModInv, Sound

\* Every step keeps the invariant.
LEMMA NextModInv == ModInv /\ [ModNext]_mvars => ModInv'
<1> SUFFICES ASSUME ModInv, [ModNext]_mvars PROVE ModInv'
  OBVIOUS
<1>1. CASE InitializeModulesDone
  <2>1. next' = 0 /\ UNCHANGED <<modules, refs, loads, moduleblocks, rehashed, stack, misused, alive>>
    BY <1>1 DEF InitializeModulesDone
  <2>2. StackInv'
    BY <2>1 DEF ModInv, StackInv
  <2> QED BY <2>1, <2>2, SameTable DEF ModInv, ModTypeOK
<1>2. CASE UNCHANGED mvars
  <2>1. StackInv'
    BY <1>2 DEF ModInv, StackInv, mvars
  <2> QED BY <1>2, <2>1, SameTable DEF ModInv, ModTypeOK, mvars
<1> QED BY <1>1, <1>2, LoadersKeepInv, BeginKeepsInv, AskKeepsInv, CallKeepsInv, ReturnKeepsInv,
           DoneKeepsInv, UnloadKeepsInv DEF ModNext

\* Hence it always holds.
LEMMA ModInvariance == ModSpec => []ModInv
BY InitModInv, NextModInv, PTL DEF ModSpec

-----------------------------------------------------------------------------
\* The table, the handles and the dispatches in progress are well typed,
\* whatever hooks load and unload.
THEOREM ModulesTypeCorrect == ModSpec => []ModTypeOK
BY ModInvariance, PTL DEF ModInv

(***************************************************************************)
(* Every module of the table has its object open, as often as it is        *)
(* listed, for any hooks that load and unload modules at any event, in the *)
(* middle of an unload too, and for any depth of nesting: UnloadModule     *)
(* splices the entry it finds by name and closes the object it was given,  *)
(* and these are of one module as long as every unload is asked for a      *)
(* module FindModule returns, and not during an unload of that name.       *)
(***************************************************************************)
THEOREM ObjectsStayOpen == ModSpec => []HandlesOpen
<1>1. ASSUME ModInv PROVE HandlesOpen
  <2>1. \A j \in 1..Len(modules.data) : modules.data[j] \in Module
    BY <1>1, ElementOfSeq DEF ModInv, ModTypeOK, Vectors
  <2>2. ASSUME NEW p \in Paths
        PROVE  {j \in 1..Len(modules.data) : modules.data[j].path = p} =
               Positions(modules.data, OfPath(p))
    BY <2>1 DEF Positions, OfPath
  <2> QED BY <1>1, <2>2 DEF HandlesOpen, ModInv, Sound, Counted
<1> QED BY <1>1, ModInvariance, PTL

\* A dispatch that ends has called every module of the table, those loaded by
\* hooks meanwhile included, unless a module was unloaded under it.
THEOREM DispatchReachesAll == ModSpec => []EveryModuleCalled
<1>1. ASSUME ModInv, Dispatched, ~Top.cut, NEW i \in 1..Len(modules.data)
      PROVE  modules.data[i] \in Top.called
  <2>1. Top \in Frames /\ Progress(modules.data, Top) /\ Top.idx > Len(modules.data)
    BY <1>1, TopIsWell DEF ModInv, Dispatched
  <2>2. Top.idx \in Nat /\ Len(modules.data) \in Nat
    BY <1>1, <2>1, LenProperties DEF Frames, ModInv, ModTypeOK, Vectors
  <2>3. i < Top.idx
    BY <2>1, <2>2
  <2> QED BY <1>1, <2>1, <2>3 DEF Progress
<1>2. ModInv => EveryModuleCalled
  BY <1>1 DEF EveryModuleCalled
<1> QED BY <1>2, ModInvariance, PTL

-----------------------------------------------------------------------------
(***************************************************************************)
(* InitializeModules, when the hooks of loads and of signals do not load   *)
(* or unload.  While it runs, nothing else is dispatched, and the table    *)
(* has what the blocks passed so far ask for.                              *)
(***************************************************************************)
Low(s) == \A i \in 1..Len(s) : s[i].type \in {"modload", "signal"}
OnlyLoads == next # 0 => Low(stack)
Restrained == Meddlers \intersect {"modload", "signal"} = {}
InitInv ==
    next # 0 /\ ~rehashed => /\ next - 1 \in 0..Len(moduleblocks)
                              /\ LoadedUpto(modules.data, moduleblocks, next - 1)

\* The blocks that can be loaded are finitely many, and one more block counts if
\* its module can be loaded.
LEMMA LoadableNext ==
    ASSUME NEW b, NEW n \in Nat
    PROVE  /\ IsFiniteSet(Loadable(b, n)) /\ Cardinality(Loadable(b, n)) \in Nat
           /\ IF Chosen(b[n + 1]) \in Declares
              THEN /\ Loadable(b, n + 1) = Loadable(b, n) \cup {n + 1}
                   /\ Cardinality(Loadable(b, n + 1)) = Cardinality(Loadable(b, n)) + 1
              ELSE Loadable(b, n + 1) = Loadable(b, n)
<1>1. IsFiniteSet(1..n) /\ Loadable(b, n) \in SUBSET (1..n)
  BY FS_Interval DEF Loadable
<1>2. IsFiniteSet(Loadable(b, n)) /\ Cardinality(Loadable(b, n)) \in Nat
  BY <1>1, FS_Subset, FS_CardinalityType
<1>3. 1..n + 1 = (1..n) \cup {n + 1} /\ n + 1 \notin 1..n
  OBVIOUS
<1>4. CASE Chosen(b[n + 1]) \in Declares
  <2>1. Loadable(b, n + 1) = Loadable(b, n) \cup {n + 1} /\ n + 1 \notin Loadable(b, n)
    BY <1>3, <1>4 DEF Loadable
  <2> QED BY <1>2, <1>4, <2>1, FS_AddElement
<1>5. CASE Chosen(b[n + 1]) \notin Declares
  <2>1. Loadable(b, n + 1) = Loadable(b, n)
    BY <1>3, <1>5 DEF Loadable
  <2> QED BY <1>2, <1>5, <2>1
<1> QED BY <1>4, <1>5

\* A block that can be loaded has a place among those of the first n.
LEMMA LoadablePlace ==
    ASSUME NEW b, NEW n \in Nat, NEW i \in Loadable(b, n)
    PROVE  Cardinality(Loadable(b, i)) \in 1..Cardinality(Loadable(b, n))
<1>1. i \in 1..n /\ i \in Nat /\ i \in Loadable(b, i)
  BY DEF Loadable
<1>2. Loadable(b, i) \in SUBSET Loadable(b, n)
  BY <1>1 DEF Loadable
<1>3. /\ IsFiniteSet(Loadable(b, n)) /\ IsFiniteSet(Loadable(b, i))
      /\ Cardinality(Loadable(b, i)) \in Nat /\ Cardinality(Loadable(b, n)) \in Nat
  BY <1>1, LoadableNext
<1>4. Cardinality(Loadable(b, i)) <= Cardinality(Loadable(b, n))
  BY <1>2, <1>3, FS_Subset
<1>5. Cardinality(Loadable(b, i)) # 0
  BY <1>1, <1>3, FS_EmptySet
<1> QED BY <1>3, <1>4, <1>5

\* The module that a load puts into the table.
LEMMA LoadedModule ==
    ASSUME loads \in 0..MaxLoads, NEW str \in Declares, NEW ok \in BOOLEAN, LoadModule(str, ok)
    PROVE  \E m \in Module : /\ m.path = str /\ modules' = vec_push(modules, m, ok)
                             /\ stack' = Append(stack, Frame("modload", m))
<1> DEFINE m == [path |-> str, id |-> loads + 1]
<1>1. str # NULL /\ str \notin Paths \ Declares /\ str \in Paths
  BY ModulesAssumption
<1>2. /\ loads < MaxLoads /\ modules' = vec_push(modules, m, ok)
      /\ stack' = Append(stack, Frame("modload", m))
  BY <1>1 DEF LoadModule
<1>3. loads + 1 \in 1..MaxLoads
  BY <1>2, ModulesAssumption
<1>4. m \in Module /\ m.path = str
  BY <1>1, <1>3 DEF Module
<1> QED BY <1>2, <1>4

\* The blocks InitializeModules goes through.
LEMMA BlocksTyped ==
    ASSUME ModInv
    PROVE  moduleblocks \in Seq([path : Paths \union {NULL}, name : Paths \union {NULL}])
<1>1. moduleblocks \in Configs \/ moduleblocks = <<>>
  BY DEF ModInv, ModTypeOK
<1> QED BY <1>1, ModulesAssumption, EmptySeq

\* The loop takes one block further what has been loaded.
LEMMA NextKeepsInit ==
    ASSUME ModInv, InitInv, NEW ok \in BOOLEAN, InitializeNext(ok)
    PROVE  InitInv'
<1> DEFINE n == next - 1
           b == moduleblocks
           d == modules.data
           str == Chosen(b[next])
<1>1. /\ next \in 1..Len(moduleblocks) /\ LoadModule(str, ok) /\ next' = next + 1
      /\ moduleblocks' = moduleblocks /\ rehashed' = rehashed
  BY DEF InitializeNext
<1>2. moduleblocks \in Seq([path : Paths \union {NULL}, name : Paths \union {NULL}])
  BY BlocksTyped
<1>3. Len(moduleblocks) \in Nat /\ next \in Nat /\ n \in Nat /\ n + 1 = next /\ next' - 1 = next
  BY <1>1, <1>2, LenProperties
<1>4. next' - 1 \in 0..Len(moduleblocks')
  BY <1>1, <1>3
<1>6. ASSUME ~rehashed PROVE LoadedUpto(modules'.data, b, next)
  <2>1. LoadedUpto(d, b, n)
    BY <1>1, <1>6 DEF InitInv
  <2>2. /\ IsFiniteSet(Loadable(b, n)) /\ Cardinality(Loadable(b, n)) \in Nat
        /\ IF str \in Declares
           THEN /\ Loadable(b, next) = Loadable(b, n) \cup {next}
                /\ Cardinality(Loadable(b, next)) = Cardinality(Loadable(b, n)) + 1
           ELSE Loadable(b, next) = Loadable(b, n)
    BY <1>3, LoadableNext
  <2>3. CASE str \notin Declares
    <3>1. modules' = modules
      BY <1>1, <2>3 DEF LoadModule, Unchanged
    <3> QED BY <2>1, <2>2, <2>3, <3>1 DEF LoadedUpto
  <2>4. CASE str \in Declares
    <3>1. PICK m \in Module : m.path = str /\ modules' = vec_push(modules, m, ok)
      BY <1>1, <2>4, LoadedModule DEF ModInv, ModTypeOK
    <3>2. modules \in Vectors(Module) /\ Fits(modules) /\ d \in Seq(Module)
      BY DEF ModInv, ModTypeOK, Vectors
    <3>3. modules'.data = Append(d, m)
      BY <3>1, <3>2, PushFits
    <3>4. /\ Len(Append(d, m)) = Len(d) + 1 /\ Append(d, m)[Len(d) + 1] = m
          /\ \A i \in 1..Len(d) : Append(d, m)[i] = d[i]
      BY <3>2, AppendProperties
    <3>5. Len(modules'.data) = Cardinality(Loadable(b, next))
      BY <2>1, <2>2, <2>4, <3>3, <3>4 DEF LoadedUpto
    <3>6. ASSUME NEW i \in Loadable(b, next)
          PROVE  modules'.data[Cardinality(Loadable(b, i))].path = Chosen(b[i])
      <4>1. CASE i = next
        BY <2>1, <2>2, <2>4, <3>1, <3>3, <3>4, <4>1 DEF LoadedUpto
      <4>2. CASE i # next
        <5>1. i \in Loadable(b, n)
          BY <2>2, <2>4, <4>2
        <5>2. Cardinality(Loadable(b, i)) \in 1..Len(d)
          BY <1>3, <2>1, <5>1, LoadablePlace DEF LoadedUpto
        <5> QED BY <2>1, <3>3, <3>4, <5>1, <5>2 DEF LoadedUpto
      <4> QED BY <4>1, <4>2
    <3> QED BY <3>5, <3>6 DEF LoadedUpto
  <2> QED BY <2>3, <2>4
<1> QED BY <1>1, <1>3, <1>4, <1>6 DEF InitInv

\* A dispatch of a load or of a signal goes on top, or the one on top goes on.
LEMMA LowPush ==
    ASSUME stack \in Seq(Frames), Low(stack), NEW type \in {"modload", "signal"},
           NEW m \in Module \union {NoModule}, stack' = Append(stack, Frame(type, m))
    PROVE  Low(stack')
<1> DEFINE f == Frame(type, m)
<1>1. f \in Frames /\ f.type = type
  BY DEF Frame, Frames, Events
<1> HIDE DEF f
<1>2. Len(stack) \in Nat
  BY LenProperties
<1>3. /\ Len(stack') = Len(stack) + 1 /\ stack'[Len(stack) + 1] = f
      /\ \A i \in 1..Len(stack) : stack'[i] = stack[i]
  BY <1>1, AppendProperties DEF f
<1>4. \A i \in 1..Len(stack') : i \in 1..Len(stack) \/ i = Len(stack) + 1
  BY <1>2, <1>3
<1> QED BY <1>1, <1>3, <1>4 DEF Low

\* While modules are initialized no other event is dispatched.
LEMMA NextOnlyLoads ==
    ASSUME Restrained, ModInv, OnlyLoads, [ModNext]_mvars
    PROVE  OnlyLoads'
<1> SUFFICES ASSUME next' # 0 PROVE Low(stack')
  BY DEF OnlyLoads
<1>1. stack \in Seq(Frames) /\ StackInv /\ Len(stack) \in Nat /\ loads \in 0..MaxLoads
  BY LenProperties DEF ModInv, StackInv, ModTypeOK
<1>2. CASE UNCHANGED <<next, stack>>
  BY <1>2 DEF OnlyLoads
<1>3. ASSUME NEW ok \in BOOLEAN, InitializeNext(ok) PROVE Low(stack')
  <2>1. stack = <<>> /\ LoadModule(Chosen(moduleblocks[next]), ok)
    BY <1>3 DEF InitializeNext
  <2>2. Low(stack)
    BY <2>1, EmptySeq DEF Low
  <2>3. CASE stack' = stack
    BY <2>2, <2>3
  <2>4. CASE Chosen(moduleblocks[next]) \in Declares
    BY <1>1, <2>1, <2>2, <2>4, LoadedModule, LowPush
  <2> QED BY <2>1, <2>3, <2>4 DEF LoadModule
<1>4. ASSUME NEW hup \in BOOLEAN, Signal(hup) PROVE Low(stack')
  <2>1. next' = next /\ stack' = Append(stack, Frame("signal", NoModule))
    BY <1>4 DEF Signal
  <2>2. Low(stack)
    BY <2>1 DEF OnlyLoads
  <2> QED BY <1>1, <2>1, <2>2, LowPush
<1>5. ASSUME next' = next, stack # <<>>
      PROVE  Low(stack) /\ Top \in Frames /\ Top.type \in {"modload", "signal"}
  <2>1. Low(stack)
    BY <1>5 DEF OnlyLoads
  <2>2. Top \in Frames /\ Len(stack) \in Nat \ {0} /\ Top = stack[Len(stack)]
    BY <1>1, <1>5, TopIsWell
  <2> QED BY <2>1, <2>2 DEF Low
<1>6. ASSUME next' = next, stack # <<>>, NEW f \in Frames, f.type = Top.type, SetTop(f)
      PROVE  Low(stack')
  <2>1. Low(stack) /\ f.type \in {"modload", "signal"}
    BY <1>5, <1>6
  <2>2. Len(stack) \in 1..Len(stack)
    BY <1>1, <1>6, EmptySeq
  <2>3. /\ Len(stack') = Len(stack)
        /\ \A i \in 1..Len(stack) : stack'[i] = IF i = Len(stack) THEN f ELSE stack[i]
    BY <1>1, <1>6, <2>2, ExceptSeq DEF SetTop
  <2> QED BY <2>1, <2>3 DEF Low
<1>7. CASE CallHook
  <2>1. /\ next' = next /\ stack # <<>> /\ Top.idx <= Len(modules.data)
        /\ LET m == modules.data[Top.idx]
           IN  SetTop([Top EXCEPT !.in = m, !.called = @ \union {m}])
    BY <1>7 DEF CallHook
  <2>2. Top \in Frames
    BY <1>5, <2>1
  <2>3. modules.data[Top.idx] \in Module
    <3>1. modules.data \in Seq(Module) /\ Len(modules.data) \in Nat
      BY LenProperties DEF ModInv, ModTypeOK, Vectors
    <3>2. Top.idx \in 1..Len(modules.data)
      BY <2>1, <2>2, <3>1 DEF Frames
    <3> QED BY <3>1, <3>2, ElementOfSeq
  <2> DEFINE f == [Top EXCEPT !.in = modules.data[Top.idx], !.called = @ \union {modules.data[Top.idx]}]
  <2>4. f \in Frames /\ f.type = Top.type
    BY <2>2, <2>3 DEF Frames
  <2>5. SetTop(f)
    BY <2>1
  <2> HIDE DEF f
  <2> QED BY <1>6, <2>1, <2>4, <2>5
<1>8. CASE HookReturns
  <2> DEFINE f == [Top EXCEPT !.in = NoModule, !.idx = @ + 1]
  <2>1. next' = next /\ stack # <<>> /\ SetTop(f)
    BY <1>8 DEF HookReturns, InHook
  <2>2. Top \in Frames
    BY <1>5, <2>1
  <2>3. Top.idx + 1 \in Nat \ {0}
    BY <2>2 DEF Frames
  <2>4. f \in Frames /\ f.type = Top.type
    BY <2>2, <2>3 DEF Frames
  <2> HIDE DEF f
  <2> QED BY <1>6, <2>1, <2>4
<1>9. CASE EventDone
  <2>1. next' = next /\ stack # <<>> /\ stack' = Pop
    BY <1>9 DEF EventDone, Dispatched
  <2>2. Low(stack) /\ Len(Pop) = Len(stack) - 1
        /\ \A i \in 1..Len(stack) - 1 : Pop[i] = stack[i] /\ i \in 1..Len(stack)
    BY <1>1, <1>5, <2>1, PopProperties
  <2> QED BY <2>1, <2>2 DEF Low
<1>10. ASSUME \/ \E p \in Paths, ok \in BOOLEAN : HookLoads(p, ok)
              \/ \E m \in Module : HookUnloads(m)
              \/ UnloadModule
       PROVE  FALSE
  <2>1. next' = next /\ stack # <<>> /\ Top.type \in Meddlers \union {"modunload"}
    BY <1>10 DEF HookLoads, HookUnloads, UnloadModule, Meddles, InHook, Dispatched
  <2> QED BY <1>5, <2>1 DEF Restrained
<1>11. ~OtherEvent /\ ~InitializeModulesDone
  BY DEF OtherEvent, InitializeModulesDone
<1> QED BY <1>2, <1>3, <1>4, <1>7, <1>8, <1>9, <1>10, <1>11 DEF ModNext, mvars

\* The steps besides the loop's own leave the table alone while it runs, or are
\* a SIGHUP.
LEMMA NextInitInv ==
    ASSUME Restrained, ModInv, OnlyLoads, InitInv, [ModNext]_mvars
    PROVE  InitInv'
<1>1. ASSUME NEW ok \in BOOLEAN, InitializeNext(ok) PROVE InitInv'
  BY <1>1, NextKeepsInit
<1>2. CASE UNCHANGED <<modules, moduleblocks, next, rehashed>>
  BY <1>2 DEF InitInv, LoadedUpto, Loadable
<1>3. CASE next' = 0 \/ rehashed'
  BY <1>3 DEF InitInv
<1>4. CASE ~(next' = 0 \/ rehashed')
  <2>1. ASSUME NEW hup \in BOOLEAN, Signal(hup)
        PROVE  UNCHANGED <<modules, moduleblocks, next, rehashed>>
    <3>1. hup = FALSE /\ rehashed \in BOOLEAN
      BY <1>4, <2>1 DEF Signal, ModInv, ModTypeOK
    <3> QED BY <1>4, <2>1, <3>1 DEF Signal
  <2>2. ASSUME \/ \E p \in Paths, ok \in BOOLEAN : HookLoads(p, ok)
               \/ UnloadModule
        PROVE  FALSE
    <3>1. next' = next /\ stack # <<>> /\ Top.type \in Meddlers \union {"modunload"}
      BY <2>2 DEF HookLoads, UnloadModule, Meddles, InHook, Dispatched
    <3>2. Low(stack) /\ Len(stack) \in Nat \ {0} /\ Top = stack[Len(stack)]
      BY <1>4, <3>1, TopIsWell DEF OnlyLoads, ModInv
    <3> QED BY <3>1, <3>2 DEF Low, Restrained
  <2>3. ~InitializeModulesDone
    BY <1>4 DEF InitializeModulesDone
  <2>4. OtherEvent \/ CallHook \/ HookReturns \/ EventDone \/ (\E m \in Module : HookUnloads(m))
        \/ UNCHANGED mvars => UNCHANGED <<modules, moduleblocks, next, rehashed>>
    BY DEF OtherEvent, CallHook, HookReturns, EventDone, HookUnloads, mvars
  <2> QED BY <1>1, <1>2, <2>1, <2>2, <2>3, <2>4 DEF ModNext
<1> QED BY <1>3, <1>4

\* When InitializeModules returns, the table holds the configured modules that
\* can be loaded and nothing else, in the order of their blocks, whatever events
\* the loads and the signals meanwhile have sent, unless a SIGHUP was among them;
\* if the hooks of these two kinds of events do not load or unload themselves.
THEOREM ConfiguredAreLoaded ==
    ASSUME Meddlers \intersect {"modload", "signal"} = {}
    PROVE  ModSpec => ConfiguredLoaded
<1>1. ModInit => OnlyLoads /\ InitInv
  <2> SUFFICES ASSUME ModInit PROVE OnlyLoads /\ InitInv
    OBVIOUS
  <2>1. OnlyLoads
    BY EmptySeq DEF ModInit, OnlyLoads, Low
  <2>2. /\ moduleblocks \in Seq([path : Paths \union {NULL}, name : Paths \union {NULL}])
        /\ next = 1 /\ modules.data = <<>>
    BY ModulesAssumption DEF ModInit, vec_init
  <2>3. Len(moduleblocks) \in Nat /\ 1 - 1 = 0
    BY <2>2, LenProperties
  <2>4. Loadable(moduleblocks, 0) = {}
    BY DEF Loadable
  <2>5. LoadedUpto(modules.data, moduleblocks, 0)
    BY <2>2, <2>4, EmptySeq, FS_EmptySet DEF LoadedUpto
  <2> QED BY <2>1, <2>2, <2>3, <2>5 DEF InitInv
<1>2. ASSUME ModInv, OnlyLoads, InitInv, [ModNext]_mvars
      PROVE  [next # 0 /\ next' = 0 /\ ~rehashed =>
                LoadedUpto(modules.data, moduleblocks, Len(moduleblocks))]_mvars
  <2> SUFFICES ASSUME next # 0, next' = 0, ~rehashed, ~UNCHANGED mvars
               PROVE  LoadedUpto(modules.data, moduleblocks, Len(moduleblocks))
    OBVIOUS
  <2>1. next \in Nat /\ Len(moduleblocks) \in Nat
    <3>1. moduleblocks \in Seq([path : Paths \union {NULL}, name : Paths \union {NULL}])
      BY <1>2, BlocksTyped
    <3> QED BY <1>2, <3>1, LenProperties DEF ModInv, ModTypeOK
  <2>2. \A ok \in BOOLEAN : ~InitializeNext(ok)
    BY <2>1 DEF InitializeNext
  <2>3. InitializeModulesDone
    BY <1>2, <2>2 DEF ModNext, OtherEvent, Signal, CallHook, HookReturns, HookLoads, HookUnloads,
                EventDone, UnloadModule
  <2>4. next > Len(moduleblocks)
    BY <2>3 DEF InitializeModulesDone
  <2>5. next - 1 \in 0..Len(moduleblocks) /\ LoadedUpto(modules.data, moduleblocks, next - 1)
    BY <1>2 DEF InitInv
  <2>6. next - 1 = Len(moduleblocks)
    BY <2>1, <2>4, <2>5
  <2> QED BY <2>5, <2>6
<1>3. ModInv /\ OnlyLoads /\ InitInv /\ [ModNext]_mvars => OnlyLoads' /\ InitInv'
  BY NextOnlyLoads, NextInitInv DEF Restrained
<1> QED BY <1>1, <1>2, <1>3, ModInvariance, PTL DEF ModSpec, ConfiguredLoaded

=============================================================================

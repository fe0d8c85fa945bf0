-------------------------------- MODULE Vec ---------------------------------
(***************************************************************************)
(* The growing vectors every pool and queue of nbstftp is kept in (vec.h,  *)
(* vec.c).  A vector is its elements, the capacity it believes to have and *)
(* the number of elements the memory block behind it can hold.  ok says    *)
(* whether the allocator gives the memory an operation asks for.           *)
(***************************************************************************)
EXTENDS Integers, Sequences

CONSTANT MinCapacity    \* VEC_MIN_CAPACITY, 4 in the code

ASSUME MinCapacityAssumption == MinCapacity \in Nat \ {0}

Vectors(S) == [data : Seq(S), capacity : Nat, block : Nat]

vec_init == [data |-> <<>>, capacity |-> 0, block |-> 0]

\* capacity is set before reallocarray is asked, and stays when it refuses.
Resize(v, n, ok) == [v EXCEPT !.capacity = n, !.block = IF ok THEN n ELSE @]

\* Mutant: the vector is one short.
vec_expand_late(v, ok) ==
    IF Len(v.data) <= v.capacity THEN v
    ELSE Resize(v, IF v.capacity = 0 THEN MinCapacity ELSE 2 * v.capacity, ok)

vec_expand(v, ok) ==
    IF Len(v.data) + 1 <= v.capacity THEN v
    ELSE Resize(v, IF v.capacity = 0 THEN MinCapacity ELSE 2 * v.capacity, ok)

vec_reserve(v, n, ok) == IF n > v.capacity THEN Resize(v, n, ok) ELSE v

vec_compact(v, ok) == IF v.data = <<>> THEN vec_init ELSE Resize(v, Len(v.data), ok)

\* The element is stored whether or not there is room for it.
vec_push(v, x, ok) == [vec_expand(v, ok) EXCEPT !.data = Append(@, x)]

vec_pop(v) == [v EXCEPT !.data = SubSeq(@, 1, Len(@) - 1)]

\* start counts from 0.
vec_splice(v, start, count) ==
    [v EXCEPT !.data = SubSeq(@, 1, start) \o SubSeq(@, start + count + 1, Len(@))]

\* Whether errno says ENOMEM once vec_expand has returned; enomem is what it said
\* before, since nothing in vec.c clears it.
Refused(v, ok, enomem) == enomem \/ (Len(v.data) + 1 > v.capacity /\ ~ok)

\* The elements from idx on move up, unless errno says ENOMEM: then the first
\* of them is overwritten, and what lies behind the last becomes an element.
vec_insert(v, idx, x, ok, enomem, behind) ==
    [vec_expand(v, ok) EXCEPT !.data =
        IF Refused(v, ok, enomem) THEN [Append(@, behind) EXCEPT ![idx + 1] = x]
        ELSE SubSeq(@, 1, idx) \o <<x>> \o SubSeq(@, idx + 1, Len(@))]

\* The cell behind the last element is the temporary.
vec_swap(v, i, j, ok, enomem) ==
    [vec_expand(v, ok) EXCEPT !.data =
        IF Refused(v, ok, enomem) THEN @
        ELSE [@ EXCEPT ![i + 1] = v.data[j + 1], ![j + 1] = v.data[i + 1]]]

\* A vector of fewer than two elements is not touched.
vec_reverse(v, ok, enomem) ==
    IF Len(v.data) < 2 THEN v
    ELSE [vec_expand(v, ok) EXCEPT !.data =
            IF Refused(v, ok, enomem) THEN @
            ELSE [k \in DOMAIN @ |-> @[Len(@) + 1 - k]]]

vec_truncate(v, n) == [v EXCEPT !.data = IF n < Len(@) THEN SubSeq(@, 1, n) ELSE @]

vec_clear(v) == [v EXCEPT !.data = <<>>]

\* The elements are within the block.
Within(v) == Len(v.data) <= v.block

\* The vector knows what it has.
Honest(v) == Len(v.data) <= v.capacity /\ v.capacity <= v.block

=============================================================================

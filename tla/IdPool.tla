------------------------------- MODULE IdPool -------------------------------
(***************************************************************************)
(* An ID pool (rust/src/id_pool.rs) and the bitmap behind it               *)
(* (rust/src/bitmap.rs), in a spinlock that several threads share.         *)
(*                                                                         *)
(* A call on the pool is one step, under the lock.  The bitmap a pool is   *)
(* to move into is allocated without the lock: a thread asks for a size    *)
(* (grow_request, shrink_request), allocates (realloc) and comes back with *)
(* a resizer (grow, shrink), which may have been overtaken by then.        *)
(***************************************************************************)
EXTENDS Integers, FiniteSets, FiniteSetsExt

CONSTANTS
    Users,          \* the threads
    InlineLen,      \* BitmapVec::MAX_INLINE_LEN
    MaxLen,         \* BitmapVec::MAX_LEN
    Capacities,     \* arguments of with_capacity
    Offsets,        \* arguments of find_unused_id
    MaxIds          \* bound on the IDs in use at once

ASSUME LenAssumption ==
    /\ MaxLen \in Nat /\ InlineLen \in 1..MaxLen
    /\ Capacities \subseteq 0..MaxLen /\ Offsets \subseteq Nat
    /\ IsFiniteSet(Users)

VARIABLES
    map,        \* the pool's BitmapVec, or NoMap while there is no pool
    ids,        \* per thread, the IDs it has acquired and not released
    job,        \* per thread, the resizing it is in the middle of
    arrays      \* the number of arrays bitmap_zalloc gave and nobody freed

poolVars == <<map, ids, job, arrays>>

Bitmap(n, bits) == [nbits |-> n, bits |-> bits]
NoMap == Bitmap(0, {})
NoJob == [what |-> "none", num_ids |-> 0, allocated |-> FALSE]

PoolTypeOK ==
    /\ \/ map = NoMap
       \/ map.nbits \in InlineLen..MaxLen /\ map.bits \subseteq 0 .. map.nbits - 1
    /\ ids \in [Users -> SUBSET (0 .. MaxLen - 1)]
    /\ \A t \in Users :
         \/ job[t] = NoJob
         \/ /\ job[t].what \in {"grow", "shrink"}
            /\ job[t].num_ids \in InlineLen..MaxLen /\ job[t].allocated \in BOOLEAN
    /\ arrays \in 0 .. Cardinality(Users) + 1

PoolInit == map = NoMap /\ ids = [t \in Users |-> {}] /\ job = [t \in Users |-> NoJob] /\ arrays = 0

-----------------------------------------------------------------------------
(* Bitmaps.                                                                *)

\* A short bitmap is kept in place of the pointer (BitmapRepr).
Array(n) == IF n <= InlineLen THEN 0 ELSE 1

\* BitmapVec::new, which gives a bitmap of n zeroes, can fail with AllocError.
MayFail(n) == n > InlineLen

set_bit(b, i) == IF i < b.nbits THEN [b EXCEPT !.bits = @ \cup {i}] ELSE b
clear_bit(b, i) == IF i < b.nbits THEN [b EXCEPT !.bits = @ \ {i}] ELSE b

\* The bits of src that fit into dst; the others of dst are cleared.
copy_and_extend(dst, src) ==
    Bitmap(dst.nbits, src.bits \cap (0 .. Min({src.nbits, dst.nbits}) - 1))

LastBit(b) == Max(b.bits)
NextZeroBits(b, start) == (start .. b.nbits - 1) \ b.bits

-----------------------------------------------------------------------------
(* The pool.                                                               *)

capacity == map.nbits

InUse == UNION {ids[t] : t \in Users}

\* IdPool::new (no argument to round up) and with_capacity.
NewPool(n) ==
    LET num_ids == Max({n, InlineLen}) IN
    /\ map = NoMap
    /\ map' = Bitmap(num_ids, {})
    /\ arrays' = arrays + Array(num_ids)
    /\ UNCHANGED <<ids, job>>

\* The last user drops the pool, and with it its bitmap; IDs mean nothing then.
DropPool ==
    /\ map # NoMap /\ \A t \in Users : job[t] = NoJob
    /\ map' = NoMap
    /\ arrays' = arrays - Array(capacity)
    /\ ids' = [t \in Users |-> {}]
    /\ UNCHANGED job

\* find_unused_id(offset) and UnusedId::acquire: the borrow of the pool by the
\* UnusedId keeps the lock's guard in use, so nothing comes between.
Acquire(t, offset) ==
    /\ map # NoMap /\ Cardinality(InUse) < MaxIds
    /\ NextZeroBits(map, offset) # {}
    /\ LET id == Min(NextZeroBits(map, offset)) IN
         /\ map' = set_bit(map, id)
         /\ ids' = [ids EXCEPT ![t] = @ \cup {id}]
    /\ UNCHANGED <<job, arrays>>

ReleaseId(t, id) ==
    /\ id \in ids[t]
    /\ map' = clear_bit(map, id)
    /\ ids' = [ids EXCEPT ![t] = @ \ {id}]
    /\ UNCHANGED <<job, arrays>>

Request(t, what, n) ==
    /\ map # NoMap /\ job[t] = NoJob
    /\ job' = [job EXCEPT ![t] = [what |-> what, num_ids |-> n, allocated |-> FALSE]]
    /\ UNCHANGED <<map, ids, arrays>>

GrowRequest(t) == capacity * 2 <= MaxLen /\ Request(t, "grow", capacity * 2)

\* shrink_request: the sizes it answers, one or (None) no one.
shrink_request ==
    IF capacity <= InlineLen \/ (map.bits # {} /\ LastBit(map) >= capacity \div 4) THEN {}
    ELSE {IF map.bits = {} THEN InlineLen ELSE Max({InlineLen, capacity \div 2})}

ShrinkRequest(t) == \E n \in shrink_request : Request(t, "shrink", n)

\* ReallocRequest::realloc, without the lock.
Realloc(t) ==
    /\ job[t] # NoJob /\ ~job[t].allocated
    /\ \/ /\ job' = [job EXCEPT ![t].allocated = TRUE]
          /\ arrays' = arrays + Array(job[t].num_ids)
       \/ /\ MayFail(job[t].num_ids)
          /\ job' = [job EXCEPT ![t] = NoJob]
          /\ UNCHANGED arrays
    /\ UNCHANGED <<map, ids>>

Resizer(t) == Bitmap(job[t].num_ids, {})

\* The pool moves into the resizer's bitmap and frees its own, or the resizer's
\* is freed; either way the resizer is consumed.
MoveIf(t, possible) ==
    /\ map' = IF possible THEN copy_and_extend(Resizer(t), map) ELSE map
    /\ arrays' = arrays - Array(IF possible THEN capacity ELSE job[t].num_ids)
    /\ job' = [job EXCEPT ![t] = NoJob]
    /\ UNCHANGED ids

Grow(t) ==
    /\ job[t].what = "grow" /\ job[t].allocated
    /\ MoveIf(t, job[t].num_ids > capacity)

\* Mutant: the request is not made again under the lock.
Shrink_Unverified(t) ==
    /\ job[t].what = "shrink" /\ job[t].allocated
    /\ MoveIf(t, TRUE)

Shrink(t) ==
    /\ job[t].what = "shrink" /\ job[t].allocated
    /\ MoveIf(t, \E n \in shrink_request : n <= job[t].num_ids)

PoolIdle == map = NoMap

PoolStep ==
    \/ \E n \in Capacities : NewPool(n)
    \/ DropPool
    \/ \E t \in Users :
         \/ \E offset \in Offsets : Acquire(t, offset)
         \/ \E id \in ids[t] : ReleaseId(t, id)
         \/ GrowRequest(t) \/ ShrinkRequest(t) \/ Realloc(t) \/ Grow(t) \/ Shrink(t)

-----------------------------------------------------------------------------
(* Properties.                                                             *)

\* However grows and shrinks overtake each other between their request and their
\* resizer, an acquired ID stays inside the bitmap, belongs to one thread and is
\* never found unused, and a released one is never lost.
IdsExact ==
    /\ \A t, u \in Users : t # u => ids[t] \cap ids[u] = {}
    /\ map.bits = InUse

\* Every array is the pool's or a resizer's, and freed with it.
ArraysExact ==
    arrays = Array(capacity)
             + Cardinality({t \in Users : job[t].allocated /\ job[t].num_ids > InlineLen})
=============================================================================

-------------------------------- MODULE KVec --------------------------------
(***************************************************************************)
(* Vec of rust/src/alloc/kvec.rs, with its iterators IntoIter and DrainAll *)
(* and the allocator behind it: which slots of the buffer hold a value,    *)
(* who owns every value, and whether the layout a Vec passes to the        *)
(* allocator is the one of its allocation.  Calls are atomic, but for the  *)
(* iterators and retain, between whose steps the caller's code runs.       *)
(***************************************************************************)
EXTENDS Integers, Sequences, FiniteSets

CONSTANTS
    Elems,      \* values of type T; each is created, moved and dropped
    Sizes,      \* size_of::<T>() of the instances of Vec
    UsizeMax,   \* usize::MAX
    IsizeMax,   \* isize::MAX
    MaxSlice,   \* bound: the longest slice or array the caller gives
    None,       \* None, and a slot without a value
    Err         \* an error that was returned

ASSUME WidthAssumption == IsizeMax \in Nat /\ UsizeMax = 2 * IsizeMax + 1
ASSUME SizesAssumption == Sizes \subseteq Nat /\ MaxSlice \in 0..UsizeMax
ASSUME NoneAssumption == None \notin Elems

VARIABLES
    size,       \* size_of::<T>()
    pc,         \* what there is: a Vec, a running retain, an iterator, raw parts
    mem,        \* mem[i]: the value in slot i of the buffer
    alloc,      \* slots of the allocation, 0 if there is none
    layout,     \* ArrayLayout::len
    len,        \* Vec::len
    ptr, left,  \* IntoIter or DrainAll: the slots passed, the values left
    kept, check,\* num_kept and next_to_check of retain
    own,        \* own[e]: who owns the value e, "none" if there is no such value
    op          \* the last call and what it returned

buffer == <<mem, alloc, layout>>
locals == <<ptr, left, kept, check>>
vars == <<size, pc, mem, alloc, layout, len, ptr, left, kept, check, own, op>>

Slots == 1..UsizeMax
Usize == 0..UsizeMax
Empty == [i \in Slots |-> None]

Init ==
    /\ size \in Sizes
    /\ pc = "none"
    /\ mem = Empty /\ alloc = 0 /\ layout = 0 /\ len = 0
    /\ ptr = 0 /\ left = 0 /\ kept = 0 /\ check = 0
    /\ own = [e \in Elems |-> "none"]
    /\ op = <<"start", None>>

TypeOK ==
    /\ size \in Sizes
    /\ pc \in {"none", "vec", "raw", "retain", "drain", "iter"}
    /\ mem \in [Slots -> Elems \cup {None}]
    /\ alloc \in Nat /\ layout \in Nat /\ len \in Nat
    /\ ptr \in Nat /\ left \in Nat /\ kept \in Nat /\ check \in Nat
    /\ own \in [Elems -> {"none", "caller", "vec", "leaked"}]

-----------------------------------------------------------------------------
(* Values and slots.                                                       *)

\* The sequences of n different values that o owns.
Values(o, n) ==
    {s \in [1..n -> {e \in Elems : own[e] = o}] : \A i, j \in 1..n : s[i] = s[j] => i = j}

\* The values in S get the owner o.
Give(S, o) == own' = [e \in Elems |-> IF e \in S THEN o ELSE own[e]]

\* The values in slots a + 1 .. b.
In(a, b) == {mem[i] : i \in (a + 1)..b}

\* ptr::write of the values of s, from slot a + 1 on.
Write(s, a) == [i \in Slots |-> IF i \in (a + 1)..(a + Len(s)) THEN s[i - a] ELSE mem[i]]

\* The values in slots a + 1 .. b are moved out or dropped.
Vacate(a, b) == [i \in Slots |-> IF i \in (a + 1)..b THEN None ELSE mem[i]]

\* ptr::copy of n slots.
Copy(from, to, n) == [i \in Slots |-> IF i \in (to + 1)..(to + n) THEN mem[i - to + from] ELSE mem[i]]

-----------------------------------------------------------------------------
(* Capacity and allocation.                                                *)

Capacity == IF size = 0 THEN UsizeMax ELSE layout

\* ArrayLayout::new.
LayoutNew(n) == n * size <= IsizeMax

\* ReallocFunc::call succeeds: the allocation is null if the old layout is
\* empty, and a new size of 0 frees it.
Realloc(new, old) ==
    alloc' = IF new * size > 0 THEN new
             ELSE IF old * size > 0 THEN 0 ELSE alloc

Fits(n) == Capacity - len >= n

NewCap(n) ==
    LET double == (2 * Capacity) % (UsizeMax + 1)
    IN  IF double > len + n THEN double ELSE len + n

\* reserve returns Ok.
ReserveOk(n) ==
    \/ Fits(n) /\ UNCHANGED <<alloc, layout>>
    \/ /\ ~Fits(n)
       /\ size # 0
       /\ len + n <= UsizeMax
       /\ LayoutNew(NewCap(n))
       /\ Realloc(NewCap(n), layout)
       /\ layout' = NewCap(n)

\* reserve returns AllocError: for a ZST, a capacity too large, or without memory.
ReserveErr(n) == ~Fits(n) /\ UNCHANGED <<alloc, layout>>

Return(name, result) == op' = <<name, result>>

-----------------------------------------------------------------------------
(* The caller's values.                                                    *)

Idle == pc \in {"none", "vec"}

Create(e) ==
    /\ Idle
    /\ own[e] = "none"
    /\ Give({e}, "caller")
    /\ UNCHANGED <<size, pc, buffer, len, locals, op>>

DropValue(e) ==
    /\ Idle
    /\ own[e] = "caller"
    /\ Give({e}, "none")
    /\ UNCHANGED <<size, pc, buffer, len, locals, op>>

-----------------------------------------------------------------------------
(* Making a Vec.                                                           *)

\* new is with_capacity(0), which reserves nothing.
WithCapacity(n) ==
    /\ pc = "none"
    /\ \/ ReserveOk(n) /\ pc' = "vec" /\ Return("with_capacity", n)
       \/ ReserveErr(n) /\ pc' = pc /\ Return("with_capacity", Err)
    /\ UNCHANGED <<size, mem, len, locals, own>>

\* extend_with writes n - 1 clones and then the value itself; without n or
\* without memory the value is dropped.
Clones(n, v) == {Append(s, v) : s \in Values("none", n - 1)}

ExtendOk(n, v) ==
    IF n = 0
    THEN Give({v}, "none") /\ UNCHANGED <<buffer, len>>
    ELSE /\ ReserveOk(n)
         /\ \E s \in Clones(n, v) :
               /\ mem' = Write(s, len)
               /\ Give({s[i] : i \in 1..n}, "vec")
         /\ len' = len + n

ExtendErr(n, v) == n # 0 /\ ReserveErr(n) /\ Give({v}, "none") /\ UNCHANGED <<mem, len>>

\* with_capacity and extend_with.
FromElem(n, v) ==
    /\ pc = "none"
    /\ own[v] = "caller"
    /\ \/ ExtendOk(n, v) /\ pc' = "vec" /\ Return("from_elem", v)
       \/ ExtendErr(n, v) /\ pc' = pc /\ Return("from_elem", Err)
    /\ UNCHANGED <<size, locals>>

\* From<Box<[T; N]>>, which kvec! uses.
FromBox(s) ==
    /\ pc = "none"
    /\ LayoutNew(Len(s))
    /\ pc' = "vec"
    /\ mem' = Write(s, 0)
    /\ Realloc(Len(s), 0)
    /\ layout' = IF size = 0 THEN 0 ELSE Len(s)
    /\ len' = Len(s)
    /\ Give({s[i] : i \in DOMAIN s}, "vec")
    /\ Return("from_box", s)
    /\ UNCHANGED <<size, locals>>

-----------------------------------------------------------------------------
(* Calls on a Vec.                                                         *)

Reserve(n) ==
    /\ pc = "vec"
    /\ \/ ReserveOk(n) /\ Return("reserve", n)
       \/ ReserveErr(n) /\ Return("reserve", Err)
    /\ UNCHANGED <<size, pc, mem, len, locals, own>>

\* push_within_capacity_unchecked.
PushUnchecked(v) ==
    /\ mem' = Write(<<v>>, len)
    /\ len' = len + 1
    /\ Give({v}, "vec")

Push(v) ==
    /\ pc = "vec"
    /\ own[v] = "caller"
    /\ \/ ReserveOk(1) /\ PushUnchecked(v) /\ Return("push", v)
       \/ ReserveErr(1) /\ Give({v}, "none") /\ UNCHANGED <<mem, len>> /\ Return("push", Err)
    /\ UNCHANGED <<size, pc, locals>>

\* The value goes back to the caller in PushError.
PushWithinCapacity(v) ==
    /\ pc = "vec"
    /\ own[v] = "caller"
    /\ \/ len < Capacity /\ PushUnchecked(v) /\ Return("push_within_capacity", v)
       \/ len >= Capacity /\ UNCHANGED <<mem, len, own>> /\ Return("push_within_capacity", Err)
    /\ UNCHANGED <<size, pc, alloc, layout, locals>>

InsertWithinCapacity(index, v) ==
    /\ pc = "vec"
    /\ own[v] = "caller"
    /\ IF index <= len /\ len < Capacity
       THEN /\ mem' = [Copy(index, index + 1, len - index) EXCEPT ![index + 1] = v]
            /\ len' = len + 1
            /\ Give({v}, "vec")
            /\ Return("insert", index)
       ELSE UNCHANGED <<mem, len, own>> /\ Return("insert", Err)
    /\ UNCHANGED <<size, pc, alloc, layout, locals>>

Pop ==
    /\ pc = "vec"
    /\ IF len = 0
       THEN UNCHANGED <<mem, len, own>> /\ Return("pop", None)
       ELSE /\ mem' = Vacate(len - 1, len)
            /\ len' = len - 1
            /\ Give({mem[len]}, "caller")
            /\ Return("pop", mem[len])
    /\ UNCHANGED <<size, pc, alloc, layout, locals>>

Remove(i) ==
    /\ pc = "vec"
    /\ IF i >= len
       THEN UNCHANGED <<mem, len, own>> /\ Return("remove", Err)
       ELSE /\ mem' = [Copy(i + 1, i, len - i - 1) EXCEPT ![len] = None]
            /\ len' = len - 1
            /\ Give({mem[i + 1]}, "caller")
            /\ Return("remove", mem[i + 1])
    /\ UNCHANGED <<size, pc, alloc, layout, locals>>

\* truncate to n, when n is not larger than len.
Shorten(n) ==
    /\ mem' = Vacate(n, len)
    /\ len' = n
    /\ Give(In(n, len), "none")

\* truncate; clear is truncate(0).
Truncate(n) ==
    /\ pc = "vec"
    /\ IF n <= len THEN Shorten(n) ELSE UNCHANGED <<mem, len, own>>
    /\ Return("truncate", n)
    /\ UNCHANGED <<size, pc, alloc, layout, locals>>

ExtendWith(n, v) ==
    /\ pc = "vec"
    /\ own[v] = "caller"
    /\ \/ ExtendOk(n, v) /\ Return("extend_with", v)
       \/ ExtendErr(n, v) /\ Return("extend_with", Err)
    /\ UNCHANGED <<size, pc, locals>>

\* The elements of the slice are cloned.
ExtendFromSlice(n) ==
    /\ pc = "vec"
    /\ \/ /\ ReserveOk(n)
          /\ \E s \in Values("none", n) :
                mem' = Write(s, len) /\ Give({s[i] : i \in 1..n}, "vec")
          /\ len' = len + n
          /\ Return("extend_from_slice", n)
       \/ ReserveErr(n) /\ UNCHANGED <<mem, len, own>> /\ Return("extend_from_slice", Err)
    /\ UNCHANGED <<size, pc, locals>>

\* resize drops the value when it shortens.
Resize(n, v) ==
    /\ pc = "vec"
    /\ own[v] = "caller"
    /\ IF n >= len
       THEN \/ ExtendOk(n - len, v) /\ Return("resize", v)
            \/ ExtendErr(n - len, v) /\ Return("resize", Err)
       ELSE /\ mem' = Vacate(n, len)
            /\ len' = n
            /\ Give(In(n, len) \cup {v}, "none")
            /\ Return("resize", v)
            /\ UNCHANGED <<alloc, layout>>
    /\ UNCHANGED <<size, pc, locals>>

\* The destructor: the values, then the allocation.
DropVec ==
    /\ pc = "vec"
    /\ pc' = "none"
    /\ Shorten(0)
    /\ Realloc(0, layout)
    /\ layout' = 0
    /\ Return("drop", None)
    /\ UNCHANGED <<size, locals>>

\* into_raw_parts, and from_raw_parts with what it returned.
IntoRawParts ==
    /\ pc = "vec"
    /\ pc' = "raw"
    /\ Return("into_raw_parts", len)
    /\ UNCHANGED <<size, buffer, len, locals, own>>

FromRawParts ==
    /\ pc = "raw"
    /\ pc' = "vec"
    /\ layout' = IF size = 0 THEN 0 ELSE Capacity
    /\ Return("from_raw_parts", len)
    /\ UNCHANGED <<size, mem, alloc, len, locals, own>>

-----------------------------------------------------------------------------
(* retain.                                                                 *)

RetainStart ==
    /\ pc = "vec"
    /\ pc' = "retain"
    /\ kept' = 0 /\ check' = 0
    /\ Return("retain", None)
    /\ UNCHANGED <<size, buffer, len, ptr, left, own>>

\* Mutant: the values to keep are counted but not moved.
Swap_Nothing(i, j) == mem

\* self.swap of two slots, counted from 0.
Swap(i, j) == [mem EXCEPT ![i + 1] = mem[j + 1], ![j + 1] = mem[i + 1]]

\* f returned yes for the value at next_to_check.
RetainCheck(yes) ==
    /\ pc = "retain"
    /\ check < len
    /\ mem' = IF yes THEN Swap(kept, check) ELSE mem
    /\ kept' = IF yes THEN kept + 1 ELSE kept
    /\ check' = check + 1
    /\ Return("check", yes)
    /\ UNCHANGED <<size, pc, alloc, layout, len, ptr, left, own>>

RetainDone ==
    /\ pc = "retain"
    /\ check >= len
    /\ pc' = "vec"
    /\ Shorten(kept)
    /\ kept' = 0 /\ check' = 0
    /\ Return("retained", None)
    /\ UNCHANGED <<size, alloc, layout, ptr, left>>

-----------------------------------------------------------------------------
(* DrainAll and IntoIter.                                                  *)

\* Mutant: the length is only set when the iterator is dropped.
DrainAll_LenKept ==
    /\ pc = "vec"
    /\ pc' = "drain"
    /\ ptr' = 0 /\ left' = len /\ len' = len
    /\ Return("drain_all", None)
    /\ UNCHANGED <<size, buffer, kept, check, own>>

DrainAll ==
    /\ pc = "vec"
    /\ pc' = "drain"
    /\ ptr' = 0 /\ left' = len /\ len' = 0
    /\ Return("drain_all", None)
    /\ UNCHANGED <<size, buffer, kept, check, own>>

IntoIter ==
    /\ pc = "vec"
    /\ pc' = "iter"
    /\ ptr' = 0 /\ left' = len /\ len' = 0
    /\ Return("into_iter", None)
    /\ UNCHANGED <<size, buffer, kept, check, own>>

\* next of both.
IterNext ==
    /\ pc \in {"drain", "iter"}
    /\ IF left = 0
       THEN UNCHANGED <<mem, ptr, left, own>> /\ Return("next", None)
       ELSE /\ mem' = Vacate(ptr, ptr + 1)
            /\ Give({mem[ptr + 1]}, "caller")
            /\ Return("next", mem[ptr + 1])
            /\ ptr' = ptr + 1
            /\ left' = left - 1
    /\ UNCHANGED <<size, pc, alloc, layout, len, kept, check>>

\* The values an iterator has left get the owner o.
Rest(o) ==
    /\ mem' = Vacate(ptr, ptr + left)
    /\ Give(In(ptr, ptr + left), o)
    /\ ptr' = 0 /\ left' = 0

\* The DrainAll is dropped, or given to mem::forget.
DrainDrop ==
    /\ pc = "drain"
    /\ pc' = "vec"
    /\ Rest("none") /\ Return("drain_drop", None)
    /\ UNCHANGED <<size, alloc, layout, len, kept, check>>

DrainForget ==
    /\ pc = "drain"
    /\ pc' = "vec"
    /\ Rest("leaked") /\ Return("drain_forget", None)
    /\ UNCHANGED <<size, alloc, layout, len, kept, check>>

IterDrop ==
    /\ pc = "iter"
    /\ pc' = "none"
    /\ Rest("none") /\ Return("drop", None)
    /\ Realloc(0, layout)
    /\ layout' = 0
    /\ UNCHANGED <<size, len, kept, check>>

\* collect shrinks the buffer: cap = len.
Shrink == Realloc(left, layout) /\ layout' = left

\* The values left move to the start of the buffer. The slots of a ZST have all
\* one address: for those no iterator has advanced.
Collect ==
    /\ pc = "iter"
    /\ pc' = "vec"
    /\ mem' = [i \in Slots |-> IF i <= left THEN mem[ptr + i] ELSE None]
    /\ len' = left
    /\ ptr' = 0 /\ left' = 0
    /\ \/ ptr # 0 /\ size # 0 /\ Shrink
       \/ UNCHANGED <<alloc, layout>> /\ (ptr # 0 /\ size # 0 => left > 0)
    /\ Return("collect", None)
    /\ UNCHANGED <<size, kept, check, own>>

-----------------------------------------------------------------------------
Next ==
    \/ \E e \in Elems :
          \/ Create(e) \/ DropValue(e) \/ Push(e) \/ PushWithinCapacity(e)
          \/ \E n \in Usize :
                \/ FromElem(n, e) \/ ExtendWith(n, e) \/ Resize(n, e)
                \/ InsertWithinCapacity(n, e)
    \/ \E n \in 0..MaxSlice :
          ExtendFromSlice(n) \/ \E s \in Values("caller", n) : FromBox(s)
    \/ \E n \in Usize : WithCapacity(n) \/ Reserve(n) \/ Remove(n) \/ Truncate(n)
    \/ Pop \/ DropVec \/ IntoRawParts \/ FromRawParts
    \/ RetainStart \/ RetainDone \/ \E yes \in BOOLEAN : RetainCheck(yes)
    \/ DrainAll \/ DrainDrop \/ DrainForget
    \/ IntoIter \/ IterNext \/ IterDrop \/ Collect

Spec == Init /\ [][Next]_vars

-----------------------------------------------------------------------------
(* Properties.                                                             *)

\* The slots whose values the Vec, its iterator or both drop.
Owned == (1..len) \cup ((ptr + 1)..(ptr + left))

\* Every slot that is read or dropped later holds a value, no two the same one,
\* and every value moved into the Vec is in one: nothing is dropped twice, used
\* after its drop, or leaked, also when a DrainAll is forgotten.
OwnedOnce ==
    /\ len * left = 0
    /\ \A i \in Owned : mem[i] # None /\ own[mem[i]] = "vec"
    /\ \A i, j \in Owned : mem[i] = mem[j] => i = j
    /\ \A e \in Elems : own[e] = "vec" => \E i \in Owned : mem[i] = e

\* "`self.layout` matches the `ArrayLayout` of the preceding allocation" (SAFETY
\* in reserve): the layout given to realloc and to free is that of the allocation,
\* no value lies outside of it, and without a Vec nothing is allocated.
AllocExact ==
    /\ alloc = layout
    /\ pc = "none" => alloc = 0
    /\ \A i \in Slots : mem[i] # None => i <= Capacity

\* "We know that `cap <= isize::MAX` because of the type invariants of `Self`. So
\* the multiplication by two won't overflow" (reserve), nor does the size in bytes.
CapacityFits ==
    /\ size # 0 => 2 * Capacity <= UsizeMax /\ Capacity * size <= IsizeMax
    /\ len <= Capacity

\* The buffer, what the Vec believes of it and who owns its values agree after any
\* sequence of calls of kvec.rs.
VecInv == OwnedOnce /\ AllocExact /\ CapacityFits
-----------------------------------------------------------------------------
(* Refinement.                                                             *)

\* The values in slots a + 1 .. b of a buffer, in order.
Run(m, a, b) == [i \in 1..(b - a) |-> m[a + i]]

\* The sequence a Vec or an iterator stands for.  While retain runs, the values
\* it has rejected lie between those it has kept and those it has not seen.
Sequence ==
    IF pc = "retain" THEN Run(mem, 0, kept) \o Run(mem, check, len)
    ELSE IF pc \in {"iter", "drain"} THEN Run(mem, ptr, ptr + left)
    ELSE Run(mem, 0, len)

Abstract == INSTANCE KVecSpec WITH
    seq <- Sequence, cap <- Capacity, view <- pc, pos <- kept

\* Every call does to the sequence, and returns, what KVecSpec says, the calls
\* that need room succeed exactly if there is room, and retain keeps the order.
ImplementsVec == Abstract!Spec
=============================================================================

----------------------------- MODULE Allocator -----------------------------
(***************************************************************************)
(* The allocators Kmalloc, Vmalloc and KVmalloc (alloc/allocator.rs) over  *)
(* the reallocation functions of shim.c.  Allocating, growing, shrinking   *)
(* and freeing are one function, realloc.  On a kernel without vrealloc    *)
(* and kvrealloc the shim reallocates by itself: it asks find_vm_area for  *)
(* the size of the old area, allocates, copies and frees.                  *)
(*                                                                         *)
(* One buffer is followed.  A block of memory is the size asked for and    *)
(* how many of its first units hold what the owner wrote there.            *)
(***************************************************************************)
EXTENDS Shim, FiniteSetsExt

CONSTANTS
  MaxSize,    \* bound: largest layout, in units
  PageUnits   \* units in a page: areas of vmalloc are whole pages

ASSUME AllocatorAssumption == MaxSize \in Nat /\ PageUnits \in Nat \ {0}

Blocks == {1, 2}    \* the old block and the new one
NULL == 0
Sizes == 0 .. MaxSize

VARIABLES
  mem,      \* the memory of the kernel
  buf       \* the buffer: its allocator, pointer, layout, and the units it filled

allocVars == <<mem, buf>>

FreeBlock == [area |-> "free", size |-> 0, filled |-> 0]
NoBuffer == [alloc |-> "none", ptr |-> NULL, layout |-> 0, filled |-> 0]
AllocatorNames == {"Kmalloc", "Vmalloc", "KVmalloc"}

AllocTypeOK ==
  /\ mem \in [Blocks -> [area : {"free", "kmalloc", "vmalloc"}, size : Sizes,
                         filled : Sizes]]
  /\ buf \in [alloc : AllocatorNames \cup {"none"}, ptr : Blocks \cup {NULL},
              layout : Sizes, filled : Sizes]

AllocInit == mem = [b \in Blocks |-> FreeBlock] /\ buf = NoBuffer

(* Outcomes of a call: the pointer returned and the memory left. *)
Failed(m) == {[ptr |-> NULL, mem |-> m]}
Fresh(m) == CHOOSE b \in Blocks : m[b].area = "free"
Placed(m, areas, size) ==
  {[ptr |-> Fresh(m),
    mem |-> [m EXCEPT ![Fresh(m)] = [area |-> a, size |-> size, filled |-> 0]]]
   : a \in areas}
Released(m, p) == [m EXCEPT ![p] = FreeBlock]

(* External: an allocation in one of the areas.  kvmalloc picks either     *)
(* area, kmalloc and __vmalloc have one.                                   *)
Allocate(m, size, areas) == Failed(m) \cup Placed(m, areas, size)

(* memcpy(newp, p, n) and the free of p. *)
CopyAndFree(r, p, n) ==
  [r EXCEPT !.mem = Released([r.mem EXCEPT ![r.ptr].filled =
                                Min({n, r.mem[p].filled})], p)]

(* External: the kernel's own realloc functions.  The old block stays when *)
(* they fail; a new size of zero frees it.                                 *)
KernelRealloc(m, p, size, areas) ==
  IF p = NULL THEN Allocate(m, size, areas)
  ELSE IF size = 0 THEN Failed(Released(m, p))
  ELSE Failed(m) \cup {CopyAndFree(r, p, Min({m[p].size, size})) :
                        r \in Placed(m, areas, size)}

rs_find_vm_area(m, p) ==
  Outcome("find_vm_area") = "called" /\ m[p].area = "vmalloc"

(* The size of an area of whole pages, or 0 if the area is not found. *)
rs_vmalloc_size(m, p) ==
  IF rs_find_vm_area(m, p)
  THEN ((m[p].size + PageUnits - 1) \div PageUnits) * PageUnits
  ELSE 0

(* Mutant: the old area is freed before the new one is known to exist. *)
MoveArea_FreesFirst(m, p, size, areas) ==
  LET old_size == rs_vmalloc_size(m, p)
  IN  IF old_size = 0 THEN Failed(m)
      ELSE {IF r.ptr = NULL THEN [r EXCEPT !.mem = Released(r.mem, p)]
            ELSE CopyAndFree(r, p, Min({old_size, size})) : r \in Allocate(m, size, areas)}

(* The fallback for an area of vmalloc: give up without a size, otherwise  *)
(* allocate, copy and free.  A failure leaves the old block alone.         *)
MoveArea(m, p, size, areas) ==
  LET old_size == rs_vmalloc_size(m, p)
  IN  IF old_size = 0 THEN Failed(m)
      ELSE {IF r.ptr = NULL THEN r ELSE CopyAndFree(r, p, Min({old_size, size})) :
              r \in Allocate(m, size, areas)}

rs_kvrealloc(m, p, size) ==
  IF "kvrealloc" \in addr
  THEN KernelRealloc(m, p, size, {"kmalloc", "vmalloc"})
  ELSE IF p = NULL THEN Allocate(m, size, {"kmalloc", "vmalloc"})
  ELSE IF size = 0 THEN Failed(Released(m, p))
  ELSE IF m[p].area = "vmalloc" THEN MoveArea(m, p, size, {"kmalloc", "vmalloc"})
  ELSE KernelRealloc(m, p, size, {"kmalloc"})       \* krealloc

rs_vrealloc(m, p, size) ==
  IF "vrealloc" \in addr
  THEN KernelRealloc(m, p, size, {"vmalloc"})
  ELSE IF p = NULL THEN Allocate(m, size, {"vmalloc"})
  ELSE IF size = 0 THEN Failed(Released(m, p))
  ELSE MoveArea(m, p, size, {"vmalloc"})

(* Allocator::realloc of the three allocators.  Vmalloc and KVmalloc       *)
(* refuse an alignment above that of a page, and keep the buffer.          *)
ReallocFunc(alloc, m, p, size, big) ==
  IF big /\ alloc # "Kmalloc" THEN Failed(m) ELSE
  CASE alloc = "Kmalloc"  -> KernelRealloc(m, p, size, {"kmalloc"})
    [] alloc = "Vmalloc"  -> rs_vrealloc(m, p, size)
    [] alloc = "KVmalloc" -> rs_kvrealloc(m, p, size)

(* ReallocFunc::call with the layout of the buffer as old_layout.  A size  *)
(* of zero frees and succeeds with a dangling pointer; otherwise a null    *)
(* pointer is AllocError, and the buffer is what it was.                   *)
realloc(alloc, size) ==
  \E big \in BOOLEAN :
  \E r \in ReallocFunc(alloc, mem, IF buf.layout = 0 THEN NULL ELSE buf.ptr,
                      size, big) :
    /\ mem' = r.mem
    /\ buf' = IF size # 0 /\ r.ptr = NULL THEN buf
              ELSE [alloc |-> alloc, ptr |-> r.ptr, layout |-> size,
                    filled |-> Min({buf.filled, size})]

Alloc == \E a \in AllocatorNames, size \in Sizes \ {0} :
           buf.alloc = "none" /\ realloc(a, size)

Grow == \E size \in Sizes \ {0} :
          buf.alloc # "none" /\ size # buf.layout /\ realloc(buf.alloc, size)

(* Allocator::free: realloc to a layout of size zero. *)
Free == /\ buf.alloc # "none" /\ buf.layout # 0
        /\ \E r \in ReallocFunc(buf.alloc, mem, buf.ptr, 0, FALSE) : mem' = r.mem
        /\ buf' = NoBuffer

(* The owner fills its buffer. *)
Fill == /\ buf.ptr # NULL /\ buf.filled < buf.layout
        /\ buf' = [buf EXCEPT !.filled = buf.layout]
        /\ mem' = [mem EXCEPT ![buf.ptr].filled = buf.layout]

AllocStep == (Alloc \/ Grow \/ Free \/ Fill) /\ UNCHANGED shimVars

-----------------------------------------------------------------------------
(* The buffer of a Box or Vec is backed by a live block that is large      *)
(* enough and still holds everything the owner wrote within the size: a    *)
(* realloc that fails leaves the old buffer as it was, one that succeeds   *)
(* loses nothing.  No other block is live: nothing leaks.                  *)
BufferBacked ==
  /\ buf.ptr # NULL =>
       /\ mem[buf.ptr].area # "free"
       /\ mem[buf.ptr].size >= buf.layout
       /\ mem[buf.ptr].filled >= buf.filled
  /\ {b \in Blocks : mem[b].area # "free"} = {buf.ptr} \ {NULL}

=============================================================================

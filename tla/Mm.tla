--------------------------------- MODULE Mm ---------------------------------
(***************************************************************************)
(* The address space of a process as a Rust driver uses it (mm.rs,         *)
(* mm/virt.rs, page.rs).  ARef<Mm> holds mm_count, which keeps the         *)
(* mm_struct; ARef<MmWithUser> and ARef<MmWithUserAsync> hold mm_users,    *)
(* which keeps the mappings.  A VmaRef lives under a MmapReadGuard, a      *)
(* VmaNew inside the mmap callback of the driver, which the kernel calls   *)
(* with the lock held for writing before the area can be found by others.  *)
(*                                                                         *)
(* One process, one area of the driver and one page of the driver are      *)
(* followed.  Addresses are pages, 0 .. W - 1, and wrap as usize does.     *)
(* others are the pages that neighbouring areas map.  The per-VMA lock is  *)
(* not compiled in: lock_vma_under_rcu always answers None.                *)
(***************************************************************************)
EXTENDS Integers, FiniteSets

CONSTANTS
  Threads,    \* kernel threads of the driver
  W,          \* number of addresses
  Perms,      \* of "READ", "WRITE", "EXEC"
  Plain,      \* of "IO", "DONTCOPY", "DONTEXPAND", "DONTDUMP"
  Areas,      \* the ranges <<start, end>> mmap may choose
  MaxUsers    \* bound: no user is taken beyond it

ASSUME MmAssumption ==
  /\ W \in Nat \ {0} /\ IsFiniteSet(Threads) /\ MaxUsers \in Nat
  /\ Perms \subseteq {"READ", "WRITE", "EXEC"}
  /\ Plain \subseteq {"IO", "DONTCOPY", "DONTEXPAND", "DONTDUMP"}
  /\ \A r \in Areas : r[1] \in 0 .. W - 1 /\ r[2] \in r[1] + 1 .. W - 1

Addrs == 0 .. W - 1
May(p) == CASE p = "READ" -> "MAYREAD" [] p = "WRITE" -> "MAYWRITE"
            [] p = "EXEC" -> "MAYEXEC"
Flags == Perms \cup {May(p) : p \in Perms} \cup Plain \cup {"MIXEDMAP"}
NoVma == [start |-> 0, end |-> 0, flags |-> {}]

PutCalls == {"mmput", "mmput_async"}

VARIABLES
  found,     \* of PutCalls, what rs_shim_init has found in this kernel
  proc,      \* the process has not exited
  users,     \* mm_users
  mmcount,   \* mm_count
  teardown,  \* "no", or the last user is gone: exit_mmap to come, or "done"
  have,      \* handles of each thread: subsets of {"Mm", "User", "Async"}
  readers,   \* threads that hold mmap_lock for reading
  writer,    \* the process holds it for writing: "no", "mmap" or "edit"
  vma,       \* the area of the driver
  linked,    \* it can be found by vma_lookup
  ref,       \* what each thread holds of it: "none", "ref" or "mixed"
  newMixed,  \* the mmap callback holds a VmaMixedMap
  ptes,      \* addresses where the driver's page is mapped
  others,    \* addresses that other areas map
  owned,     \* the driver holds its Page
  pcount     \* reference count of the page

mmVars == <<found, proc, users, mmcount, teardown, have>>
lockVars == <<readers, writer, ref, newMixed>>
areaVars == <<vma, linked, ptes, others, owned, pcount>>
vars == <<mmVars, lockVars, areaVars>>

TypeOK ==
  /\ found \subseteq PutCalls /\ proc \in BOOLEAN
  /\ users \in Nat /\ mmcount \in Nat
  /\ teardown \in {"no", "pending", "done"}
  /\ have \in [Threads -> SUBSET {"Mm", "User", "Async"}]
  /\ readers \subseteq Threads
  /\ writer \in {"no", "mmap", "edit"}
  /\ vma \in [start : 0 .. W, end : 0 .. W, flags : SUBSET Flags]
  /\ linked \in BOOLEAN /\ newMixed \in BOOLEAN /\ owned \in BOOLEAN
  /\ ref \in [Threads -> {"none", "ref", "mixed"}]
  /\ ptes \subseteq Addrs /\ others \subseteq Addrs
  /\ pcount \in 0 .. W + 1

InArea(a) == vma.start <= a /\ a < vma.end
Outside == {a \in Addrs : \A r \in Areas : a < r[1] \/ r[2] <= a}

Init ==
  /\ found \in SUBSET PutCalls
  /\ proc = TRUE /\ users = 1 /\ mmcount = 1 /\ teardown = "no"
  /\ have = [t \in Threads |-> {}]
  /\ readers = {} /\ writer = "no" /\ newMixed = FALSE
  /\ ref = [t \in Threads |-> "none"]
  /\ vma = NoVma /\ linked = FALSE /\ ptes = {} /\ others = Outside
  /\ owned = FALSE /\ pcount = 0

-----------------------------------------------------------------------------
(* Handles.  Threads do not start anything with a guard in their hands     *)
(* that the guard borrows.                                                 *)

HasUser(t) == have[t] \cap {"User", "Async"} # {}

(* ARef<Mm> from the &Mm of a running process: mmgrab. *)
MmFrom(t) ==
  /\ proc /\ "Mm" \notin have[t]
  /\ mmcount' = mmcount + 1
  /\ have' = [have EXCEPT ![t] = @ \cup {"Mm"}]
  /\ UNCHANGED <<found, proc, users, teardown, lockVars, areaVars>>

(* Mutant: mm_users is raised whatever it is. *)
MmgetNotZero_Always(t) ==
  /\ "Mm" \in have[t] /\ ~HasUser(t) /\ users < MaxUsers
  /\ users' = users + 1
  /\ have' = [have EXCEPT ![t] = @ \cup {"User"}]
  /\ UNCHANGED <<found, proc, mmcount, teardown, lockVars, areaVars>>

(* Mm::mmget_not_zero: None when no user is left. *)
MmgetNotZero(t) ==
  /\ "Mm" \in have[t] /\ ~HasUser(t)
  /\ users > 0 /\ users < MaxUsers
  /\ users' = users + 1
  /\ have' = [have EXCEPT ![t] = @ \cup {"User"}]
  /\ UNCHANGED <<found, proc, mmcount, teardown, lockVars, areaVars>>

(* Clone of either ARef, or an ARef of the MmWithUser that a               *)
(* MmWithUserAsync derefs to, handed to another thread: mmget.             *)
MmUserClone(t, u, which) ==
  /\ t # u /\ HasUser(t) /\ ~HasUser(u) /\ users < MaxUsers
  /\ which = "Async" => "Async" \in have[t]
  /\ users' = users + 1
  /\ have' = [have EXCEPT ![u] = @ \cup {which}]
  /\ UNCHANGED <<found, proc, mmcount, teardown, lockVars, areaVars>>

(* MmWithUser::into_mmput_async: the same count under another type. *)
IntoMmputAsync(t) ==
  /\ "User" \in have[t] /\ t \notin readers
  /\ have' = [have EXCEPT ![t] = (@ \ {"User"}) \cup {"Async"}]
  /\ UNCHANGED <<found, proc, users, mmcount, teardown, lockVars, areaVars>>

(* External: mmput and mmput_async.  The last one makes the teardown due:  *)
(* mmput runs it at once, mmput_async hands it to a work queue, and other  *)
(* threads run in between in either case.                                  *)
PutUser ==
  /\ users' = users - 1
  /\ teardown' = IF users = 1 THEN "pending" ELSE teardown

(* Mutant: the count is lowered, but nobody looks whether it was the last. *)
DropUser_NoTeardown(t) ==
  /\ HasUser(t) /\ t \notin readers
  /\ users' = users - 1
  /\ have' = [have EXCEPT ![t] = @ \ {"User", "Async"}]
  /\ UNCHANGED <<found, proc, mmcount, teardown, lockVars, areaVars>>

(* Drop of the ARef: mmput or mmput_async, skipped where it is not found.  *)
DropUser(t) ==
  LET put == IF "Async" \in have[t] THEN "mmput_async" ELSE "mmput"
  IN  /\ HasUser(t) /\ t \notin readers
      /\ \/ put \in found /\ PutUser
         \/ put \notin found /\ UNCHANGED <<users, teardown>>
      /\ have' = [have EXCEPT ![t] = @ \ {"User", "Async"}]
      /\ UNCHANGED <<found, proc, mmcount, lockVars, areaVars>>

DropMm(t) ==
  /\ "Mm" \in have[t]
  /\ mmcount' = mmcount - 1
  /\ have' = [have EXCEPT ![t] = @ \ {"Mm"}]
  /\ UNCHANGED <<found, proc, users, teardown, lockVars, areaVars>>

(* External: the process exits; the mappings go when the last user does.   *)
ProcExits ==
  /\ proc /\ writer = "no"
  /\ proc' = FALSE
  /\ PutUser
  /\ UNCHANGED <<found, mmcount, have, lockVars, areaVars>>

(* The page loses the references of n mappings. *)
Unmapped(set) == pcount' = pcount - Cardinality(ptes \cap set) /\ ptes' = ptes \ set

Teardown ==
  /\ teardown = "pending" /\ readers = {}
  /\ teardown' = "done"
  /\ mmcount' = mmcount - 1
  /\ vma' = NoVma /\ linked' = FALSE /\ others' = {} /\ Unmapped(Addrs)
  /\ UNCHANGED <<found, proc, users, have, lockVars, owned>>

-----------------------------------------------------------------------------
(* The mmap lock and the area under it. *)

MmapReadLock(t) ==      \* also a successful mmap_read_trylock
  /\ HasUser(t) /\ t \notin readers /\ writer = "no"
  /\ readers' = readers \cup {t}
  /\ UNCHANGED <<mmVars, writer, ref, newMixed, areaVars>>

VmaLookup(t) ==
  /\ t \in readers /\ ref[t] = "none" /\ linked
  /\ ref' = [ref EXCEPT ![t] = "ref"]
  /\ UNCHANGED <<mmVars, readers, writer, newMixed, areaVars>>

(* Mutant: the flag is not looked at. *)
AsMixedmapVma_Unchecked(t) ==
  /\ ref[t] = "ref"
  /\ ref' = [ref EXCEPT ![t] = "mixed"]
  /\ UNCHANGED <<mmVars, readers, writer, newMixed, areaVars>>

AsMixedmapVma(t) ==
  /\ ref[t] = "ref" /\ "MIXEDMAP" \in vma.flags
  /\ ref' = [ref EXCEPT ![t] = "mixed"]
  /\ UNCHANGED <<mmVars, readers, writer, newMixed, areaVars>>

(* Drop of the MmapReadGuard, after which no VmaRef of it is left. *)
MmapReadUnlock(t) ==
  /\ t \in readers
  /\ readers' = readers \ {t}
  /\ ref' = [ref EXCEPT ![t] = "none"]
  /\ UNCHANGED <<mmVars, writer, newMixed, areaVars>>

(* External: vm_insert_page takes a reference of the page for the mapping  *)
(* and fails outside the area or where something is mapped.                *)
Insert(a) ==
  /\ InArea(a) /\ a \notin ptes
  /\ ptes' = ptes \cup {a}
  /\ pcount' = pcount + 1
  /\ UNCHANGED <<vma, linked, others, owned>>

VmInsertPage ==
  /\ owned /\ (newMixed \/ \E t \in Threads : ref[t] = "mixed")
  /\ \E a \in Addrs : Insert(a)
  /\ UNCHANGED <<mmVars, lockVars>>

InCallback == writer = "mmap" /\ vma # NoVma

(* Mutant: the end of the range is compared without regard to overflow. *)
ZapInBounds_Wraps(address, size) ==
  vma.start <= address /\ (address + size) % W <= vma.end

(* The check of zap_page_range_single. *)
ZapInBounds(address, size) ==
  /\ address + size < W             \* ~did_overflow
  /\ vma.start <= address
  /\ address + size <= vma.end

(* The kernel unmaps the range it is given, in whatever area.  A VmaNew in  *)
(* the mmap callback is a VmaRef too.                                      *)
ZapPageRangeSingle(address, size) ==
  LET range == {(address + i) % W : i \in {j \in Addrs : j < size}}
  IN  /\ InCallback \/ \E t \in Threads : ref[t] # "none"
      /\ ZapInBounds(address, size)
      /\ others' = others \ range /\ Unmapped(range)
      /\ UNCHANGED <<mmVars, lockVars, vma, linked, owned>>

-----------------------------------------------------------------------------
(* Areas come and go under the lock held for writing. *)

(* External: mmap of the device, up to the call of the driver.  The kernel *)
(* grants only permissions that are also allowed.                          *)
MmapStart ==
  /\ proc /\ writer = "no" /\ readers = {} /\ vma = NoVma
  /\ writer' = "mmap"
  /\ \E r \in Areas, p \in SUBSET Perms :
       vma' = [start |-> r[1], end |-> r[2],
               flags |-> p \cup {May(q) : q \in Perms}]
  /\ UNCHANGED <<mmVars, readers, ref, newMixed, linked, ptes, others, owned, pcount>>

(* VmaNew::update_flags. *)
UpdateFlags(set, unset) ==
  /\ vma' = [vma EXCEPT !.flags = (@ \cup set) \ unset]
  /\ UNCHANGED <<mmVars, readers, writer, ref, linked, ptes, others, owned, pcount>>

SetMixedmap == InCallback /\ UpdateFlags({"MIXEDMAP"}, {}) /\ newMixed' = TRUE

(* set_io, set_dontexpand, set_dontcopy, set_dontdump. *)
SetPlain(f) == InCallback /\ UpdateFlags({f}, {}) /\ UNCHANGED newMixed

(* try_clear_mayread, try_clear_maywrite, try_clear_mayexec: EINVAL for an *)
(* area that has the permission.                                           *)
TryClearMay(p) ==
  /\ InCallback /\ p \notin vma.flags
  /\ UpdateFlags({}, {May(p)}) /\ UNCHANGED newMixed

(* The callback returns: the area is linked, or undone after an error. *)
MmapReturns ==
  /\ InCallback
  /\ writer' = "no" /\ newMixed' = FALSE
  /\ \/ linked' = TRUE /\ UNCHANGED <<vma, ptes, pcount>>
     \/ vma' = NoVma /\ Unmapped(Addrs) /\ UNCHANGED linked
  /\ UNCHANGED <<mmVars, readers, ref, others, owned>>

(* External: munmap and mprotect by the process. *)
EditStart ==
  /\ proc /\ writer = "no" /\ readers = {} /\ linked
  /\ writer' = "edit"
  /\ UNCHANGED <<mmVars, readers, ref, newMixed, areaVars>>

DoMunmap ==
  /\ writer = "edit"
  /\ writer' = "no"
  /\ vma' = NoVma /\ linked' = FALSE /\ Unmapped(Addrs)
  /\ UNCHANGED <<mmVars, readers, ref, newMixed, others, owned>>

Mprotect ==
  /\ writer = "edit"
  /\ writer' = "no"
  /\ \E p \in SUBSET {q \in Perms : May(q) \in vma.flags} :
       vma' = [vma EXCEPT !.flags = (@ \ Perms) \cup p]
  /\ UNCHANGED <<mmVars, readers, ref, newMixed, linked, ptes, others, owned, pcount>>

-----------------------------------------------------------------------------
(* Page::alloc_page, and Drop for Page: __free_pages gives up the owner's  *)
(* reference.                                                              *)
AllocPage ==
  /\ ~owned /\ pcount = 0
  /\ owned' = TRUE /\ pcount' = 1
  /\ UNCHANGED <<mmVars, lockVars, vma, linked, ptes, others>>

PageDrop ==
  /\ owned
  /\ owned' = FALSE /\ pcount' = pcount - 1
  /\ UNCHANGED <<mmVars, lockVars, vma, linked, ptes, others>>

HandleStep(t) ==
  \/ MmFrom(t) \/ MmgetNotZero(t) \/ IntoMmputAsync(t) \/ DropUser(t)
  \/ DropMm(t) \/ \E u \in Threads, which \in {"User", "Async"} : MmUserClone(t, u, which)

LockStep(t) ==
  \/ MmapReadLock(t) \/ VmaLookup(t) \/ AsMixedmapVma(t) \/ MmapReadUnlock(t)

MmapStep ==
  \/ MmapStart \/ SetMixedmap \/ (\E f \in Plain : SetPlain(f))
  \/ (\E p \in Perms : TryClearMay(p)) \/ MmapReturns

Next ==
  \/ \E t \in Threads : HandleStep(t) \/ LockStep(t)
  \/ ProcExits \/ Teardown \/ VmInsertPage
  \/ \E a \in Addrs, n \in Addrs : ZapPageRangeSingle(a, n)
  \/ MmapStep \/ EditStart \/ DoMunmap \/ Mprotect \/ AllocPage \/ PageDrop

(* exit_mmap runs in the caller of mmput or on a work queue. *)
Fairness == WF_vars(Teardown)

Spec == Init /\ [][Next]_vars /\ Fairness

-----------------------------------------------------------------------------
Holding(h) == Cardinality({t \in Threads : h \in have[t]})

Users == (IF proc THEN 1 ELSE 0) + Holding("User") + Holding("Async")

(* mm_users is the process and one per MmWithUser, of either kind, and     *)
(* mm_count is one for all users together and one per Mm: no step of a     *)
(* thread that races the exit of the process counts twice or not at all.   *)
(* Where mmput or mmput_async is missing a user is never given back, and   *)
(* none too many is.                                                       *)
CountsExact ==
  /\ users >= Users /\ (found = PutCalls => users = Users)
  /\ mmcount = (IF teardown = "done" THEN 0 ELSE 1) + Holding("Mm")

(* Whoever holds a MmWithUser finds the mappings in place, whoever holds a *)
(* Mm the mm_struct: the last user, not the exit of the process, tears     *)
(* down.                                                                   *)
UsersKeepMappings ==
  \A t \in Threads : /\ HasUser(t) => teardown = "no"
                     /\ have[t] # {} => mmcount > 0

(* A VmaRef taken by vma_lookup stays an area of the process for as long   *)
(* as the guard lives, and a VmaMixedMap one with VM_MIXEDMAP.             *)
VmaStable ==
  /\ \A t \in Threads : ref[t] # "none" => t \in readers /\ linked /\ writer = "no"
  /\ (newMixed \/ \E t \in Threads : ref[t] = "mixed") => "MIXEDMAP" \in vma.flags

(* Whatever the driver sets and clears in its mmap callback, and whatever  *)
(* the process asks of mprotect later, the area never has a permission it  *)
(* may not have.                                                           *)
PermsAllowed == \A p \in Perms \cap vma.flags : May(p) \in vma.flags

(* The page is alive while it is mapped, whether or not the driver still   *)
(* holds it, and not longer; it is mapped only in the driver's area.       *)
PageCounted ==
  /\ pcount = (IF owned THEN 1 ELSE 0) + Cardinality(ptes)
  /\ \A a \in ptes : InArea(a)

(* No call of the driver unmaps what other areas map. *)
OthersUntouched == [][others' = others \/ teardown' = "done"]_vars

(* When the process and the last MmWithUser, of whichever kind, are gone,  *)
(* the mappings go with the page's references, on a kernel that has both   *)
(* functions.                                                              *)
MappingsGo ==
  found = PutCalls /\ ~proc /\ (\A t \in Threads : ~HasUser(t)) ~> ptes = {} /\ vma = NoVma

\* The handles of mm.rs keep what their type says: an Mm the mm_struct, a user
\* the mappings.
HandlesInv == TypeOK /\ CountsExact /\ UsersKeepMappings

\* The driver's area stays put while it is looked at, has no permission it may not
\* have, and its page lives as long as it is mapped (mm/virt.rs, page.rs).
AreaInv == VmaStable /\ PermsAllowed /\ PageCounted
=============================================================================

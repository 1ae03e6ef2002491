# RaanaSDK: specifications, model checking and proofs

RaanaSDK lets out-of-tree Rust modules run on Android kernels that have no Rust
support. `rust_support.ko` (C, `src/src/`) recovers the addresses of kernel
functions at load time and exports them, wrapped, to a port of the kernel crate
(Rust, `src/rust/src/`), which drivers link against.

This directory models the parts of the SDK that keep state and are used by
several threads, callbacks or modules at once, checks them with TLC, and proves
with TLAPS, for every value of the constants, every safety invariant and action
property that TLC checks and all three refinements; only liveness is left to TLC.
`PROJECT.json` has the line-by-line correspondence between definitions and code,
the runs, the hazards each property is for, and the theorems.

## 1. The system

| Component | State | Operations | Used by / uses |
|---|---|---|---|
| **blk-mq requests** `block/mq/request.rs`, `operations.rs` | per request a `refcount` in its private data, 0 idle, 1 + number of `ARef`s in flight | callbacks `queue_rq`, `init_request`, `exit_request`; `ARef::clone`, `drop`; `end_ok` | called by the block layer from any CPU; the driver moves `ARef`s between threads |
| **Disks and tag sets** `gen_disk.rs`, `tag_set.rs`, `shim_block.c` | tag set with its vtable, gendisk | builder, `build`, `drop` | own the requests above |
| **KUnit registry** `shim_kunit.c`, `kunit.rs`, `main.c`, `macros/{module,kunit}.rs` | table of (owner, name, function), current test | register at module load (notifier and `__init`), find and run, unregister at unload | module loader, KUnit, every Rust module |
| **Work queues** `workqueue.rs`, `shim.c` | `work_struct` in an `Arc` or a box | enqueue, run, `try_spawn`, requeue from `run` | kworkers; `Arc` as raw pointer |
| **Condition variables, polling, locks** `sync/condvar.rs`, `sync/poll.rs`, `sync/lock*.rs`, `sync/locked_by.rs` | wait queue, lock, entry on the waiter's stack, epoll entries, data tied to a lock by address | wait (interruptible, timed), notify one / sync / all, register a poll table, drop; lock, try_lock, access | scheduler, signals, timers, epoll |
| **Linked lists** `list.rs` | `first`, `next`, `prev`, cursor | push, pop, remove, splice, cursor moves, inserts and removals, iteration | own `ListArc`s |
| **Arc, UniqueArc, ListArc** `sync/arc.rs`, `list/arc.rs` | refcount, tracker flag per list ID | create, clone, convert, drop | lists, work queues |
| **Red-black tree** `rbtree.rs` | nodes linked by the kernel's rbtree, one view (entry, cursor, iterator) | search, insert, remove, cursor moves and removals, iteration, reservations | drivers, sequential |
| **Vectors** `alloc/kvec.rs`, `layout.rs`, `allocator.rs` | buffer, layout, length; position of an iterator | reserve, push, insert, pop, remove, truncate, resize, extend, `retain`, `drain_all`, `into_iter`, `collect`, raw parts | drivers, sequential; `ReallocFunc` |
| **Boxes** `alloc/kbox.rs` | one value, initialised or not | allocate, initialise in place, drop | every pinned type |
| **In-place initialisation** `init.rs`, `init/` | which fields are initialised | `pin_init!`, `try_pin_init!`, drop guards | every pinned type |
| **Misc devices and files** `miscdevice.rs`, `fs/file.rs`, `shim_fs_misc.c` | registration, private data per file | register, open, ioctl, release, deregister | VFS, any process |
| **Initialisation** `main.c`, `shim.c` | resolved addresses, field offsets | load, resolve, undo on failure, unload | everything |
| **Allocators** `alloc/allocator.rs`, `shim.c` | one buffer and what was written to it | realloc in all its uses, with and without the kernel's own | vectors, boxes |
| **Counted kernel objects** `device.rs`, `task.rs`, `cred.rs`, `pid_namespace.rs`, `firmware.rs`, `security.rs` | a count per object, one owner per image or context | get, put, load, release | `ARef` |
| **Address spaces** `mm.rs`, `mm/virt.rs`, `page.rs` | `mm_count`, `mm_users`, the mmap lock, areas, pages | `mmget_not_zero`, lookups, zap, insert, the flags of a new area | processes, `ARef` |
| **User memory and strings** `uaccess.rs`, `page.rs`, `str.rs`, `print.rs` | reader and writer of a slice, positions of a formatter | read, write, skip, copy into a page, format | system calls |
| **Errors, ioctl numbers** `error.rs`, `ioctl.rs` | none | conversions between C and Rust | every call |
| **ID pool, bitmap** `id_pool.rs`, `bitmap.rs` (carried, not yet declared in `lib.rs`) | a bitmap, resizers under way | acquire, release, grow, shrink | threads that share it in a lock |
| **PHY drivers** `net/phy.rs` | not compiled | | |
| **Macros, bindings, build scripts** | none | | |

The behaviours that are hard to test:

* *Requests*: a driver thread ends a request while others clone and drop their
  references, and the block layer may dispatch the same request again at once.
* *KUnit*: modules load and unload concurrently (the notifier chain is only
  read-locked), tests run between them, and a failed assertion ends a thread in
  the middle of the dispatcher.
* *Work queues*: one reference travels as a raw pointer through C, and an item
  can be enqueued while it runs.
* *Condition variables*: lost wakeups, timeouts and signals that race with
  notifications, a queue entry that lives on a stack.
* *Lists*: pointer surgery where the ends of a list are recognised only by
  comparing pointers, over long sequences of calls.
* *ListArc*: uniqueness of a reference among threads that all hold shared ones.
* *Tree*: a search ends at a child field that is used later, by an entry; a
  cursor removes nodes around itself; a key that is present swaps allocations.
* *Vectors*: values are moved bitwise, so nothing but the length says which slots
  still own one; an iterator can be forgotten, an allocation can fail, a
  zero-sized type has capacity without memory, and sizes overflow.
* *Disks*: a disk is in the VFS before `device_add_disk` returns and after
  `del_gendisk` was called; `build` can fail in between with requests under way.
* *In-place initialisation*: an initialiser fails after the device it registered
  became reachable; exactly what was initialised must be dropped, in order.
* *Files*: descriptors, system calls, mappings and `ARef`s keep a file for
  different times, and the last of them runs the driver's `release`.
* *Address spaces*: a process unmaps and exits while a driver holds handles.
* *User memory*: a copy stops half way; arguments are formatted twice and differ.
* *ID pools*: the lock is released to allocate, so a resizer arrives late.
* *Missing symbols*: most wrappers in `shim.c` silently do nothing if their
  function was not found.

The `hazards` of `PROJECT.json` list them by line, with the properties that
would catch each going wrong.

## 2. Modules and how they correspond to the code

Conventions: one variable per field or local that matters, named after it; one
action per call, or per atomic step of a call that other threads can come
between; definitions whose name has a suffix `_Something` and that are marked
*Mutant* are deliberately wrong versions of the definition that follows them and
are used by no specification.

### MqRequest
`refcount[r]` is `RequestDataWrapper.refcount`, with u64 wrap-around at `RefMax`.
`blk[r]` is what the block layer believes of the request. A *handle* is a place
for an `ARef`; a *context* is a kernel context that may be inside
`queue_rq_callback`. `Dispatch`, `QueueRqStore`, `QueueRqStart`,
`QueueRqOk` and `QueueRqErr` are the steps of that callback, `TrySetEnd` and `EndRequest` the two
halves of `end_ok`. The block layer is external: it calls `queue_rq` for a
request it owns, and after an error it ends the request or queues it again.
`CleanErrors` selects drivers that drop their `ARef`s before they return `Err`.
The system may stop (a driver that drops every `ARef` of a request without
ending it has lost it), so these runs do not check for deadlock.

### BlockDevice
Composes `MqRequest` with the tag set and the disks. `phase` is where
`TagSet::new` or its drop stands, `mem` the two allocations of `shim_block.c`,
`held` and `holds` the `Arc<TagSet>`s of the driver and of its disks, `disk[d]` the
life of a gendisk, `rdisk` and `cdisk` which disk a request and a callback are for.
The lifecycle runs on one thread, dispatching and ending concurrently with it.
The requests take the steps of `MqRequest` and no others, so that what is proved of
it holds here. `Resolved` are the optional block functions found. A gendisk whose
`build` fails is `leaked`: out of the VFS, never freed (`put_disk` is called nowhere), and
with a pointer to a tag set that may go. `QueueAlive` therefore speaks of the gendisks that
were not given up, and `NoIoAfterDrop` says that a leaked one has no request, callback or
`ARef` left that could follow the pointer.

### PinInit, File, MiscDevice
`PinInit` is one initialisation: fields in order, the elements of an array field, the
`DropGuard`s, the error returns, the place (box or stack), the drop glue, and a boxed
value lent to C. What is still to be dropped is a set, `todo`, and `NextToDrop` is the
order the language gives it: fields as declared, guards in reverse. `cell[e]` is "bad" once an element was overwritten live or dropped raw.
`File` is a reference count per `struct file` and who holds it. `MiscDevice` composes the
two: the registration is one field, `misc_open` races with it, and `box[x]` is the
private data `open` hands to the file. A registration is dropped, by its owner or by the
`DropGuard` of an initialiser that fails later, whether files are open or not; `stale` are the
files whose `file_operations` went with it. A call through them is undefined in the code, and finds the
table unchanged in the model. `refusing` is the one thing a driver can do about it: its `T::open`
returns `Err` from a moment at which it has no open file (`Refuse`), until it accepts again.
The table has no `compat_ioctl`, because the crate is built without `CONFIG_COMPAT` (see Findings).

### Shim, KernelObjects, Allocator, RustSupport
`Shim` is the load and unload of `rust_support.ko` on one of several `Kernels` (which
names resolve, what BTF and the anchor scan give), name by name, with the undo of a
failed load. `KernelObjects` and `Allocator` are what a driver does through the
wrappers the load has set up; `RustSupport` composes the three.

### Mm
`mmcount` and `users` of an `mm_struct`, the mmap lock, the driver's area as an interval,
its flags and the page inserted in it. Handles are per thread. The flag setters of a
`VmaNew` are one action each, and as a `VmaNew` is a `VmaRef` too, the mmap callback may also zap.
`found` says which of `mmput` and `mmput_async` this kernel has: `Init` chooses, and a drop through the
other one leaves its user behind.

### Strings, UserSlice, Conversions, IdPool, Buffers
`Strings` has a `RawFormatter` whose position saturates, and `try_from_fmt` piece by
piece. `UserSlice` has reader and writer of one slice, of which other threads map and
unmap pages. `Conversions` carries one result across the border of the languages; an
integer type, or a field of an ioctl number, is given by the number of its values.
`IdPool` is a pool in a spinlock: calls are single steps, `job[t]` is a resizing between its
request, its allocation and its end.
`Buffers` composes them; each moves when the others are at rest, since they share nothing.

### RsKunit
`entries` is `rs_kunit_test_entries`, `current` is `rs_kunit_current_test`, `fn[m]` the local
variable of the dispatcher that is read under the lock and called after it.
A module goes `unloaded → coming` (the notifier registers its cases) `→ init` (the code `module!`
generates registers them again) `→ driver → live → idle → going`, or fails its init.
`UnregisterModule` compacts the table in place: with `Kept` the indices that stay, slot `j` gets
the entry at the `Nth` of them. `Serial` says whether KUnit runs one test at a time.

### WorkQueue
`count` is the reference count of an item; its owners are `held` (threads), `raw` (a thread
that has turned its reference into a pointer to one of the item's `work_struct` fields),
`list` (pending in a worker pool) and `mine` (a worker whose `run` has not given it away).
`Arcs`, `Enqueueing`, `Enqueued` and `Executing` are those four as sets, whose sizes
`OwnersCounted` adds up. A `work_struct` is a pair of item and ID, and `work_container_of` takes the item. `Resolved`
is false on a kernel where `queue_work_on` was not found. The C workqueues are
external: a pool is first in, first out, a pending `work_struct` is not queued twice, and one that
runs is not started by a second worker of the same pool; two pools may run it at once.

### CondVar
The wait of `wait_internal` is five steps: prepare, unlock, schedule, relock,
finish. The wait queue is the set `queue` of its tasks with, for each, those
`ahead` of it. A notification wakes queued tasks that sleep, be it in
`schedule_timeout` or in the mutex. `Timed` consumers use
`wait_interruptible_timeout`, and signals and timeouts come at any moment. The
threads are those of the documentation's example.

### PollCondVar, Locks, Sync
`PollCondVar` adds epoll items, which stay on the wait queue after `poll` has
returned and are removed under RCU, and the drop of the condition variable
(`wake_up_pollfree`, then a grace period). `Locks` has locks at addresses, guards,
`LockedBy` data remembered by address, and a global lock whose `init` comes first, as its
caller promises. `refs` are the references `access`, `access_mut`, `as_ref` and `as_mut` have given out:
each borrows a guard, which is `Sync` and so can be lent to other threads, shared ones
beside each other and a mutable one alone (`Lends`). `Sync` composes them. Tables of poll(2) and select(2) hold their files
and are not modelled.

### List and ListSpec
`List` has `first`, `next` and `prev` and performs each call's pointer assignments
at once (a list is used by one thread at a time); `where[i]` records who owns
the `ListArc` of an item, which is what the type system knows and the pointers
do not. `op` is the last call and its result. `ListSpec` is the abstract
specification: sequences, a cursor position between two elements, and the same
calls. `Walk` is the iterator: it hops along `next` from `first` until it is back there.
The refinement mapping takes a list to its walk (`Seqs`) and a cursor to the number of
items before it (`Positions`).

### ListArc
One value, with slots for references to it. A slot holds an `Arc`, a `UniqueArc`, a
`ListArc` of an ID, or a call in progress: every atomic operation on
the count or on an `AtomicTracker` is a step. `Untracked` IDs use the
`untracked` strategy.

### RBTree and RBTreeSpec
What `rbtree.rs` adds to the kernel's rbtree. The C tree is external: `order` is
its in-order sequence of nodes, the subtree a loop is at is an interval `lo..hi` of it, and
its root may be any node of the interval, so every shape rebalancing can produce (and more) is covered. The
iterations of `raw_entry`, `get` and `cursor_lower_bound` are `Descend`,
`GetDescend` and `BoundDescend`; the other actions are what the callers do with
the result. `parent` and `child` are the fields of a `RawVacantEntry`;
`own[n]` is the type that owns an allocation: nobody, a reservation, an
`RBTreeNode`, the tree. `pc` is what borrows the tree, `op` the last call with its
argument and result. `RBTreeSpec` is the map this implements; its calls are
single steps, with `Min` and `Max` of sets of keys in place of searches. The
refinement mapping is `Map`, `View` and `ViewKey`: a loop is invisible until it ends.

### KVec and KVecSpec
`mem[i]` is the value in a slot of the buffer, or `None` for one that was moved out;
`alloc` is the size of the allocation as the allocator knows it, `layout` what the
Vec believes of it, and `own[e]` who owns a value: nobody (dropped or not yet
created), the caller, the Vec, or nobody forever (`"leaked"`, by `mem::forget` of a
`DrainAll`). `size_of::<T>()` is chosen in `Init`, zero included, and `usize` is
as wide as `UsizeMax` says. An allocation may fail whenever it is tried. `retain`
and the iterators are stepwise, since the caller's code runs in between; `DrainAll`
sets `len` to 0 first, which is what makes `DrainForget` safe. `IntoRawParts` and
`FromRawParts` keep what the Vec was. `KVecSpec` is a sequence with a capacity
and the values of an iterator; it has no slots, layouts or owners. The mapping,
`Sequence`, leaves out what `retain` has rejected and an iterator has passed.

## 3. What is checked

Runs (distinct states; "sym": up to symmetry):

| Run | Instance | Shows |
|---|---|---|
| `rs_kunit` (2,352,714) | rust_support and two modules with three tests; a registry of 6 with serial runs, of 3 with parallel ones | `RegistryInv`: entries point into loaded modules, no test is forgotten while there is room. `TestsAttributed`: each case runs its own function, failures go to the test that failed |
| `work_queue` (42,798) | 2 threads, 3 workers in 2 pools, an `Arc` item with two `work_struct`s, a boxed closure | `OwnershipInv`: an item is pending or running in one place per field and every owner is counted. `SpawnedIsCalled` (liveness): a spawned closure is called |
| `cond_var` (205,379) | `Sync`: 2 waiters (one timed), 2 producers, an epoll item, 2 threads with 3 locks | `WaitQueueInv`: no queue entry or wait queue head is used after it is gone. `NothingMissed`: no wakeup is lost to a waiter or poller. `LocksExclude`: guards own their lock, `LockedBy` data has readers or one writer while its lock is held. `WaiterServed` (liveness) |
| `block_device` (34,857 sym) | 2 disks, 2 requests, 3 `ARef`s, 2 contexts | `RequestInv`: counts exact, ends exclusive, no stale `ARef`. `TagSetInv`, `QueueAlive`, `NoIoAfterDrop`: the tag set goes once, after everything that reaches it, and a disk that was dropped or given up has no I/O left |
| `buffers` (606,904) | slices in 5 addresses, pages of 2, 5 texts, 5-bit integers, pools of 2 to 16 IDs with 2 users | `AccessInside`, `BytesExact`, `ConversionsExact`, `PoolExact`: accesses stay in bounds, bytes are neither repeated nor uninitialised, errors and ioctl numbers survive, IDs and arrays of a pool stay exact while it is resized |
| `kvec` (10,569 sym) | 4 values, sizes 0 to 2, `isize::MAX` = 4 | `VecInv`: each value owned once, layout and capacity right. `ImplementsVec`: calls are those of `KVecSpec` |
| `list` (2,341 sym) | 2 lists, 4 items, a cursor each | `ListInv`: rings, reachable, owned `first`, owned cursors. `ImplementsListSpec` |
| `list_arc` (94,219) | 5 slots, 3 IDs | `CountInv`, `TrackerInv`, `UniqueAlone`: counts exact and nothing leaked, one `ListArc` per ID, a `UniqueArc` is alone |
| `misc_device` (1,044,136 sym) | a state of 3 fields, 2 files, 2 descriptors, 2 `ARef`s | `InitInv`: exactly what was initialised is dropped, in order. `DeviceInv`, `FilesInv`, `OpenFilesInv`: device, files and private data are given up once, and private data is there as long as the file. `SafeOnceDrained`: a driver that refuses opens and has no files can drop its registration, or fail. `EarlyOnlyInWindow`: see Findings |
| `mm` (1,169,688) | 2 threads, 4 pages, kernels with and without `mmput` and `mmput_async` | `HandlesInv`: counts exact, users keep the mappings. `AreaInv`: areas stay put under the lock, permissions allowed, pages counted. `OthersUntouched`: zapping stays in the area. `MappingsGo` (liveness, where both were found) |
| `rb_tree` (196,457 sym) | 3 nodes, 3 keys, 2 values, every shape | `TreeInv`: sorted, nodes owned once, views in the tree. `ImplementsMap`: calls are those of `RBTreeSpec` |
| `rust_support` (240,216) | several kernels (section 2), buffers of 0 to 2 | `ShimInv`: no unresolved mandatory name is called, best offsets, nothing left of a failed load. `ObjectsInv`: objects and images counted. `BufferBacked`: realloc keeps or moves the contents. `LoadEnds` (liveness) |

An invariant whose name ends in `Inv` (and `NothingMissed`, `LocksExclude`,
`TestsAttributed`, `AccessInside`, `BytesExact`, `ConversionsExact`, `PoolExact`) is the conjunction of the named parts
its definition lists; the text below refers to the parts. Every checked property has
a mutant, a plausible bug in a definition it depends on, under which TLC finds it
violated.

### Findings

Seven statements in the code do not hold of what the code does. The models keep the
code's behaviour; the constant or the property named shows it.

* `request.rs:124`: "no `ARef`s pointing to this request" when `try_set_end` succeeds. A
  driver that stores an `ARef` and returns `Err` has its request queued again, where `store(2)`
  forgets the stored one. `CleanErrors = FALSE` shows it; the runs have `TRUE`.
* `shim_kunit.c:366`: the dispatcher finds a test by name only, so that of two modules with a test of
  one name the first registered is called for both. The runs have distinct names, and
  `TestsAreAttributed` has that as its hypothesis.
* `workqueue.rs:630`: a box "cannot be in a workqueue", so enqueueing it cannot fail. The
  wrapper of a missing `queue_work_on` returns false (`Resolved = FALSE`).
* `miscdevice.rs:138`: the inner pointer is said to be valid, but an open between `misc_register` and
  `slot.write` reads it before it was written. `EarlyOnlyInWindow` bounds the window.
* `miscdevice.rs:164`: the miscdevice "is no longer in use" when it is freed, and its
  `file_operations` with it. Files that are open still point to them (`fops.owner` is null, so nothing keeps
  the registration or the module), when the owner drops the registration and also when a
  later field of the same struct fails to initialise, whose error path drops it at once
  (`init/macros.rs:1213`). In the model `stale` is then not empty. `SafeOnceDrained` says
  what a driver has to do to keep it empty, and that it is enough.
* `shim_fs_misc.h:29`: `struct rs_miscdevice_fops` is said to be "layout-compatible" with `MiscdeviceFops`. It has
  `compat_ioctl` on a kernel with `CONFIG_COMPAT`; the Rust struct (`miscdevice.rs:347`) never has it, because
  `scripts/build-rust.sh` does not set that cfg. On such a kernel the C side takes the pointer of
  `show_fdinfo` for `compat_ioctl` and reads `show_fdinfo` past the end. `FopsTable` is the table
  of kernels without `CONFIG_COMPAT`.
* `id_pool.rs:179`: "in case shrinking to the size of `resizer` is no longer possible, do nothing". A
  request at capacity 16 gives a resizer of 8; if another thread shrinks the pool to 8 and to 4
  meanwhile, line 185 compares 2 with 8 and `shrink` enlarges the pool to 8. `IdsExact` holds all the same.

Known besides: three comments say something else than the code and the models. `locked_by.rs:101` has "at most one
thread" at the data, where lines 90 and 91, `access` and `AccessExclusive` allow many readers. `kvec.rs:366`
says that `insert_within_capacity` panics on an index out of bounds; it returns `Err`. The invariant of
`IterRaw` (`rbtree.rs:1022`) calls `next` a valid pointer; after the last node it is null, as `ViewInTree` allows.
`in_kunit_test` reads the pointer to the current test, which a
failed assertion leaves set (the thread ends before the dispatcher resets it), so
it stays true until the next test has run. The pool of `kunit.rs:204` has 128 cases
with the null case, and nothing compares the number of tests with it. The notifier of
`main.c:24` hands the suites of every module to `init_test_suites`, also of one that the
SDK did not build. And wrappers of optional names skip the call when
the name is missing: without `rb_insert_color` a node is linked and not balanced, without
`del_gendisk` a dropped disk stays in the VFS (`shim.c:627`), without `misc_deregister` a
dropped registration stays registered (`shim.c:558`), without
`errno_to_blk_status` an error is reported as `BLK_STS_OK` (`shim.c:668`), and with
`put_device` alone a count that was never taken is given back (`shim.c:502`;
`CountsExact` of `KernelObjects` says so and excludes it). The components are checked for kernels
that have the names.

**Bounds.** `MqRequest`: three handles allow an ending thread, a cloning one and
one left over from an earlier dispatch, and two requests compete for the contexts.
`RsKunit`: with two modules besides rust_support every order of two
overlapping loads and unloads occurs, and compaction moves entries of a
module on both sides of the removed ones; registries of 6 and 3 are exactly full, and too
small. `WorkQueue`: `MaxArcs = 3` is one Arc pending, one running, one held; the two
queues have different pools, one of them with two workers, so that an item collides within a
pool and runs in two at once. `Sync`: two tokens and two waiters allow a notification to be
taken by a waiter that has just timed out while another sleeps; two memory addresses beside
the global lock allow a lock to be freed and another made where a `LockedBy` points.
`BlockDevice`: two disks share a tag set, so that one can fail while the other works, and names
are shorter than, as long as and longer than the buffer. `PinInit`: a plain field, the
registration and a chained array of two, declared in another order than initialised, let every kind
of initialiser fail after every other. `MiscDevice`: two files, two descriptors, two `ARef`s, so that one file can be old and stale while
another is being opened.
`RustSupport`: kernels with all names, without each optional group, without a mandatory one, with
and without BTF and anchor; buffers of 0 to 2 units over pages of 2. `Mm`: four pages, wrapping,
two threads; `MaxUsers = 3` is the process and a user of each thread, or users a kernel without `mmput` leaves behind. `Buffers`: five addresses and pages of two, so that slices wrap, cross pages and
start unmapped; texts with and without NUL, up to one that saturates; pools of up to
16 IDs, three halvings, so that a resizer is overtaken by two of another thread; 5-bit integers, 4-bit shorts and
errors that fill them. `List`: four items are needed to
splice two lists of two; a ring of three and a lone fourth item cover
removal with distinct, equal and self neighbours. `ListArc`: five slots allow two
calls in progress beside a lender and two further references.
`RBTree`: three nodes and keys make a lower bound that is met first, last or not at all, a cursor
with both neighbours, and a replaced node beside others.
`KVec`: with `isize::MAX` = 4 a Vec of bytes holds four values and one of
two-byte values two, so both limits are met and crossed, doubling happens twice,
and an iterator can be part of the way through; slices have up to three elements.
The proofs remove these bounds from everything but liveness (section 4).

**Fairness.** `WorkQueue`: a thread finishes the enqueue it has begun, and each
worker goes on taking and finishing work; that is what kworkers do as long as
`run` returns. `CondVar`: a runnable thread keeps running (weak fairness); the
kernel's mutex hands itself to a thread that has long waited, which is strong
fairness of `Relock`. Nobody is obliged to signal, time out, notify or ask for
a token. `Mm`: the kernel tears an address space down once its last user is gone (weak
fairness of the teardown). `RustSupport`: a load that has begun goes on (weak fairness of
its steps).

**Deadlock** is not checked where the system may stop: `block_device` (a driver may lose a request),
`misc_device` and `mm` (all files, handles and the process may be gone).

## 4. What is proved

Each `_proofs` module proves its theorems for every value of the constants: an
inductive invariant, one lemma per action or group of actions that change the same thing,
and the theorems as corollaries. Some theorems have a hypothesis about the kernel or
the driver; the runs set the same ones, and without it the property fails in the way
*Findings* says.

| Property | Theorem | Hypothesis |
|---|---|---|
| `RequestInv` | `RequestsAreSound` (requests alone), `DiskRequestsAreSound` (with disks) | `CleanErrors` |
| `TagSetInv` | `TagSetIsReleased` | |
| `QueueAlive`, `NoIoAfterDrop` | `QueueIsAlive`, `IoIsOver` | `CleanErrors`; `Waits`: `del_gendisk` and `blk_mq_free_tag_set` resolved |
| `OwnershipInv`, never `ub` | `WorkIsOwned`, `BoxIsNeverRefused` | `Resolved`: `queue_work_on` |
| `WaitQueueInv`, `NothingMissed`, `LocksExclude` | `WaitQueuesAreSound`, `NothingIsMissed`, `LocksAreExclusive` | |
| `InitInv`, `FilesInv`, `OpenFilesInv` | `DriverInitIsExact`, `FilesAreExact`, `PrivateDataIsKept` | |
| `DeviceInv`, `EarlyOnlyInWindow`, `SafeOnceDrained` | `DeviceIsBacked`, `EarlyReadsInWindow`, `DrainedDropIsSafe` | `Undone`: `misc_deregister` resolved |
| `HandlesInv`, `AreaInv`, `OthersUntouched` | `HandlesKeepTheirs`, `AreaStaysPut`, `OthersStayMapped` | |
| `VecInv`, `ImplementsVec` | `VecIsSound`, `VecRefines` | |
| `ListInv`, `ImplementsListSpec` | `ListsAreSound`, `ListRefines` | |
| `CountInv`, `TrackerInv`, `UniqueAlone` | `CountsAreSound`, `TrackersAreSound`, `UniqueIsAlone` | |
| `TreeInv`, `ImplementsMap` | `TreeIsSound`, `TreeRefines` | |
| `AccessInside`, `BytesExact`, `ConversionsExact`, `PoolExact` | `AccessStaysInside`, `BytesAreExact`, `ConversionsAreExact`, `PoolIsExact` | |
| `ShimInv`, `ObjectsInv`, `BufferBacked` | `LoadIsWhole`, `ObjectsBalance`, `BufferIsBacked` | |
| `RegistryInv` | `RegistryIsSound` | |
| `TestsAttributed` | `TestsAreAttributed` | `DistinctNames`: no two tests have one name |

The assumptions on the constants are those the modules name (`ASSUME`): sets that are
counted are finite, "none" is not an element, bounds are positive, fields and
integers have a size. TLC evaluates them in every run.

* **BlockDevice_proofs** — first `MqRequest` alone: `TypeCorrect`, `CountIsExact`,
  `EndIsExclusive`, `RefsAreLive`. `RefcountExact` is not inductive: it needs that only
  one context dispatches a request, that a request the block layer owns has no ARefs and
  that an ARef made by a callback belongs to that callback's request (`HandleInv`,
  `QuietInv`, `CallbackInv`, `UniqueInv`, `DispatchInv`). `RefMax` only has to exceed the
  number of handles by two: the u64 never wraps. Then the disks: every step of `DNext`
  is one of `MqRequest` or leaves its variables alone (`DStepRefines`), so its invariants
  hold with disks too. `BInv` ties the two allocations to the phase of the
  construction and the Arcs to the state of each disk, and gives `TagSetInv` without
  hypotheses. `DInv` adds that an initialised request has a tag set (`KeptInv`), and that
  whatever is out of the block layer's hands has a disk that still owns its Arc (`IoInv`):
  that is what `del_gendisk` and `blk_mq_free_tag_set` wait for.
* **WorkQueue_proofs** — `WInv`. The count is the sum of the sizes of four sets of
  owners, and each action moves one element from one to another; `ArcAdded`, `RawSet`,
  `PutOnList`, `RunEntered` and their inverses say so once. Taking an item off a list
  takes one owner off only because no list has it twice (`ListsInv`), and a worker is an owner
  only while it has not given its Arc away (`RunInv`). A box has one owner (`BoxInv`), so one that is being
  enqueued is pending nowhere, is not refused, and cannot be called twice.
* **Sharing_proofs**, `Sync` — `SInv`, for condition variables, pollers and locks. That no
  wakeup is lost is not inductive: a notification could go to a task that has just timed out.
  `TokenInv` says whom the tokens are for: while a thread sleeps, each token has an awake thread that will fetch it or a producer that has
  yet to notify. Which task `notify_one` wakes needs that the queue is an order
  (`QueueInv`) with a first sleeper; that one exists is the minimum of a well-founded set of
  numbers. `PollerInv` and `LocksInv` do the same for epoll items and for locks,
  where an address may have been freed and used again: a reference borrows a guard that owns the lock, and a
  mutable one is the guard's only one (`BorrowInv`).
* **Sharing_proofs**, `List` — `LinksAreRings`, `NothingIsLost`, `FirstIsOwned`,
  `CursorIsOwned`. That `next` and `prev` invert each other (`RingInv`) says
  nothing about a list that fell into two rings, so removal could leave
  `first` in the wrong one. `Reachable` excludes it without recursion: every set
  that contains `first` and is closed under `next` contains all items of the
  list. Insertion, removal and splicing are one lemma each (`Inserted`,
  `Removed`, `Spliced`); the calls cite them.
  `ListRefines`: `Walk` is recursive, and what it computes cannot be had by
  induction here. But its equation has one solution only: two that differ would
  differ at a least hop, and the hop before agrees (`HopsUnique`). So it is enough to
  exhibit a solution. `WalkInv` says that every list has one (`IsWalk`: a sequence without
  repetitions that starts at `first`, follows `next`, returns to `first` and has all the
  list's items), and `WalkInserted`, `WalkRemoved` and `WalkSpliced` make the one after a
  call from the ones before it. A cursor stands somewhere on the walk (`CursorOnWalk`), at the one
  place that has its item (`PositionIs`). The `...Reads` lemmas, one per call, conclude that
  it is the call of `ListSpec`.
* **Sharing_proofs**, `ListArc` — `ListArcIsUnique`, `TrackerIsExact`, `CountIsExact`,
  `LastIsKept`, `UniqueIsAlone`. `CallsOK` relates the parts of a call in
  progress: what it wants, whom it borrows from, that its lender stays counted.
  `CountUp`, `CountDown` and `LastOne` are the facts about cardinalities.
* **Driver_proofs** — the parts a character driver is made of. `PInv`: in each mode of the
  initialiser, what is live is what has been reached, or what is still to be dropped
  (`ModeInv`), and earlier elements outlive later ones. `MiscDevice` takes only steps
  of `PinNext`, so `PInv` holds of it. `FileInv` counts the descriptors, system calls,
  mappings and ARefs of a file. `DevInv` adds that the device is listed as long as the
  registration is live, and a little longer at either end (`RegInv`): `EarlyReadsInWindow` bounds
  the early end. `DrainInv` says that while a driver refuses opens no file is open but the one
  `misc_open` works on, for which `misc_deregister` waits. `HandleInv` counts the handles of an `mm_struct` and says who is its
  last user (`UserInv`, `LastUserInv`); `FullInv` says where an area is linked
  (`LinkInv`), that others have none of its addresses (`PlaceInv`), and whose page is in it
  (`PageInv`). `OthersUntouched` follows for any size of the address space, wrapping ranges included.
* **RBTree_proofs** — `SortedAlways`, `NodesOwnedAlways`, `ViewInTreeAlways`.
  `Sorted` needs what a loop knows: all keys left of `lo` are smaller and all right of `hi`
  larger than the argument (`LoopInv`), and `parent` is next to the interval on
  the side `child` tells (`SearchInv`); so the place where the search ends is the
  gap the key belongs in (`AtNullGap`), and a `VacantEntry` remembers it
  (`VacantInv`). `Linked`, `Erased` and `Replaced` are the facts about the sequence.
  `TreeRefines` needs besides that a node with a key has a value (`ValInv`) and that the
  best match of `cursor_lower_bound` is the first node after the subtree it looks at
  (`BestInv`). `LeastFrom` and `GreatestTo` turn a position in the order into the `Min` or `Max` of
  the specification; `MapPut`, `MapWritten` and `MapErased` are what a step does to the map.
* **KVec_proofs** — `OwnedOnceAlways`, `AllocExactAlways`, `CapacityFitsAlways`, for
  any number of values, any size of `T` and any width of `usize`. `OwnedOnce` speaks
  of the slots in use only; the induction needs that *no* other slot holds a
  value (`Full`), that no value is twice in the buffer (`Injective`), that the buffer's values are
  exactly those moved in (`Exactly`), and which of the two ranges, that of the Vec or that of
  the iterator, is used in which state (`StateInv`). `Written`, `Vacated` and
  `Moved` are the facts about slots; `ReserveGrows` is the arithmetic. For `VecRefines`,
  `InsertedAt`, `RemovedAt` and their like compare the slots after a call with the sequence
  that the specification puts together.

* **Buffers_proofs** — `BufInv`, four parts that share no variable. `StrInv`: the two passes
  of `try_from_fmt` may print different texts, so nothing measured in the first is known of
  the second; what makes the string valid is that the formatter ends with its buffer
  (`FormatterOfBuffer`), that all bytes up to its position are written as long as no piece was
  too long (`PassExact`), and that the NUL is the last of them (`Terminated`). `UserInv`: reader and
  writer stand some number of bytes into the slice (`At`), modulo the address space, and what
  was read lies behind the reader (`ReaderAt`), so no byte is fetched twice. `ConvInv`: a
  pointer that is carried is an object or one of the last `MaxErrno` addresses (`ResultShape`), which
  no object has; `MixedBase` is why the fields of an ioctl number do not overlap. `PoolInv`: the sizes a
  resizer and a bitmap can have (`JobSizes`, `MapSize`), and one array for the pool and one for
  each of `Owners`, the resizers that have allocated.
* **Support_proofs** — `SupportInv`. `LoadInv` says for each stage of the load what is set up
  (`FlagsOfStage`), which names are resolved (`NamesOfStage`) and where the offsets are from
  (`OffsetsOfStage`); unloaded is a stage like the others, so nothing can be left of a failed load.
  `ObjInv` and `AllocInv` have the counts and the blocks; `BufferWhole` says that a buffer is
  there with a size above 0, or not at all. `RegInv` is about the KUnit registry: an entry has the name and function of
  a case of a module that is there (`EntriesInv`), and no case has three entries, or two before
  `__init` has been through it (`TwiceInv`). Hence the entries are no more than the tests plus those that
  come twice (`LenIs`); the first registration of a case always finds room (`RoomLeft`) if the registry
  has the size `Demand`, and so every case it has been through is there (`RegisteredInv`).
  That compaction keeps order and entries is counting: `Rank` says how many indices are kept up to one.
  `RunsInv`: the function a test is about to call is its own, and with serial runs a failure goes to it.

The attempt to prove changed the models where they said too much, too little or
something that cannot be reasoned about: the cases of `shrink_request` overlapped; nothing
said that the addresses of a string leave room for its buffer (`StringsAssumption`), that an anchor scan
only finds fields of a task (`KernelsAssumption`), that a driver's handles do not exhaust a
count (`ObjectsAssumption`), or that the mark of a closed cursor is no position (`Distinct`); widths were
numbers of bits, and the provers do not calculate powers; the compaction and the size of the registry
were recursive.

Only model-checked: liveness (`SpawnedIsCalled`, `WaiterServed`, `MappingsGo`, `LoadEnds`). The
prover has no rules for fairness, nor for `ENABLED`.

## 5. Not modelled

Not modelled for good: bindings, accessors that copy a field (the getters and setters of
`shim_*.c`), build scripts, token rewriting in the macros (what `module!`,
`kunit_tests!` and `pin_init!` expand to is in `RsKunit` and `PinInit`), `net/phy.rs` (under `CONFIG_RUST_PHYLIB_ABSTRACTIONS`, which no build script sets;
the scripts set only `CONFIG_MMU`, `CONFIG_PRINTK`, `CONFIG_BLOCK` and `CONFIG_64BIT`), the per-VMA lock for the
same reason, the wording of messages, the kallsyms and type_info submodules (not in the
tree). Memory orderings weaker than sequential consistency are not modelled.

The plan is carried out: every property of a run that is not liveness has its theorem. What would
add to it is the C side of the workqueue and of the block layer as models of their own in place of what
the code relies on, and weak memory for the reference counts.

----------------------------- MODULE BlockDevice -----------------------------
(***************************************************************************)
(* A block driver from TagSet::new to the last drop: the tag set and its   *)
(* operations table (rust/src/block/mq/tag_set.rs, src/shim_block.c), the  *)
(* disks built on it (gen_disk.rs, raw_writer.rs) and, while a disk is in  *)
(* the VFS, the requests of MqRequest.                                     *)
(*                                                                         *)
(* The driver runs the lifecycle on one thread (phase, held, disk);        *)
(* requests are dispatched and ended concurrently with it, also while      *)
(* device_add_disk or del_gendisk has not returned.  A gendisk the driver  *)
(* gave up is never reused: the code calls put_disk nowhere.               *)
(***************************************************************************)
EXTENDS MqRequest

CONSTANTS
    Disks,          \* bound: the disks the driver builds, in all
    NoDisk,
    MaxHeld,        \* bound: Arcs of the tag set the driver keeps itself
    NameParts,      \* the names given to build, as lengths of their pieces
    DiskNameLen,    \* DISK_NAME_LEN
    Resolved        \* the optional symbols rs_shim_init found

ASSUME DisksAssumption == IsFiniteSet(Disks) /\ NoDisk \notin Disks
ASSUME HeldAssumption == MaxHeld \in Nat \ {0}
ASSUME NameAssumption ==
    /\ DiskNameLen \in Nat \ {0}
    /\ \A n \in NameParts : n \in Nat \X Nat

VARIABLES
    phase,          \* where TagSet::new or its drop is
    mem,            \* the two allocations a tag set owns
    held,           \* Arc<TagSet> values of the driver itself
    disk,           \* per disk: its gendisk
    holds,          \* the disks whose build or GenDisk owns an Arc<TagSet>
    rdisk,          \* per request: the disk it was sent to
    cdisk           \* per context: the disk queue_rq_callback runs for

dvars == <<phase, mem, held, disk, holds, rdisk, cdisk>>
allvars == <<vars, dvars>>

Phases == {"none", "ops", "init", "undo", "ready", "free"}
DiskStates == {"none", "alloc", "named", "adding", "added", "deleting",
               "deleted", "leaked"}

DTypeOK ==
    /\ phase \in Phases
    /\ mem \in [{"ops", "set"} -> {"none", "live", "freed twice"}]
    /\ held \in 0..MaxHeld
    /\ disk \in [Disks -> DiskStates]
    /\ holds \in SUBSET Disks
    /\ rdisk \in [Requests -> Disks \cup {NoDisk}]
    /\ cdisk \in [Contexts -> Disks \cup {NoDisk}]

DInit ==
    /\ Init
    /\ phase = "none"
    /\ mem = [m \in {"ops", "set"} |-> "none"]
    /\ held = 0
    /\ disk = [d \in Disks |-> "none"]
    /\ holds = {}
    /\ rdisk = [r \in Requests |-> NoDisk]
    /\ cdisk = [c \in Contexts |-> NoDisk]

\* kfree of the allocation x.
Kfree(m, x) ==
    [m EXCEPT ![x] = IF @ = "live" THEN "none" ELSE "freed twice"]

AllUninit == \A r \in Requests : blk[r] = "uninit"

\* In the VFS: the block layer may send requests to the disk.
Reachable(d) == disk[d] \in {"adding", "added"}

\* What blk_mq_freeze_queue and the quiesce of the hardware contexts wait for.
Quiet(d) == (\A r \in Requests : rdisk[r] # d) /\ (\A c \in Contexts : cdisk[c] # d)

-----------------------------------------------------------------------------
(* TagSet::new.                                                            *)

\* rs_blk_mq_ops_alloc.  When it returns NULL nothing has happened yet.
OpsAlloc ==
    /\ phase = "none"
    /\ mem' = [mem EXCEPT !["ops"] = "live"]
    /\ phase' = "ops"
    /\ UNCHANGED <<vars, held, disk, holds, rdisk, cdisk>>

\* rs_blk_mq_tag_set_alloc up to the call of blk_mq_alloc_tag_set.
SetAlloc ==
    /\ phase = "ops"
    /\ \/ /\ mem' = [mem EXCEPT !["set"] = "live"]
          /\ phase' = "init"
       \/ /\ mem' = Kfree(mem, "ops")
          /\ phase' = "none"
    /\ UNCHANGED <<vars, held, disk, holds, rdisk, cdisk>>

\* blk_mq_alloc_tag_set calls init_request_callback for each request.
AllocTagSetInit(r) ==
    /\ phase = "init"
    /\ InitRequest(r)
    /\ UNCHANGED dvars

AllocTagSetOk ==
    /\ phase = "init"
    /\ \A r \in Requests : blk[r] = "idle"
    /\ phase' = "ready"
    /\ held' = 1
    /\ UNCHANGED <<vars, mem, disk, holds, rdisk, cdisk>>

\* Mutant: the error path of blk_mq_alloc_tag_set forgets the table.
AllocTagSetErr_KeepsOps ==
    \/ /\ phase = "init"
       /\ phase' = "undo"
       /\ UNCHANGED <<vars, mem, held, disk, holds, rdisk, cdisk>>
    \/ /\ phase = "undo"
       /\ AllUninit
       /\ mem' = Kfree(mem, "set")
       /\ phase' = "none"
       /\ UNCHANGED <<vars, held, disk, holds, rdisk, cdisk>>

\* blk_mq_alloc_tag_set gives up (at any request, or at once when the symbol
\* is unresolved), has exit_request_callback called for what it initialised,
\* and rs_blk_mq_tag_set_alloc frees both allocations.
AllocTagSetErr ==
    \/ /\ phase = "init"
       /\ phase' = "undo"
       /\ UNCHANGED <<vars, mem, held, disk, holds, rdisk, cdisk>>
    \/ /\ phase = "undo"
       /\ AllUninit
       /\ mem' = Kfree(Kfree(mem, "set"), "ops")
       /\ phase' = "none"
       /\ UNCHANGED <<vars, held, disk, holds, rdisk, cdisk>>

\* exit_request_callback, called by blk_mq_alloc_tag_set on its error path and
\* by blk_mq_free_tag_set.
ExitOne(r) ==
    /\ \/ phase = "undo"
       \/ phase = "free" /\ "blk_mq_free_tag_set" \in Resolved
    /\ ExitRequest(r)
    /\ UNCHANGED dvars

-----------------------------------------------------------------------------
(* The Arcs of the tag set.                                                *)

\* Mutant: a GenDisk does not keep the Arc it was built with.
AfterDrop_DisksHoldNone(n, hs) == IF n = 0 THEN "free" ELSE phase

\* The phase after an Arc is gone: the last one runs TagSet's PinnedDrop.
AfterDrop(n, hs) == IF n = 0 /\ hs = {} THEN "free" ELSE phase

CloneTagSet ==
    /\ held \in 1..(MaxHeld - 1)
    /\ held' = held + 1
    /\ UNCHANGED <<vars, phase, mem, disk, holds, rdisk, cdisk>>

\* The driver drops an Arc, or build drops the one it was given because
\* __blk_mq_alloc_disk failed, returned NULL or is unresolved.
DropTagSet ==
    /\ held > 0
    /\ held' = held - 1
    /\ phase' = AfterDrop(held - 1, holds)
    /\ UNCHANGED <<vars, mem, disk, holds, rdisk, cdisk>>

\* rs_blk_mq_tag_set_free, after blk_mq_free_tag_set has returned.
TagSetFree ==
    /\ phase = "free"
    /\ "blk_mq_free_tag_set" \in Resolved => AllUninit
    /\ mem' = Kfree(Kfree(mem, "set"), "ops")
    /\ phase' = "none"
    /\ UNCHANGED <<vars, held, disk, holds, rdisk, cdisk>>

-----------------------------------------------------------------------------
(* GenDiskBuilder::build and GenDisk.                                      *)

\* RawWriter::write_str: the last byte of the buffer is never written.
WriteStr(pos, len) == IF pos + len > DiskNameLen - 1 THEN -1 ELSE pos + len

\* write_fmt of a name in two pieces, then the terminator.
NameFits(n) ==
    /\ WriteStr(0, n[1]) >= 0
    /\ WriteStr(n[1], n[2]) >= 0
    /\ WriteStr(n[1] + n[2], 1) >= 0

\* The error returns of build once the gendisk exists: the Arc is dropped, the
\* gendisk is not.
GiveUp(d) ==
    /\ disk' = [disk EXCEPT ![d] = "leaked"]
    /\ holds' = holds \ {d}
    /\ phase' = AfterDrop(held, holds \ {d})

\* The Arc moves into build, and __blk_mq_alloc_disk succeeds.
AllocDisk(d) ==
    /\ held > 0
    /\ disk[d] = "none"
    /\ disk' = [disk EXCEPT ![d] = "alloc"]
    /\ held' = held - 1
    /\ holds' = holds \cup {d}
    /\ UNCHANGED <<vars, phase, mem, rdisk, cdisk>>

\* The name is written into the gendisk, or build returns the fmt error.
WriteName(d, n) ==
    /\ disk[d] = "alloc"
    /\ IF NameFits(n)
       THEN disk' = [disk EXCEPT ![d] = "named"] /\ UNCHANGED <<holds, phase>>
       ELSE GiveUp(d)
    /\ UNCHANGED <<vars, mem, held, rdisk, cdisk>>

\* device_add_disk: the disk is reachable before the call returns.
AddDisk(d) ==
    /\ disk[d] = "named"
    /\ disk' = [disk EXCEPT ![d] = "adding"]
    /\ UNCHANGED <<vars, phase, mem, held, holds, rdisk, cdisk>>

AddDiskOk(d) ==
    /\ disk[d] = "adding"
    /\ disk' = [disk EXCEPT ![d] = "added"]
    /\ UNCHANGED <<vars, phase, mem, held, holds, rdisk, cdisk>>

\* device_add_disk fails, before or after the disk was reachable; the kernel
\* takes it out of the VFS again before it returns.
AddDiskErr(d) ==
    /\ disk[d] \in {"named", "adding"}
    /\ Quiet(d)
    /\ GiveUp(d)
    /\ UNCHANGED <<vars, mem, held, rdisk, cdisk>>

\* GenDisk::drop calls del_gendisk, which stops new requests.
DropDisk(d) ==
    /\ disk[d] = "added"
    /\ d \in holds
    /\ "del_gendisk" \in Resolved
    /\ disk' = [disk EXCEPT ![d] = "deleting"]
    /\ UNCHANGED <<vars, phase, mem, held, holds, rdisk, cdisk>>

\* Mutant: the Arc is dropped without waiting for del_gendisk.
DropDiskReturn_NoWait(d) ==
    /\ disk[d] = "deleting"
    /\ disk' = [disk EXCEPT ![d] = "deleted"]
    /\ holds' = holds \ {d}
    /\ phase' = AfterDrop(held, holds \ {d})
    /\ UNCHANGED <<vars, mem, held, rdisk, cdisk>>

\* del_gendisk returns (without the symbol rs_del_gendisk returns at once and
\* the disk stays where it is); then the field _tagset is dropped.
DropDiskReturn(d) ==
    /\ d \in holds
    /\ IF "del_gendisk" \in Resolved
       THEN /\ disk[d] = "deleting"
            /\ Quiet(d)
            /\ disk' = [disk EXCEPT ![d] = "deleted"]
       ELSE disk[d] = "added" /\ UNCHANGED disk
    /\ holds' = holds \ {d}
    /\ phase' = AfterDrop(held, holds \ {d})
    /\ UNCHANGED <<vars, mem, held, rdisk, cdisk>>

-----------------------------------------------------------------------------
(* Requests, as in MqRequest, for the disks that exist.                    *)

\* A new request goes to a reachable disk, a requeued one back to its own.
SendRequest(c, r, d) ==
    /\ IF blk[r] = "requeue" THEN rdisk[r] = d ELSE Reachable(d)
    /\ Dispatch(c, r)
    /\ rdisk' = [rdisk EXCEPT ![r] = d]
    /\ cdisk' = [cdisk EXCEPT ![c] = d]
    /\ UNCHANGED <<phase, mem, held, disk, holds>>

\* A request that is back with the block layer belongs to no disk.
ForgetEnded ==
    rdisk' = [r \in Requests |-> IF blk'[r] = "idle" THEN NoDisk ELSE rdisk[r]]

CallbackStep(c) ==
    /\ (\E h \in Handles : QueueRqStore(c, h)) \/ QueueRqStart(c)
    /\ UNCHANGED dvars

CallbackReturns(c) ==
    /\ QueueRqOk(c) \/ QueueRqErr(c)
    /\ ForgetEnded
    /\ cdisk' = [cdisk EXCEPT ![c] = NoDisk]
    /\ UNCHANGED <<phase, mem, held, disk, holds>>

DriverStep(h) ==
    /\ (\E g \in Handles : CloneRef(h, g)) \/ DropRef(h) \/ TrySetEnd(h)
    /\ UNCHANGED dvars

DriverEnds(h) ==
    /\ EndRequest(h)
    /\ ForgetEnded
    /\ UNCHANGED <<phase, mem, held, disk, holds, cdisk>>

-----------------------------------------------------------------------------
DNext ==
    \/ OpsAlloc \/ SetAlloc \/ AllocTagSetOk \/ AllocTagSetErr
    \/ \E r \in Requests : AllocTagSetInit(r) \/ ExitOne(r)
    \/ CloneTagSet \/ DropTagSet \/ TagSetFree
    \/ \E d \in Disks :
         \/ AllocDisk(d) \/ (\E n \in NameParts : WriteName(d, n))
         \/ AddDisk(d) \/ AddDiskOk(d) \/ AddDiskErr(d)
         \/ DropDisk(d) \/ DropDiskReturn(d)
    \/ \E c \in Contexts, r \in Requests, d \in Disks : SendRequest(c, r, d)
    \/ \E c \in Contexts : CallbackStep(c) \/ CallbackReturns(c)
    \/ \E h \in Handles : DriverStep(h) \/ DriverEnds(h)

DSpec == DInit /\ [][DNext]_allvars

-----------------------------------------------------------------------------
(* Properties.                                                             *)

\* Every gendisk the driver has not given up, from __blk_mq_alloc_disk to the end
\* of del_gendisk, and every request that was initialised find the tag set and
\* its operations table allocated: no failure of build and no order of dropping
\* Arcs and disks frees them early.  A gendisk that a failing build leaks keeps
\* a pointer to the tag set; NoIoAfterDrop says that nothing uses it any more.
QueueAlive ==
    (\E d \in Disks : disk[d] \notin {"none", "deleted", "leaked"})
        \/ (\E r \in Requests : blk[r] # "uninit")
    => mem = [m \in {"ops", "set"} |-> "live"]

\* When the last Arc is gone and TagSet's drop has run, both allocations have
\* been freed, once, on every path through TagSet::new and build.
TagSetReleased ==
    /\ \A m \in {"ops", "set"} : mem[m] # "freed twice"
    /\ phase = "none" => \A m \in {"ops", "set"} : mem[m] = "none"

\* TagSet::new, build and the drops of the last Arc keep the tag set's state
\* consistent: its type, and both allocations freed exactly once when it goes.
TagSetInv == DTypeOK /\ TagSetReleased

\* After GenDisk::drop has returned, or build has given the disk up, no
\* callback runs for the disk and no ARef to one of its requests is left.
NoIoAfterDrop ==
    \A d \in Disks \ holds :
        /\ Quiet(d)
        /\ \A h \in Handles : st[h] # "free" => rdisk[rqOf[h]] \in holds
=============================================================================

-------------------------------- MODULE File --------------------------------
(***************************************************************************)
(* struct file as rust/src/fs/file.rs uses it: ARef<File> and              *)
(* ARef<LocalFile> own a normal reference count, LocalFile::fget takes one *)
(* from the descriptor table, FileDescriptorReservation commits or gives   *)
(* up a descriptor.  The descriptor table, system calls and the final      *)
(* __fput are the kernel's.                                                *)
(***************************************************************************)
EXTENDS Integers, FiniteSets

CONSTANTS
    Files,      \* bound: the files that exist at one time
    Fds,        \* the descriptors of the process
    ARefs,      \* bound: the ARef<File> values of the driver
    Callers,    \* bound: the system calls in progress
    NoFile, NoFd

ASSUME FileAssumption ==
    /\ NoFile \notin Files /\ NoFd \notin Fds /\ {"free", "reserved"} \cap Files = {}
    /\ \A S \in {Files, Fds, ARefs, Callers} : IsFiniteSet(S)

VARIABLES
    fst,        \* per file: does it exist, and has open returned?
    fcount,     \* per file: f_count
    fdt,        \* per descriptor: free, reserved, or its file
    aref,       \* per ARef: its file
    resv,       \* the descriptor of the FileDescriptorReservation
    user,       \* per system call: the file it is in a file operation of
    inMmap,     \* the system calls whose file operation is mmap
    mapped      \* the files a mapping refers to (vm_file)

filevars == <<fst, fcount, fdt, aref, resv, user, inMmap, mapped>>

FileTypeOK ==
    /\ fst \in [Files -> {"none", "opening", "open"}]
    /\ fcount \in [Files -> Nat]
    /\ fdt \in [Fds -> Files \cup {"free", "reserved"}]
    /\ aref \in [ARefs -> Files \cup {NoFile}]
    /\ resv \in Fds \cup {NoFd}
    /\ user \in [Callers -> Files \cup {NoFile}]
    /\ inMmap \in SUBSET Callers
    /\ mapped \in SUBSET Files

FileInit ==
    /\ fst = [x \in Files |-> "none"]
    /\ fcount = [x \in Files |-> 0]
    /\ fdt = [d \in Fds |-> "free"]
    /\ aref = [h \in ARefs |-> NoFile]
    /\ resv = NoFd
    /\ user = [c \in Callers |-> NoFile]
    /\ inMmap = {}
    /\ mapped = {}

\* get_file and fput.  The last fput leaves the file to FinalPut.
GetFile(x) == fcount' = [fcount EXCEPT ![x] = @ + 1]
Fput(x) == fcount' = [fcount EXCEPT ![x] = @ - 1]

-----------------------------------------------------------------------------
(* The kernel.                                                             *)

\* do_dentry_open is about to call the open operation of a new file.
OpenStart(x) ==
    /\ fst[x] = "none"
    /\ fst' = [fst EXCEPT ![x] = "opening"]
    /\ UNCHANGED <<fcount, fdt, aref, resv, user, inMmap, mapped>>

\* The open operation failed; release is not called for such a file.
OpenFails(x) ==
    /\ fst[x] = "opening"
    /\ fst' = [fst EXCEPT ![x] = "none"]
    /\ UNCHANGED <<fcount, fdt, aref, resv, user, inMmap, mapped>>

OpenReturns(x, d) ==
    /\ fst[x] = "opening" /\ fdt[d] = "free"
    /\ fst' = [fst EXCEPT ![x] = "open"]
    /\ fdt' = [fdt EXCEPT ![d] = x]
    /\ GetFile(x)
    /\ UNCHANGED <<aref, resv, user, inMmap, mapped>>

CloseFd(d) ==
    /\ fdt[d] \in Files
    /\ fdt' = [fdt EXCEPT ![d] = "free"]
    /\ Fput(fdt[d])
    /\ UNCHANGED <<fst, aref, resv, user, inMmap, mapped>>

\* A system call enters a file operation with the reference of fdget.
EnterOp(c, d, isMmap) ==
    /\ user[c] = NoFile /\ fdt[d] \in Files
    /\ user' = [user EXCEPT ![c] = fdt[d]]
    /\ inMmap' = IF isMmap THEN inMmap \cup {c} ELSE inMmap
    /\ GetFile(fdt[d])
    /\ UNCHANGED <<fst, fdt, aref, resv, mapped>>

LeaveOp(c) ==
    /\ user[c] # NoFile
    /\ user' = [user EXCEPT ![c] = NoFile]
    /\ inMmap' = inMmap \ {c}
    /\ Fput(user[c])
    /\ UNCHANGED <<fst, fdt, aref, resv, mapped>>

\* mmap succeeded: the area keeps the file.
LeaveMmap(c) ==
    /\ c \in inMmap /\ user[c] \notin mapped
    /\ user' = [user EXCEPT ![c] = NoFile]
    /\ inMmap' = inMmap \ {c}
    /\ mapped' = mapped \cup {user[c]}
    /\ UNCHANGED <<fst, fcount, fdt, aref, resv>>

Munmap(x) ==
    /\ x \in mapped
    /\ mapped' = mapped \ {x}
    /\ Fput(x)
    /\ UNCHANGED <<fst, fdt, aref, resv, user, inMmap>>

\* __fput, some time after the last reference went away.
FinalPut(x) ==
    /\ fst[x] = "open" /\ fcount[x] = 0
    /\ fst' = [fst EXCEPT ![x] = "none"]
    /\ UNCHANGED <<fcount, fdt, aref, resv, user, inMmap, mapped>>

-----------------------------------------------------------------------------
(* ARef<File>.                                                             *)

\* LocalFile::fget (Err(BadFdError) changes nothing) and assume_no_fdget_pos.
Fget(h, d) ==
    /\ aref[h] = NoFile /\ fdt[d] \in Files
    /\ aref' = [aref EXCEPT ![h] = fdt[d]]
    /\ GetFile(fdt[d])
    /\ UNCHANGED <<fst, fdt, resv, user, inMmap, mapped>>

\* Mutant: inc_ref does nothing.
ARefFrom_NotCounted(h, c) ==
    /\ aref[h] = NoFile /\ user[c] # NoFile
    /\ aref' = [aref EXCEPT ![h] = user[c]]
    /\ UNCHANGED <<fst, fcount, fdt, resv, user, inMmap, mapped>>

\* ARef::from(&File), of the file a file operation was called with.
ARefFrom(h, c) ==
    /\ aref[h] = NoFile /\ user[c] # NoFile
    /\ aref' = [aref EXCEPT ![h] = user[c]]
    /\ GetFile(user[c])
    /\ UNCHANGED <<fst, fdt, resv, user, inMmap, mapped>>

ARefClone(h, g) ==
    /\ aref[h] # NoFile /\ aref[g] = NoFile
    /\ aref' = [aref EXCEPT ![g] = aref[h]]
    /\ GetFile(aref[h])
    /\ UNCHANGED <<fst, fdt, resv, user, inMmap, mapped>>

ARefDrop(h) ==
    /\ aref[h] # NoFile
    /\ aref' = [aref EXCEPT ![h] = NoFile]
    /\ Fput(aref[h])
    /\ UNCHANGED <<fst, fdt, resv, user, inMmap, mapped>>

-----------------------------------------------------------------------------
(* FileDescriptorReservation.                                              *)

GetUnusedFd(d) ==
    /\ resv = NoFd /\ fdt[d] = "free"
    /\ resv' = d
    /\ fdt' = [fdt EXCEPT ![d] = "reserved"]
    /\ UNCHANGED <<fst, fcount, aref, user, inMmap, mapped>>

\* fd_install takes over the reference of the ARef, which is forgotten with
\* the reservation.
FdInstall(h) ==
    /\ resv # NoFd /\ aref[h] # NoFile
    /\ fdt' = [fdt EXCEPT ![resv] = aref[h]]
    /\ aref' = [aref EXCEPT ![h] = NoFile]
    /\ resv' = NoFd
    /\ UNCHANGED <<fst, fcount, user, inMmap, mapped>>

\* The reservation is dropped: put_unused_fd.
PutUnusedFd ==
    /\ resv # NoFd
    /\ fdt' = [fdt EXCEPT ![resv] = "free"]
    /\ resv' = NoFd
    /\ UNCHANGED <<fst, fcount, aref, user, inMmap, mapped>>

DriverFileStep ==
    \/ \E h \in ARefs :
         \/ \E d \in Fds : Fget(h, d)
         \/ \E c \in Callers : ARefFrom(h, c)
         \/ \E g \in ARefs : ARefClone(h, g)
         \/ ARefDrop(h)
         \/ FdInstall(h)
    \/ \E d \in Fds : GetUnusedFd(d)
    \/ PutUnusedFd

-----------------------------------------------------------------------------
(* Properties.                                                             *)

References(x) ==
    Cardinality({d \in Fds : fdt[d] = x}) + Cardinality({h \in ARefs : aref[h] = x})
        + Cardinality({c \in Callers : user[c] = x}) + Cardinality({x} \cap mapped)

\* f_count is the number of descriptors, ARefs, system calls and mappings that
\* refer to the file, and a file anything refers to has not been released.
FileRefsExact ==
    \A x \in Files :
        /\ fcount[x] = References(x)
        /\ fcount[x] > 0 => fst[x] = "open"

\* A descriptor is out of use for everyone else exactly while a reservation
\* that was neither committed nor dropped holds it.
ReservationExact == \A d \in Fds : fdt[d] = "reserved" <=> d = resv

\* Files and descriptors of fs/file.rs are given back exactly once.
FilesInv == FileRefsExact /\ ReservationExact
=============================================================================

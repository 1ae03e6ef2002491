----------------------------- MODULE MiscDevice -----------------------------
(***************************************************************************)
(* A driver with a misc device (rust/src/miscdevice.rs, src/shim_fs_misc.c)*)
(* whose MiscDeviceRegistration is one field of a value initialised in     *)
(* place (PinInit), and the files user space opens on it (File).           *)
(*                                                                         *)
(* One thread initialises and drops the value; opens, file operations and  *)
(* releases run on others.  misc_register, misc_deregister and misc_open   *)
(* take misc_mtx; the last one holds it while it calls the open operation. *)
(* Dropping the registration frees the file_operations that open files     *)
(* point to (stale).  A call through a freed table is undefined; here it   *)
(* finds the table as it was.                                              *)
(***************************************************************************)
EXTENDS PinInit, File

CONSTANTS
    RegField,           \* the field that is the MiscDeviceRegistration
    Has,                \* the optional operations the driver implements
    Resolved            \* the optional symbols rs_shim_init found

\* The operations of trait MiscDevice that have a default, which a driver may
\* leave out.
DriverOps == {"mmap", "llseek", "read_iter", "write_iter", "ioctl", "compat_ioctl", "show_fdinfo"}

ASSUME MiscAssumption ==
    /\ Has \subseteq DriverOps
    /\ RegField \in Fallible \ Chained /\ Lens[RegField] = 1

VARIABLES
    priv,       \* rs_miscdevice_priv: the miscdevice and its file_operations
    listed,     \* is the miscdevice in misc_list?
    opener,     \* the file for which misc_open holds misc_mtx
    box,        \* per file: the driver's private data
    stale,      \* the files whose file_operations were freed
    sawRaw,     \* the files whose T::open read the registration too early
    refusing    \* does the driver's T::open return Err, since no file was open?

miscvars == <<priv, listed, opener, box, stale, sawRaw, refusing>>
allvars == <<pinvars, filevars, miscvars>>

Reg == <<RegField, 1>>
Idle == opener = NoFile

MiscTypeOK ==
    /\ PinTypeOK /\ FileTypeOK
    /\ priv \in {"none", "live", "bad"}
    /\ listed \in BOOLEAN
    /\ opener \in Files \cup {NoFile}
    /\ box \in [Files -> {"none", "live", "bad"}]
    /\ stale \in SUBSET Files
    /\ sawRaw \in SUBSET Files
    /\ refusing \in BOOLEAN

MiscInit ==
    /\ PinInitState /\ FileInit
    /\ priv = "none" /\ listed = FALSE /\ opener = NoFile
    /\ box = [x \in Files |-> "none"]
    /\ stale = {} /\ sawRaw = {} /\ refusing = FALSE

-----------------------------------------------------------------------------
(* MiscDeviceRegistration::register, as the initialiser of its field.      *)

RegTurn == mode = "run" /\ at = RegField /\ count = 0

\* into_raw: rs_miscdevice_init allocates and fills in the two structures.
IntoRaw ==
    /\ RegTurn /\ priv = "none"
    /\ priv' = "live"
    /\ UNCHANGED <<pinvars, filevars, listed, opener, box, stale, sawRaw, refusing>>

\* misc_register succeeds: from now on the device can be opened.
MiscRegister ==
    /\ RegTurn /\ priv = "live" /\ ~listed /\ Idle
    /\ "misc_register" \in Resolved
    /\ listed' = TRUE
    /\ UNCHANGED <<pinvars, filevars, priv, opener, box, stale, sawRaw, refusing>>

\* slot.write(misc), and the closure returns Ok.
RegWrite ==
    /\ RegTurn /\ listed
    /\ InitElement
    /\ UNCHANGED <<filevars, miscvars>>

\* Mutant: misc_register's error path does not free what into_raw allocated.
RegErr_Leaks ==
    /\ RegTurn /\ ~listed
    /\ InitErr
    /\ UNCHANGED <<filevars, miscvars>>

\* rs_miscdevice_init returned NULL, or misc_register failed and the two
\* structures are freed.
RegErr ==
    /\ RegTurn /\ ~listed
    /\ InitErr
    /\ priv' = "none"
    /\ UNCHANGED <<filevars, listed, opener, box, stale, sawRaw, refusing>>

-----------------------------------------------------------------------------
(* PinnedDrop of the registration.                                         *)

RegDropTurn == NextToDrop(Reg)

\* misc_deregister; it waits for an open in progress, not for open files.
MiscDeregister ==
    /\ RegDropTurn /\ listed /\ Idle
    /\ "misc_deregister" \in Resolved
    /\ listed' = FALSE
    /\ UNCHANGED <<pinvars, filevars, priv, opener, box, stale, sawRaw, refusing>>

\* Mutant: the structures are freed before the device is deregistered.
MiscFree_First ==
    /\ RegDropTurn
    /\ DropElement(Reg)
    /\ priv' = IF priv = "live" THEN "none" ELSE "bad"
    /\ stale' = {x \in Files : fst[x] # "none"}
    /\ UNCHANGED <<filevars, listed, opener, box, sawRaw, refusing>>

\* rs_miscdevice_free, with the file_operations open files still point to.
MiscFree ==
    /\ RegDropTurn
    /\ "misc_deregister" \in Resolved => ~listed
    /\ DropElement(Reg)
    /\ priv' = IF priv = "live" THEN "none" ELSE "bad"
    /\ stale' = {x \in Files : fst[x] # "none"}
    /\ UNCHANGED <<filevars, listed, opener, box, sawRaw, refusing>>

-----------------------------------------------------------------------------
(* The other fields, and the memory of the value.                          *)

OtherFieldStep ==
    /\ \/ at # RegField /\ (InitElement \/ InitErr \/ ChainErr)
       \/ StartInit \/ FieldDone \/ InitOk
       \/ \E e \in Elements \ {Reg} : DropElement(e)
       \/ UnwindDone \/ DropDone
    /\ UNCHANGED <<filevars, miscvars>>

OwnerStep ==
    /\ (\E k \in {"heap", "stack"} : NewUninit(k)) \/ DropUninit
         \/ (\E k \in BOOLEAN : DropValue(k)) \/ IntoForeign \/ FromForeign
    /\ UNCHANGED <<filevars, miscvars>>

-----------------------------------------------------------------------------
(* The file operations.                                                    *)

\* MiscdeviceVTable::build.  CONFIG_COMPAT is not set in the build of the crate,
\* so compat_ioctl is never in the table.
FopsTable == {"open", "release"} \cup (Has \ {"compat_ioctl"})

\* misc_open finds the device and calls its open operation under misc_mtx.
MiscOpen(x) ==
    /\ listed /\ Idle
    /\ OpenStart(x)
    /\ opener' = x
    /\ UNCHANGED <<pinvars, priv, listed, box, stale, sawRaw, refusing>>

\* T::open looks at the MiscDeviceRegistration (as_raw, device).
OpenReads(x) ==
    /\ opener = x
    /\ sawRaw' = IF cell[Reg] = "live" THEN sawRaw ELSE sawRaw \cup {x}
    /\ UNCHANGED <<pinvars, filevars, priv, listed, opener, box, stale, refusing>>

\* generic_file_open fails or is unresolved, or T::open returns Err.
OpenErr(x) ==
    /\ opener = x
    /\ OpenFails(x)
    /\ opener' = NoFile
    /\ sawRaw' = sawRaw \ {x}
    /\ UNCHANGED <<pinvars, priv, listed, box, stale, refusing>>

\* T::open returns the private data, and into_foreign hands it to the file.
OpenOk(x, d) ==
    /\ opener = x /\ ~refusing
    /\ "generic_file_open" \in Resolved
    /\ OpenReturns(x, d)
    /\ box' = [box EXCEPT ![x] = IF @ = "none" THEN "live" ELSE "bad"]
    /\ opener' = NoFile
    /\ UNCHANGED <<pinvars, priv, listed, stale, sawRaw, refusing>>

\* llseek, read_iter, write_iter, ioctl and show_fdinfo borrow the private data
\* until they return.
Callback(c, d, op) ==
    /\ op \in FopsTable \ {"open", "release", "mmap"}
    /\ EnterOp(c, d, FALSE)
    /\ UNCHANGED <<pinvars, miscvars>>

\* mmap borrows it too, and when T::mmap returns Ok the area keeps the file.
Mmap(c, d) ==
    /\ "mmap" \in FopsTable
    /\ EnterOp(c, d, TRUE)
    /\ UNCHANGED <<pinvars, miscvars>>

OpReturns(c) ==
    /\ LeaveOp(c) \/ LeaveMmap(c)
    /\ UNCHANGED <<pinvars, miscvars>>

\* Mutant: release borrows the private data and does not take it back.
Release_Borrows(x) ==
    /\ FinalPut(x)
    /\ stale' = stale \ {x} /\ sawRaw' = sawRaw \ {x}
    /\ UNCHANGED <<pinvars, priv, listed, opener, box, refusing>>

\* release takes the private data back with from_foreign and drops it.
Release(x) ==
    /\ FinalPut(x)
    /\ box' = [box EXCEPT ![x] = IF @ = "live" THEN "none" ELSE "bad"]
    /\ stale' = stale \ {x} /\ sawRaw' = sawRaw \ {x}
    /\ UNCHANGED <<pinvars, priv, listed, opener, refusing>>

\* The driver counts its open files, and lets its T::open refuse new ones from a
\* moment at which it has none, until it accepts them again.
Refuse ==
    /\ ~refusing /\ \A x \in Files : fst[x] # "open"
    /\ refusing' = TRUE
    /\ UNCHANGED <<pinvars, filevars, priv, listed, opener, box, stale, sawRaw>>

Accept ==
    /\ refusing
    /\ refusing' = FALSE
    /\ UNCHANGED <<pinvars, filevars, priv, listed, opener, box, stale, sawRaw>>

FileStep ==
    /\ DriverFileStep \/ (\E d \in Fds : CloseFd(d)) \/ (\E x \in Files : Munmap(x))
    /\ UNCHANGED <<pinvars, miscvars>>

MiscNext ==
    \/ IntoRaw \/ MiscRegister \/ RegWrite \/ RegErr
    \/ MiscDeregister \/ MiscFree \/ OtherFieldStep \/ OwnerStep
    \/ \E x \in Files :
         \/ MiscOpen(x) \/ OpenReads(x) \/ OpenErr(x) \/ Release(x)
         \/ \E d \in Fds : OpenOk(x, d)
    \/ \E c \in Callers :
         \/ \E d \in Fds : Mmap(c, d) \/ \E op \in FopsTable : Callback(c, d, op)
         \/ OpReturns(c)
    \/ Refuse \/ Accept \/ FileStep

MiscSpec == MiscInit /\ [][MiscNext]_allvars

-----------------------------------------------------------------------------
(* Properties.                                                             *)

\* A device that can be opened has its structures, and the value its owner
\* pointer points into; an open in progress keeps all of them.
DeviceBacked ==
    listed \/ ~Idle => listed /\ priv = "live" /\ place # "none"

\* Nothing of the device is left when no registration exists: whatever made the
\* initialisation fail, and however the value is dropped, the device is
\* deregistered and its structures freed, once.
NoDeviceLeft ==
    mode = "idle" =>
        IF place \in {"value", "foreign"} THEN listed /\ priv = "live" ELSE ~listed /\ priv = "none"

\* The private data that open handed to a file is there for every descriptor,
\* ARef, mapping and running operation of the file, is taken back when they are
\* gone, once, and none is left behind: also when the registration was dropped
\* meanwhile.
OpenFilesInv ==
    \A x \in Files :
        /\ box[x] # "bad"
        /\ References(x) > 0 => box[x] = "live"
        /\ fst[x] = "none" => box[x] = "none"

\* A driver whose T::open has refused files since a moment without open ones can
\* drop its registration, or fail its initialisation, whatever opens are in
\* progress: no file_operations are freed that a file still points to.
SafeOnceDrained == [][refusing => stale' \subseteq stale]_allvars

\* An open reads the registration (as_raw, device) before it was written only
\* between misc_register and slot.write; while the registration is dropped an
\* open still finds it whole.
EarlyOnlyInWindow == [][sawRaw' \subseteq sawRaw \/ (RegTurn /\ listed)]_allvars

\* A misc device exists exactly as long as its registration, which backs it
\* whenever it can be opened.
DeviceInv == MiscTypeOK /\ DeviceBacked /\ NoDeviceLeft
=============================================================================

--------------------------- MODULE KernelObjects ---------------------------
(***************************************************************************)
(* Kernel objects that a Rust driver holds through the shim: devices,      *)
(* tasks, credentials and pid namespaces, which the kernel counts and an   *)
(* ARef owns one count of, and firmware images and security contexts,      *)
(* which one value owns outright.                                          *)
(*                                                                         *)
(* There is one object of each counted kind.  get_device, put_device and   *)
(* release_firmware are optional names: when one is missing, its half of   *)
(* the protocol silently does not happen.                                  *)
(***************************************************************************)
EXTENDS Shim, FiniteSetsExt

CONSTANTS
  MaxHeld,    \* bound: values the driver holds at a time
  MaxCount    \* bound: counts and images, which grow when nothing is put back

(* What the driver holds and the kernel's own reference can be counted. *)
ASSUME ObjectsAssumption ==
  MaxHeld \in Nat \ {0} /\ MaxCount \in Nat /\ MaxHeld < MaxCount

Objs == {"device", "task", "cred", "pidns"}

VARIABLES
  driver,    \* a driver that uses the crate is loaded
  krefs,     \* counts held by the kernel itself
  count,     \* the reference count
  arefs,     \* values of type ARef
  images,    \* firmware images loaded and not released
  firmware,  \* values of type Firmware
  contexts,  \* security contexts obtained and not released
  secctx     \* values of type SecurityCtx

objVars == <<driver, krefs, count, arefs, images, firmware, contexts, secctx>>

ObjTypeOK ==
  /\ driver \in BOOLEAN
  /\ krefs \in [Objs -> 0 .. 1]
  /\ count \in [Objs -> 0 .. MaxCount]
  /\ arefs \in [Objs -> 0 .. MaxHeld]
  /\ images \in 0 .. MaxCount /\ firmware \in 0 .. MaxHeld
  /\ contexts \in 0 .. MaxHeld /\ secctx \in 0 .. MaxHeld

ObjInit ==
  /\ driver = FALSE
  /\ krefs = [o \in Objs |-> 1] /\ count = [o \in Objs |-> 1]
  /\ arefs = [o \in Objs |-> 0]
  /\ images = 0 /\ firmware = 0 /\ contexts = 0 /\ secctx = 0

Held == arefs["device"] + arefs["task"] + arefs["cred"] + arefs["pidns"]
        + firmware + secctx

(* The driver's module depends on rust_support, so it comes after and goes *)
(* before it; when it goes, its values have been dropped.                  *)
DriverLoads ==
  /\ stage = "loaded" /\ ~driver
  /\ driver' = TRUE
  /\ UNCHANGED <<krefs, count, arefs, images, firmware, contexts, secctx>>

DriverUnloads ==
  /\ driver /\ Held = 0
  /\ driver' = FALSE
  /\ UNCHANGED <<krefs, count, arefs, images, firmware, contexts, secctx>>

(* External: the kernel gives up its own reference: the device is removed, *)
(* a task is released and with it its pid.                                 *)
KernelDrops(o) ==
  /\ krefs[o] = 1
  /\ krefs' = [krefs EXCEPT ![o] = 0]
  /\ count' = [count EXCEPT ![o] = @ - Min({@, 1})]
  /\ UNCHANGED <<driver, arefs, images, firmware, contexts, secctx>>

(* The driver has a &T: one lent by the kernel, or that of an ARef. *)
Borrows(o) == driver /\ (krefs[o] = 1 \/ arefs[o] > 0)

(* AlwaysRefCounted of each type.  Those of tasks, credentials and pid     *)
(* namespaces are inline functions behind helpers.                         *)
device_inc_ref == IF Outcome("get_device") = "called" THEN 1 ELSE 0
device_dec_ref == IF Outcome("put_device") = "called" THEN 1 ELSE 0
task_inc_ref == 1
task_dec_ref == 1
cred_inc_ref == 1
cred_dec_ref == 1
pidns_inc_ref == 1
pidns_dec_ref == 1

inc_ref == [device |-> device_inc_ref, task |-> task_inc_ref,
            cred |-> cred_inc_ref, pidns |-> pidns_inc_ref]
dec_ref == [device |-> device_dec_ref, task |-> task_dec_ref,
            cred |-> cred_dec_ref, pidns |-> pidns_dec_ref]

(* ARef::from(&T), ARef::clone. *)
ARefFrom(o) ==
  /\ Borrows(o) /\ Held < MaxHeld /\ count[o] < MaxCount
  /\ count' = [count EXCEPT ![o] = @ + inc_ref[o]]
  /\ arefs' = [arefs EXCEPT ![o] = @ + 1]
  /\ UNCHANGED <<driver, krefs, images, firmware, contexts, secctx>>

ARefDrop(o) ==
  /\ driver /\ arefs[o] > 0
  /\ count' = [count EXCEPT ![o] = @ - Min({@, dec_ref[o]})]
  /\ arefs' = [arefs EXCEPT ![o] = @ - 1]
  /\ UNCHANGED <<driver, krefs, images, firmware, contexts, secctx>>

(* Mutant: the namespace is wrapped without a count of its own. *)
task_get_pid_ns_NotCounted ==
  /\ krefs' = krefs /\ count' = count
  /\ arefs' = [arefs EXCEPT !["pidns"] = @ + 1]

(* rust_helper_task_get_pid_ns: under RCU, the namespace of a task that    *)
(* still has a pid, with a count for the caller.                           *)
task_get_pid_ns ==
  /\ krefs' = krefs
  /\ count' = [count EXCEPT !["pidns"] = @ + 1]
  /\ arefs' = [arefs EXCEPT !["pidns"] = @ + 1]

(* Task::get_pid_ns: None once the task has been released. *)
GetPidNs ==
  /\ Borrows("task") /\ Held < MaxHeld
  /\ krefs["task"] = 1 /\ krefs["pidns"] = 1
  /\ task_get_pid_ns
  /\ UNCHANGED <<driver, images, firmware, contexts, secctx>>

(* Firmware::request and request_nowarn: only an answer of zero makes a    *)
(* Firmware, so a wrapper without its function is an error, not a null     *)
(* image.                                                                  *)
request_internal(func) ==
  /\ Borrows("device") /\ Held < MaxHeld /\ images < MaxCount
  /\ Outcome(func) = "called"        \* the kernel may fail too: no step
  /\ images' = images + 1
  /\ firmware' = firmware + 1
  /\ UNCHANGED <<driver, krefs, count, arefs, contexts, secctx>>

FirmwareDrop ==
  /\ driver /\ firmware > 0
  /\ firmware' = firmware - 1
  /\ images' = IF Outcome("release_firmware") = "called" THEN images - 1 ELSE images
  /\ UNCHANGED <<driver, krefs, count, arefs, contexts, secctx>>

(* SecurityCtx::from_secid, and its drop. *)
FromSecid ==
  /\ driver /\ Held < MaxHeld
  /\ contexts' = contexts + 1
  /\ secctx' = secctx + 1
  /\ UNCHANGED <<driver, krefs, count, arefs, images, firmware>>

SecurityCtxDrop ==
  /\ driver /\ secctx > 0
  /\ secctx' = secctx - 1
  /\ contexts' = contexts - 1
  /\ UNCHANGED <<driver, krefs, count, arefs, images, firmware>>

ObjStep ==
  /\ \/ DriverLoads \/ GetPidNs \/ FirmwareDrop
     \/ FromSecid \/ SecurityCtxDrop
     \/ \E o \in Objs : KernelDrops(o) \/ ARefFrom(o) \/ ARefDrop(o)
     \/ request_internal("request_firmware")
     \/ request_internal("firmware_request_nowarn")
  /\ UNCHANGED shimVars

-----------------------------------------------------------------------------
(* The kernel has get_device and put_device, or the kind needs neither. *)
Paired(o) == o = "device" => {"get_device", "put_device"} \subseteq kernel.syms

(* Every ARef holds one count, also after the kernel gave up its own: the  *)
(* object of an ARef is alive, and none is kept alive by nobody.  For      *)
(* devices this takes both functions of the kernel; when put_device alone  *)
(* is missing the count can only be too high.                              *)
CountsExact ==
  \A o \in Objs :
    /\ Paired(o) => count[o] = krefs[o] + arefs[o]
    /\ "get_device" \in kernel.syms => count[o] >= krefs[o] + arefs[o]

(* A Firmware never stands for an image that was not loaded or has been    *)
(* released, and with release_firmware no image stays behind.              *)
FirmwareExact ==
  /\ images >= firmware
  /\ "release_firmware" \in kernel.syms => images = firmware
  /\ contexts = secctx
=============================================================================

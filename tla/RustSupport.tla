---------------------------- MODULE RustSupport ----------------------------
(***************************************************************************)
(* rust_support.ko with a driver on top: the load and unload of Shim, the  *)
(* objects the driver holds and the memory it allocates.  rust_support can *)
(* be unloaded only when no driver uses its symbols.                       *)
(***************************************************************************)
EXTENDS KernelObjects, Allocator

supportVars == <<shimVars, objVars, allocVars>>

SupportTypeOK == ShimTypeOK /\ ObjTypeOK /\ AllocTypeOK

SupportInit == ShimInit /\ ObjInit /\ AllocInit

SupportNext ==
  \/ (InsertModule \/ LoadStep \/ ExitTypeInfo) /\ UNCHANGED <<objVars, allocVars>>
  \/ ~driver /\ ExitUnregister /\ UNCHANGED <<objVars, allocVars>>
  \/ ObjStep /\ UNCHANGED allocVars
  \/ buf = NoBuffer /\ DriverUnloads /\ UNCHANGED <<shimVars, allocVars>>
  \/ driver /\ AllocStep /\ UNCHANGED objVars

(* init_module runs to its end once it has started. *)
Fairness == WF_supportVars(LoadStep /\ UNCHANGED <<objVars, allocVars>>)

SupportSpec == SupportInit /\ [][SupportNext]_supportVars /\ Fairness

-----------------------------------------------------------------------------
(* While a driver may call, no mandatory wrapper jumps to address zero:    *)
(* rs_shim_init has found every name or the load has failed.  On a kernel  *)
(* that has every name, no wrapper at all takes its fallback.              *)
Answering(s) == Outcome(s) = "called"

WrappersResolved ==
  driver => /\ \A s \in Mandatory : Answering(s)
            /\ OptionalNames \subseteq kernel.syms =>
                 \A s \in OptionalNames : Answering(s)

(* A driver reads every task field at an offset of the best source there   *)
(* is: the running task before BTF before the headers of the build, pid    *)
(* and tgid from the same one.                                             *)
BestSource(f) ==
  IF f \in kernel.anchor \/ (f = "tgid" /\ "pid" \in kernel.anchor) THEN "anchor"
  ELSE IF f \in kernel.btf THEN "btf" ELSE "compile"

OffsetsBest ==
  driver => /\ \A f \in TaskFields : ReadField(f) = BestSource(f)
            /\ ReadField("nid") = IF "nid" \in kernel.btf THEN "btf" ELSE "minus one"

(* A load that failed and an unload leave nothing behind: type_info is     *)
(* closed and the kernel no longer calls into the module.  As long as it   *)
(* does, the module is whole.                                              *)
NothingLeft ==
  /\ stage = "unloaded" => ~typeInfo /\ ~notifier
  /\ notifier => typeInfo /\ suites /\ stage = "loaded"

(* insmod returns: the module is loaded or gone, on every kernel. *)
LoadEnds == stage = "base" ~> stage \in {"loaded", "unloaded"}

\* A load of rust_support ends with every address and offset the wrappers use, or
\* with nothing (main.c, shim.c).
ShimInv == SupportTypeOK /\ WrappersResolved /\ OffsetsBest /\ NothingLeft

\* Objects held through the shim are given back exactly as often as taken.
ObjectsInv == CountsExact /\ FirmwareExact
=============================================================================

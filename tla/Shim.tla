------------------------------- MODULE Shim -------------------------------
(***************************************************************************)
(* Loading and unloading of rust_support.ko (src/main.c) and the call      *)
(* layer of src/shim.c: every kernel function the Rust crate needs is      *)
(* looked up by name when the module is loaded, and rs_<name> calls the    *)
(* address found.  20 names are mandatory: the load fails without them.    *)
(* The others are optional: their wrapper answers by itself when the name  *)
(* was not found.  Offsets of struct fields come from three sources: BTF,  *)
(* a scan of the running task (the anchor) and the headers of the build.   *)
(*                                                                         *)
(* kernel is the running kernel the module is loaded into: the names it    *)
(* resolves, the members its BTF describes, the offsets the anchor finds.  *)
(* A failed init and an exit free the module, and with it all its static   *)
(* variables: the next load starts from zeroes.                            *)
(***************************************************************************)
EXTENDS Naturals, Sequences, FiniteSets, SequencesExt

CONSTANT Kernels    \* the kernels the module may meet

(* The mandatory names, in the order in which they are looked up. *)
rs_syms == <<
  "seq_printf", "__free_pages", "strncpy_from_user", "memchr", "strlen",
  "__init_waitqueue_head", "prepare_to_wait_exclusive", "schedule_timeout",
  "__wake_up", "__wake_up_sync", "finish_wait", "synchronize_rcu",
  "__wake_up_pollfree", "set_user_nice", "sched_setscheduler_nocheck",
  "has_capability_noaudit", "task_active_pid_ns", "wake_up_process",
  "mutex_unlock", "mutex_trylock" >>

Mandatory == ToSet(rs_syms)

(* The names rs_shim_init looks up without checking the answer. *)
OptionalNames == {
  "_printk", "printk", "errname", "find_vm_area", "list_lru_count_node",
  "list_lru_walk_node", "mmput", "mmput_async", "zap_page_range_single",
  "vm_insert_page", "get_device", "put_device", "request_firmware",
  "firmware_request_nowarn", "release_firmware", "misc_register",
  "misc_deregister", "_copy_from_iter", "_copy_to_iter",
  "generic_file_open", "__blk_mq_alloc_disk", "set_capacity",
  "device_add_disk", "del_gendisk", "blk_mq_start_request",
  "blk_mq_end_request", "blk_mq_alloc_tag_set", "blk_mq_free_tag_set",
  "errno_to_blk_status", "queue_work_on", "rb_first", "rb_last",
  "rb_first_postorder", "rb_next_postorder", "rb_prev", "rb_next",
  "rb_erase", "rb_insert_color", "rb_replace_node", "system_wq",
  "system_highpri_wq", "system_long_wq", "system_unbound_wq",
  "system_freezable_wq", "system_power_efficient_wq",
  "system_freezable_power_efficient_wq" }

(* Slots that are filled from one of two names, on 6.12 and later only. *)
ReallocNames == [kvrealloc |-> <<"kvrealloc_noprof", "kvrealloc">>,
                 vrealloc  |-> <<"vrealloc_noprof", "vrealloc">>]

TaskFields == {"pid", "tgid", "group_leader", "mm", "policy", "normal_prio",
               "cred"}
Fields == TaskFields \cup {"nid"}

(* The anchor is a task: what is found in it are fields of a task. *)
ASSUME KernelsAssumption == \A k \in Kernels : k.anchor \subseteq TaskFields

VARIABLES
  kernel,     \* the running kernel
  stage,      \* where rust_support_init or rust_support_exit stands
  next,       \* index of the next mandatory name
  addr,       \* slots rs_addr_* that are not zero
  origin,     \* where the offset of each field came from; "none" = not valid
  typeInfo,   \* ti_init has been called and ti_exit has not
  suites,     \* rs_kunit_init_rust(&__this_module) has been called
  notifier    \* rs_kunit_nb is on the module notifier chain

shimVars == <<kernel, stage, next, addr, origin, typeInfo, suites, notifier>>

Stages == {"unloaded", "base", "typeinfo", "mandatory", "optional", "btf",
           "anchor", "compile", "verify", "kunit", "notifier", "loaded",
           "exit", "unwind"}

ShimTypeOK ==
  /\ kernel \in Kernels
  /\ stage \in Stages
  /\ next \in 1 .. Len(rs_syms) + 1
  /\ addr \subseteq Mandatory \cup OptionalNames \cup DOMAIN ReallocNames
  /\ origin \in [Fields -> {"none", "btf", "anchor", "compile"}]
  /\ typeInfo \in BOOLEAN /\ suites \in BOOLEAN /\ notifier \in BOOLEAN

NoOffsets == [f \in Fields |-> "none"]

ShimInit ==
  /\ kernel \in Kernels
  /\ stage = "unloaded" /\ next = 1 /\ addr = {} /\ origin = NoOffsets
  /\ typeInfo = FALSE /\ suites = FALSE /\ notifier = FALSE

(* kallrecon_klp(name), or kallsyms_name_to_addr(name): not zero? *)
rs_resolve_name(name) == name \in kernel.syms

-----------------------------------------------------------------------------
(* rust_support_init, step by step. *)

InsertModule ==
  /\ stage = "unloaded"
  /\ stage' = "base"
  /\ UNCHANGED <<kernel, next, addr, origin, typeInfo, suites, notifier>>

(* The module is freed, its static variables with it. *)
Freed ==
  /\ stage' = "unloaded" /\ next' = 1 /\ addr' = {} /\ origin' = NoOffsets
  /\ suites' = FALSE

find_kallsyms_base ==
  /\ stage = "base"
  /\ \/ kernel.recovered /\ stage' = "typeinfo"
        /\ UNCHANGED <<next, addr, origin, suites>>
     \/ ~kernel.recovered /\ Freed          \* -ENODATA
  /\ UNCHANGED <<kernel, typeInfo, notifier>>

ti_init ==
  /\ stage = "typeinfo"
  /\ \/ stage' = "mandatory" /\ typeInfo' = TRUE
        /\ UNCHANGED <<next, addr, origin, suites>>
     \/ Freed /\ UNCHANGED typeInfo
  /\ UNCHANGED <<kernel, notifier>>

(* Mutant: a missing name is skipped. *)
ResolveMandatory_SkipsMissing ==
  /\ stage = "mandatory"
  /\ IF next > Len(rs_syms)
     THEN stage' = "optional" /\ UNCHANGED <<next, addr>>
     ELSE /\ addr' = addr \cup ({rs_syms[next]} \cap kernel.syms)
          /\ next' = next + 1
          /\ UNCHANGED stage
  /\ UNCHANGED <<kernel, origin, typeInfo, suites, notifier>>

(* Mutant: a missing name starts the loop again. *)
ResolveMandatory_Retries ==
  /\ stage = "mandatory"
  /\ IF next > Len(rs_syms)
     THEN stage' = "optional" /\ UNCHANGED <<next, addr>>
     ELSE /\ addr' = addr \cup ({rs_syms[next]} \cap kernel.syms)
          /\ next' = IF rs_resolve_name(rs_syms[next]) THEN next + 1 ELSE 1
          /\ UNCHANGED stage
  /\ UNCHANGED <<kernel, origin, typeInfo, suites, notifier>>

(* The loop over rs_syms: the first missing name ends rs_shim_init with    *)
(* -ENOENT, and rust_support_init undoes ti_init before it fails.          *)
ResolveMandatory ==
  /\ stage = "mandatory"
  /\ IF next > Len(rs_syms)
     THEN stage' = "optional" /\ UNCHANGED <<next, addr>>
     ELSE IF rs_resolve_name(rs_syms[next])
          THEN /\ addr' = addr \cup {rs_syms[next]}
               /\ next' = next + 1
               /\ UNCHANGED stage
          ELSE stage' = "unwind" /\ UNCHANGED <<next, addr>>
  /\ UNCHANGED <<kernel, origin, typeInfo, suites, notifier>>

ReallocSlots ==
  {s \in DOMAIN ReallocNames :
     kernel.v612 /\ \E i \in 1 .. 2 : rs_resolve_name(ReallocNames[s][i])}

ResolveOptional ==
  /\ stage = "optional"
  /\ addr' = addr \cup {s \in OptionalNames : rs_resolve_name(s)}
                  \cup ReallocSlots
  /\ stage' = "btf"
  /\ UNCHANGED <<kernel, next, origin, typeInfo, suites, notifier>>

(* BTF of vmlinux: the offset of each member it describes. *)
rs_field_resolve_btf ==
  /\ stage = "btf"
  /\ origin' = [f \in Fields |-> IF typeInfo /\ f \in kernel.btf THEN "btf"
                                 ELSE origin[f]]
  /\ stage' = "anchor"
  /\ UNCHANGED <<kernel, next, addr, typeInfo, suites, notifier>>

(* What the scan of the current task finds replaces what BTF said; tgid is *)
(* taken to be the word after pid.                                         *)
AnchorFinds == kernel.anchor \cup (IF "pid" \in kernel.anchor THEN {"tgid"} ELSE {})

rs_task_anchor_offs ==
  /\ stage = "anchor"
  /\ origin' = [f \in Fields |-> IF f \in AnchorFinds THEN "anchor" ELSE origin[f]]
  /\ stage' = "compile"
  /\ UNCHANGED <<kernel, next, addr, typeInfo, suites, notifier>>

(* The offsets of the headers, for the task fields that are not yet valid. *)
rs_task_compile_offs ==
  /\ stage = "compile"
  /\ origin' = [f \in Fields |-> IF f \in TaskFields /\ origin[f] = "none"
                                 THEN "compile" ELSE origin[f]]
  /\ stage' = "verify"
  /\ UNCHANGED <<kernel, next, addr, typeInfo, suites, notifier>>

VerifyOffsets ==
  /\ stage = "verify"
  /\ stage' = IF \A f \in TaskFields : origin[f] # "none" THEN "kunit" ELSE "unwind"
  /\ UNCHANGED <<kernel, next, addr, origin, typeInfo, suites, notifier>>

(* rs_shim_init failed: ti_exit, and the load fails. *)
ShimInitFailed ==
  /\ stage = "unwind"
  /\ typeInfo' = FALSE
  /\ Freed
  /\ UNCHANGED <<kernel, notifier>>

KunitInitRust ==
  /\ stage = "kunit"
  /\ suites' = TRUE
  /\ stage' = "notifier"
  /\ UNCHANGED <<kernel, next, addr, origin, typeInfo, notifier>>

RegisterNotifier ==
  /\ stage = "notifier"
  /\ notifier' = TRUE
  /\ stage' = "loaded"
  /\ UNCHANGED <<kernel, next, addr, origin, typeInfo, suites>>

(* rust_support_exit: first off the notifier chain, then rs_shim_exit,     *)
(* which does nothing, ti_exit, and the module is freed.                   *)
ExitUnregister ==
  /\ stage = "loaded"
  /\ notifier' = FALSE
  /\ stage' = "exit"
  /\ UNCHANGED <<kernel, next, addr, origin, typeInfo, suites>>

ExitTypeInfo ==
  /\ stage = "exit"
  /\ typeInfo' = FALSE
  /\ Freed
  /\ UNCHANGED <<kernel, notifier>>

LoadStep ==
  \/ find_kallsyms_base \/ ti_init \/ ResolveMandatory \/ ResolveOptional
  \/ rs_field_resolve_btf \/ rs_task_anchor_offs \/ rs_task_compile_offs
  \/ VerifyOffsets \/ ShimInitFailed \/ KunitInitRust \/ RegisterNotifier

-----------------------------------------------------------------------------
(* What a wrapper does when its slot is zero: leave the call out, answer   *)
(* with an errno, with a null pointer or with zero.                        *)

ErrnameFallback == [errname |-> "null"]

(* The fallbacks of kvrealloc and vrealloc are in Allocator. *)
AllocFallback == [find_vm_area |-> "null"]

LruFallback == [list_lru_count_node |-> "zero", list_lru_walk_node |-> "zero"]

MmFallback == [mmput |-> "skip", mmput_async |-> "skip",
               zap_page_range_single |-> "skip", vm_insert_page |-> "ENOSYS"]

DeviceFallback == [get_device |-> "null", put_device |-> "skip",
                   request_firmware |-> "ENOSYS",
                   firmware_request_nowarn |-> "ENOSYS",
                   release_firmware |-> "skip"]

MiscFallback == [misc_register |-> "ENOSYS", misc_deregister |-> "ENOSYS",
                 _copy_from_iter |-> "zero", _copy_to_iter |-> "zero",
                 generic_file_open |-> "ENOSYS"]

BlockFallback ==
  [s \in {"__blk_mq_alloc_disk"} |-> "null"] @@
  [set_capacity |-> "skip", device_add_disk |-> "ENOSYS",
   del_gendisk |-> "skip", blk_mq_start_request |-> "skip",
   blk_mq_end_request |-> "skip", blk_mq_alloc_tag_set |-> "ENOSYS",
   blk_mq_free_tag_set |-> "skip", errno_to_blk_status |-> "zero"]

WorkFallback == [queue_work_on |-> "zero"]

RbFallback ==
  [rb_first |-> "null", rb_last |-> "null", rb_first_postorder |-> "null",
   rb_next_postorder |-> "null", rb_prev |-> "null", rb_next |-> "null",
   rb_erase |-> "skip", rb_insert_color |-> "skip", rb_replace_node |-> "skip"]

WqFallback ==
  [system_wq |-> "null", system_highpri_wq |-> "null",
   system_long_wq |-> "null", system_unbound_wq |-> "null",
   system_freezable_wq |-> "null", system_power_efficient_wq |-> "null",
   system_freezable_power_efficient_wq |-> "null"]

(* The wrappers of the mandatory names test nothing: the call goes to      *)
(* whatever the slot holds.                                                *)
MandatoryFallback == [s \in Mandatory |-> "jump to zero"]

Fallback ==
  ErrnameFallback @@ AllocFallback @@ LruFallback @@ MmFallback @@ DeviceFallback @@
  MiscFallback @@ BlockFallback @@ WorkFallback @@ RbFallback @@
  WqFallback @@ MandatoryFallback

(* rs__printk: _printk, or printk, or nothing. *)
rs__printk == IF addr \cap {"_printk", "printk"} # {} THEN "called" ELSE "zero"

(* A call of wrapper rs_<s>. *)
Outcome(s) == IF s \in {"_printk", "printk"} THEN rs__printk
              ELSE IF s \in addr THEN "called" ELSE Fallback[s]

(* rs_task_<f>(t) and rs_page_nid(p): the field of the running kernel, or  *)
(* the answer for an offset that is not valid.                             *)
FieldDefault == [pid |-> "zero", tgid |-> "zero", group_leader |-> "null",
                 mm |-> "null", policy |-> "zero", normal_prio |-> "zero",
                 cred |-> "null", nid |-> "minus one"]

ReadField(f) == IF origin[f] = "none" THEN FieldDefault[f] ELSE origin[f]

=============================================================================

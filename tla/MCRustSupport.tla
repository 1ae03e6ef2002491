--------------------------- MODULE MCRustSupport ---------------------------
(* Kernels that lack one name, a complete one before and one after 6.12,   *)
(* one with the mandatory names only and one that kallsyms recovery fails  *)
(* on; they differ in what BTF and the anchor know.                        *)
EXTENDS RustSupport

AllNames == Mandatory \cup OptionalNames
NewNames == {"kvrealloc_noprof", "vrealloc"}

K(syms, v612, btf, anchor, recovered) ==
  [syms |-> syms, v612 |-> v612, btf |-> btf, anchor |-> anchor,
   recovered |-> recovered]

Missing == {"seq_printf", "mutex_trylock", "find_vm_area", "release_firmware",
            "get_device", "put_device", "request_firmware"}

MCKernels ==
  {K(AllNames \ {s}, FALSE, Fields, {"pid", "cred", "mm"}, TRUE) : s \in Missing}
  \cup {K(AllNames \cup NewNames, TRUE, {}, {"pid"}, TRUE),
        K(AllNames, FALSE, {"pid", "cred"}, {"cred", "mm"}, TRUE),
        K(Mandatory, FALSE, Fields, {}, TRUE),
        K({}, FALSE, {}, {}, FALSE)}
=============================================================================

--------------------------- MODULE Support_proofs ---------------------------
(***************************************************************************)
(* What holds of the two modules of the SDK and of what a driver does with *)
(* them: rust_support, for every kernel it is loaded into and any number   *)
(* of objects and buffers, and rs_kunit, for any number of modules and     *)
(* tests.                                                                  *)
(*                                                                         *)
(* SupportInv is the inductive invariant of rust_support: LoadInv for the  *)
(* phases of loading and what each has written, DriverInv and ObjInv for   *)
(* the references a driver keeps, AllocInv for the buffer of the allocator *)
(* and the allocations behind it.                                          *)
(*                                                                         *)
(* RegInv is the one of rs_kunit: the entries of the fixed array belong to *)
(* modules that are loaded, one for each case that was registered, and     *)
(* they fit.  Which entry a name finds is a fact about the names; that     *)
(* every test is attributed is proved for names that are distinct.         *)
(***************************************************************************)
EXTENDS RustSupport, RsKunit, FunctionTheorems, WellFoundedInduction,
        FiniteSetTheorems, TLAPS

-----------------------------------------------------------------------------
(* Extrema of finite sets of integers.                                     *)

\* A non-empty set of numbers has a least one.
LEMMA LeastOne ==
    ASSUME NEW T \in SUBSET Nat, T # {}
    PROVE  \E x \in T : \A y \in T : x <= y
<1>1. IsWellFoundedOn(OpToRel(<, Nat), Nat)
  BY NatLessThanWellFounded
<1> DEFINE R == OpToRel(<, Nat)
<1>2. PICK x \in T : \A y \in T : ~ (<<y, x>> \in R)
  BY <1>1, WFMin
<1>3. \A y \in T : ~(y < x)
  BY <1>2 DEF OpToRel
<1> HIDE DEF R
<1> QED
  BY <1>3

\* Min answers it.
LEMMA MinIs ==
    ASSUME NEW T \in SUBSET Nat, T # {}
    PROVE  Min(T) \in T /\ \A y \in T : Min(T) <= y
BY LeastOne DEF Min

\* A bounded non-empty set of numbers has a greatest one, and Max answers it.
LEMMA MaxIs ==
    ASSUME NEW T \in SUBSET Nat, T # {}, NEW n \in Nat, \A y \in T : y <= n
    PROVE  Max(T) \in T /\ \A y \in T : y <= Max(T)
<1> DEFINE U == {n - y : y \in T}
<1>1. U \in SUBSET Nat /\ U # {}
  <2>1. \A y \in T : n - y \in Nat
    OBVIOUS
  <2> QED
    BY <2>1
<1>2. PICK z \in U : \A u \in U : z <= u
  BY <1>1, LeastOne
<1>3. PICK x \in T : z = n - x
  BY <1>2
<1>4. \A y \in T : n - x <= n - y
  BY <1>2, <1>3
<1>5. \A y \in T : x >= y
  BY <1>4
<1> QED
  BY <1>5 DEF Max

\* Of two numbers.
LEMMA MinOfTwo ==
    ASSUME NEW a \in Nat, NEW b \in Nat
    PROVE  Min({a, b}) = IF a <= b THEN a ELSE b
<1>1. {a, b} \in SUBSET Nat /\ {a, b} # {}
  OBVIOUS
<1> QED
  BY <1>1, MinIs

\* The larger of two numbers.
LEMMA MaxOfTwo ==
    ASSUME NEW a \in Nat, NEW b \in Nat
    PROVE  Max({a, b}) = IF a >= b THEN a ELSE b
<1>1. {a, b} \in SUBSET Nat /\ {a, b} # {}
  OBVIOUS
<1>2. a + b \in Nat /\ \A y \in {a, b} : y <= a + b
  OBVIOUS
<1>3. Max({a, b}) \in {a, b} /\ \A y \in {a, b} : y <= Max({a, b})
  BY <1>1, <1>2, MaxIs
<1> QED
  BY <1>3

-----------------------------------------------------------------------------
(* The load of rust_support.                                               *)

\* What holds at each stage of a load, in groups of stages.
BeforeTypeInfo == {"unloaded", "base", "typeinfo"}
Resolving == BeforeTypeInfo \cup {"mandatory"}
MandatoryDone == Stages \ (Resolving \cup {"unwind"})
OptionalDone == MandatoryDone \ {"optional"}
NoOffsetsYet == Resolving \cup {"optional", "btf"}
OffsetsDone == {"verify", "kunit", "notifier", "loaded", "exit"}

\* The offset of a field after BTF, after the anchor and after the headers.
AfterBtf(f) == IF f \in kernel.btf THEN "btf" ELSE "none"
AfterAnchor(f) == IF f \in AnchorFinds THEN "anchor" ELSE AfterBtf(f)
AfterCompile(f) ==
    IF f \in TaskFields /\ AfterAnchor(f) = "none" THEN "compile" ELSE AfterAnchor(f)

ShimShape ==
    /\ kernel \in Kernels /\ stage \in Stages
    /\ next \in 1 .. Len(rs_syms) + 1
    /\ addr \subseteq Mandatory \cup OptionalNames \cup DOMAIN ReallocNames

FlagsOfStage ==
    /\ typeInfo \in BOOLEAN /\ suites \in BOOLEAN /\ notifier \in BOOLEAN
    /\ typeInfo <=> stage \notin BeforeTypeInfo
    /\ suites <=> stage \in {"notifier", "loaded", "exit"}
    /\ notifier <=> stage = "loaded"

NamesOfStage ==
    /\ stage \in BeforeTypeInfo => next = 1
    /\ stage = "mandatory" => \A i \in 1 .. Len(rs_syms) : i < next => rs_syms[i] \in addr
    /\ stage \in MandatoryDone => Mandatory \subseteq addr
    /\ stage \in OptionalDone => OptionalNames \cap kernel.syms \subseteq addr
    /\ addr \ DOMAIN ReallocNames \subseteq kernel.syms

OffsetsOfStage ==
    /\ origin \in [Fields -> {"none", "btf", "anchor", "compile"}]
    /\ stage \in NoOffsetsYet => origin = NoOffsets
    /\ stage = "anchor" => \A f \in Fields : origin[f] = AfterBtf(f)
    /\ stage = "compile" => \A f \in Fields : origin[f] = AfterAnchor(f)
    /\ stage \in OffsetsDone => \A f \in Fields : origin[f] = AfterCompile(f)

LoadInv == ShimShape /\ FlagsOfStage /\ NamesOfStage /\ OffsetsOfStage

\* The table of mandatory names is a sequence, and Mandatory what is in it.
LEMMA SymsTyped ==
    /\ Len(rs_syms) \in Nat /\ DOMAIN rs_syms = 1 .. Len(rs_syms)
    /\ Mandatory = {rs_syms[i] : i \in 1 .. Len(rs_syms)}
<1>1. Len(rs_syms) \in Nat /\ DOMAIN rs_syms = 1 .. Len(rs_syms)
  BY DEF rs_syms
<1> QED
  BY <1>1 DEF Mandatory, ToSet

LEMMA LoadInvInit == ShimInit => LoadInv
<1> SUFFICES ASSUME ShimInit PROVE LoadInv
  OBVIOUS
<1>1. ShimShape
  BY SymsTyped DEF ShimInit, ShimShape, Stages
<1>2. FlagsOfStage
  BY DEF ShimInit, FlagsOfStage, BeforeTypeInfo
<1>3. NamesOfStage
  BY DEF ShimInit, NamesOfStage, BeforeTypeInfo, MandatoryDone, OptionalDone, Resolving
<1>4. OffsetsOfStage
  BY DEF ShimInit, OffsetsOfStage, NoOffsets, OffsetsDone
<1> QED
  BY <1>1, <1>2, <1>3, <1>4 DEF LoadInv

\* The module is freed: nothing is left.
LEMMA FreedInv ==
    ASSUME LoadInv, Freed, kernel' = kernel, typeInfo' = FALSE, notifier' = FALSE
    PROVE  LoadInv'
<1>1. stage' = "unloaded" /\ next' = 1 /\ addr' = {} /\ origin' = NoOffsets /\ suites' = FALSE
  BY DEF Freed
<1>2. ShimShape'
  BY <1>1, SymsTyped DEF LoadInv, ShimShape, Stages
<1>3. FlagsOfStage'
  BY <1>1 DEF FlagsOfStage, BeforeTypeInfo
<1>4. NamesOfStage'
  BY <1>1 DEF NamesOfStage, BeforeTypeInfo, MandatoryDone, OptionalDone, Resolving
<1>5. OffsetsOfStage'
  BY <1>1 DEF OffsetsOfStage, NoOffsets, OffsetsDone
<1> QED
  BY <1>2, <1>3, <1>4, <1>5 DEF LoadInv

\* A stage is over and the next one begins, without a word on names and offsets.
LEMMA StageInv ==
    ASSUME LoadInv, kernel' = kernel, next' = next, addr' = addr, origin' = origin,
           stage' \in Stages, FlagsOfStage',
           stage' \in BeforeTypeInfo => stage \in BeforeTypeInfo,
           stage' = "mandatory" => stage = "typeinfo",
           stage' \in MandatoryDone => stage \in MandatoryDone,
           stage' \in OptionalDone => stage \in OptionalDone,
           stage' \in NoOffsetsYet => stage \in NoOffsetsYet,
           stage' \notin {"anchor", "compile"},
           stage' \in OffsetsDone => stage \in OffsetsDone
    PROVE  LoadInv'
<1>1. ShimShape'
  BY DEF LoadInv, ShimShape
<1>2. NamesOfStage'
  <2>1. stage' = "mandatory" => next = 1
    BY DEF LoadInv, NamesOfStage, BeforeTypeInfo
  <2>2. stage' = "mandatory" => \A i \in 1 .. Len(rs_syms) : i < next' => rs_syms[i] \in addr'
    BY <2>1, SymsTyped
  <2> QED
    BY <2>2 DEF LoadInv, NamesOfStage
<1>3. OffsetsOfStage'
  BY DEF LoadInv, OffsetsOfStage, AfterCompile, AfterAnchor, AfterBtf, AnchorFinds
<1> QED
  BY <1>1, <1>2, <1>3 DEF LoadInv

LEMMA InsertModuleInv == ASSUME LoadInv, InsertModule PROVE LoadInv'
<1>1. stage = "unloaded" /\ stage' = "base"
      /\ UNCHANGED <<kernel, next, addr, origin, typeInfo, suites, notifier>>
  BY DEF InsertModule
<1>2. FlagsOfStage'
  BY <1>1 DEF LoadInv, FlagsOfStage, BeforeTypeInfo
<1> QED
  BY <1>1, <1>2, StageInv DEF Stages, BeforeTypeInfo, MandatoryDone, OptionalDone, NoOffsetsYet, OffsetsDone, Resolving

LEMMA FindBaseInv == ASSUME LoadInv, find_kallsyms_base PROVE LoadInv'
<1>1. stage = "base" /\ kernel' = kernel /\ typeInfo' = typeInfo /\ notifier' = notifier
  BY DEF find_kallsyms_base
<1>2. CASE stage' = "typeinfo" /\ UNCHANGED <<next, addr, origin, suites>>
  <2>1. FlagsOfStage'
    BY <1>1, <1>2 DEF LoadInv, FlagsOfStage, BeforeTypeInfo
  <2> QED
    BY <1>1, <1>2, <2>1, StageInv DEF Stages, BeforeTypeInfo, MandatoryDone, OptionalDone, NoOffsetsYet, OffsetsDone, Resolving
<1>3. CASE Freed
  <2>1. typeInfo' = FALSE /\ notifier' = FALSE
    BY <1>1 DEF LoadInv, FlagsOfStage, BeforeTypeInfo
  <2> QED
    BY <1>1, <1>3, <2>1, FreedInv
<1> QED
  BY <1>2, <1>3 DEF find_kallsyms_base

LEMMA TiInitInv == ASSUME LoadInv, ti_init PROVE LoadInv'
<1>1. stage = "typeinfo" /\ kernel' = kernel /\ notifier' = notifier
  BY DEF ti_init
<1>2. CASE stage' = "mandatory" /\ typeInfo' = TRUE /\ UNCHANGED <<next, addr, origin, suites>>
  <2>1. FlagsOfStage'
    BY <1>1, <1>2 DEF LoadInv, FlagsOfStage, BeforeTypeInfo
  <2> QED
    BY <1>1, <1>2, <2>1, StageInv DEF Stages, BeforeTypeInfo, MandatoryDone, OptionalDone, NoOffsetsYet, OffsetsDone, Resolving
<1>3. CASE Freed /\ UNCHANGED typeInfo
  <2>1. typeInfo' = FALSE /\ notifier' = FALSE
    BY <1>1, <1>3 DEF LoadInv, FlagsOfStage, BeforeTypeInfo
  <2> QED
    BY <1>1, <1>3, <2>1, FreedInv
<1> QED
  BY <1>2, <1>3 DEF ti_init

LEMMA ResolveMandatoryInv == ASSUME LoadInv, ResolveMandatory PROVE LoadInv'
<1> DEFINE n == Len(rs_syms)
<1>1. stage = "mandatory" /\ UNCHANGED <<kernel, origin, typeInfo, suites, notifier>>
  BY DEF ResolveMandatory
<1>2. n \in Nat /\ next \in 1 .. n + 1
  BY SymsTyped DEF LoadInv, ShimShape
<1>3. OffsetsOfStage /\ origin = NoOffsets
  BY <1>1 DEF LoadInv, OffsetsOfStage, NoOffsetsYet, Resolving
<1>4. CASE next > n
  <2>1. stage' = "optional" /\ next' = next /\ addr' = addr
    BY <1>4 DEF ResolveMandatory
  <2>2. \A i \in 1 .. n : rs_syms[i] \in addr
    BY <1>1, <1>2, <1>4 DEF LoadInv, NamesOfStage
  <2>3. Mandatory \subseteq addr
    BY <2>2, SymsTyped
  <2>4. ShimShape'
    BY <1>1, <2>1 DEF LoadInv, ShimShape, Stages
  <2>5. FlagsOfStage'
    BY <1>1, <2>1 DEF LoadInv, FlagsOfStage, BeforeTypeInfo
  <2>6. NamesOfStage'
    BY <1>1, <2>1, <2>3 DEF LoadInv, NamesOfStage, BeforeTypeInfo, OptionalDone
  <2>7. OffsetsOfStage'
    BY <1>1, <1>3, <2>1 DEF OffsetsOfStage, OffsetsDone
  <2> QED
    BY <2>4, <2>5, <2>6, <2>7 DEF LoadInv
<1>5. CASE ~(next > n) /\ rs_resolve_name(rs_syms[next])
  <2>1. stage' = stage /\ next' = next + 1 /\ addr' = addr \cup {rs_syms[next]}
    BY <1>5 DEF ResolveMandatory
  <2>2. next \in 1 .. n /\ next + 1 \in 1 .. n + 1
    BY <1>2, <1>5
  <2>3. rs_syms[next] \in Mandatory /\ rs_syms[next] \in kernel.syms
    BY <1>5, <2>2, SymsTyped DEF rs_resolve_name
  <2>4. ShimShape'
    BY <1>1, <2>1, <2>2, <2>3 DEF LoadInv, ShimShape
  <2>5. FlagsOfStage'
    BY <1>1, <2>1 DEF LoadInv, FlagsOfStage
  <2>6. \A i \in 1 .. n : i < next' => rs_syms[i] \in addr'
    BY <1>1, <1>2, <2>1 DEF LoadInv, NamesOfStage
  <2>7. addr' \ DOMAIN ReallocNames \subseteq kernel'.syms
    BY <1>1, <2>1, <2>3 DEF LoadInv, NamesOfStage
  <2>8. NamesOfStage'
    BY <1>1, <2>1, <2>6, <2>7 DEF NamesOfStage, BeforeTypeInfo, MandatoryDone, OptionalDone, Resolving
  <2>9. OffsetsOfStage'
    BY <1>1, <1>3, <2>1 DEF OffsetsOfStage, OffsetsDone
  <2> QED
    BY <2>4, <2>5, <2>8, <2>9 DEF LoadInv
<1>6. CASE ~(next > n) /\ ~rs_resolve_name(rs_syms[next])
  <2>1. stage' = "unwind" /\ next' = next /\ addr' = addr
    BY <1>6 DEF ResolveMandatory
  <2>2. FlagsOfStage'
    BY <1>1, <2>1 DEF LoadInv, FlagsOfStage, BeforeTypeInfo
  <2> QED
    BY <1>1, <2>1, <2>2, StageInv DEF Stages, BeforeTypeInfo, MandatoryDone, OptionalDone, NoOffsetsYet, OffsetsDone, Resolving
<1> QED
  BY <1>4, <1>5, <1>6

LEMMA ResolveOptionalInv == ASSUME LoadInv, ResolveOptional PROVE LoadInv'
<1>1. /\ stage = "optional" /\ stage' = "btf"
      /\ addr' = addr \cup {s \in OptionalNames : s \in kernel.syms} \cup ReallocSlots
      /\ UNCHANGED <<kernel, next, origin, typeInfo, suites, notifier>>
  BY DEF ResolveOptional, rs_resolve_name
<1>2. ReallocSlots \subseteq DOMAIN ReallocNames
  BY DEF ReallocSlots
<1>3. ShimShape'
  BY <1>1, <1>2 DEF LoadInv, ShimShape, Stages
<1>4. FlagsOfStage'
  BY <1>1 DEF LoadInv, FlagsOfStage, BeforeTypeInfo
<1>5. NamesOfStage'
  <2>1. Mandatory \subseteq addr
    BY <1>1 DEF LoadInv, NamesOfStage, MandatoryDone, Resolving, BeforeTypeInfo, Stages
  <2>2. addr' \ DOMAIN ReallocNames \subseteq kernel.syms
    BY <1>1, <1>2 DEF LoadInv, NamesOfStage
  <2>3. Mandatory \subseteq addr' /\ OptionalNames \cap kernel.syms \subseteq addr'
    BY <1>1, <2>1
  <2> QED
    BY <1>1, <2>2, <2>3 DEF NamesOfStage, BeforeTypeInfo
<1>6. OffsetsOfStage'
  BY <1>1 DEF LoadInv, OffsetsOfStage, OffsetsDone, NoOffsetsYet, Resolving
<1> QED
  BY <1>3, <1>4, <1>5, <1>6 DEF LoadInv

\* The three sources, one after the other.
LEMMA OffsetsInv ==
    ASSUME LoadInv, rs_field_resolve_btf \/ rs_task_anchor_offs \/ rs_task_compile_offs
    PROVE  LoadInv'
<1>1. /\ stage \in {"btf", "anchor", "compile"} /\ stage' \in {"anchor", "compile", "verify"}
      /\ stage = "btf" => stage' = "anchor"
      /\ UNCHANGED <<kernel, next, addr, typeInfo, suites, notifier>>
  BY DEF rs_field_resolve_btf, rs_task_anchor_offs, rs_task_compile_offs
<1>2. ShimShape'
  BY <1>1 DEF LoadInv, ShimShape, Stages
<1>3. FlagsOfStage'
  BY <1>1 DEF LoadInv, FlagsOfStage, BeforeTypeInfo
<1>4. NamesOfStage'
  BY <1>1 DEF LoadInv, NamesOfStage, BeforeTypeInfo, MandatoryDone, OptionalDone, Resolving, Stages
<1>5. OffsetsOfStage'
  <2>1. CASE rs_field_resolve_btf
    <3>1. /\ stage = "btf" /\ stage' = "anchor" /\ typeInfo
          /\ origin = NoOffsets
          /\ origin' = [f \in Fields |-> IF typeInfo /\ f \in kernel.btf THEN "btf" ELSE origin[f]]
      BY <2>1 DEF rs_field_resolve_btf, LoadInv, FlagsOfStage, BeforeTypeInfo, OffsetsOfStage, NoOffsetsYet
    <3>2. \A f \in Fields : origin'[f] = AfterBtf(f)
      BY <3>1 DEF AfterBtf, NoOffsets
    <3>3. origin' \in [Fields -> {"none", "btf", "anchor", "compile"}]
      BY <3>1, <3>2 DEF AfterBtf
    <3> QED
      BY <1>1, <3>1, <3>2, <3>3 DEF OffsetsOfStage, AfterBtf, NoOffsetsYet, OffsetsDone, Resolving, BeforeTypeInfo
  <2>2. CASE rs_task_anchor_offs
    <3>1. /\ stage = "anchor" /\ stage' = "compile"
          /\ origin' = [f \in Fields |-> IF f \in AnchorFinds THEN "anchor" ELSE origin[f]]
      BY <2>2 DEF rs_task_anchor_offs
    <3>2. \A f \in Fields : origin'[f] = AfterAnchor(f)
      BY <3>1 DEF AfterAnchor, LoadInv, OffsetsOfStage
    <3>3. origin' \in [Fields -> {"none", "btf", "anchor", "compile"}]
      BY <3>1 DEF LoadInv, OffsetsOfStage
    <3> QED
      BY <1>1, <3>1, <3>2, <3>3
         DEF OffsetsOfStage, AfterAnchor, AfterBtf, AnchorFinds, NoOffsetsYet, OffsetsDone, Resolving, BeforeTypeInfo
  <2>3. CASE rs_task_compile_offs
    <3>1. /\ stage = "compile" /\ stage' = "verify"
          /\ origin' = [f \in Fields |-> IF f \in TaskFields /\ origin[f] = "none"
                                         THEN "compile" ELSE origin[f]]
      BY <2>3 DEF rs_task_compile_offs
    <3>2. \A f \in Fields : origin'[f] = AfterCompile(f)
      BY <3>1 DEF AfterCompile, LoadInv, OffsetsOfStage
    <3>3. origin' \in [Fields -> {"none", "btf", "anchor", "compile"}]
      BY <3>1 DEF LoadInv, OffsetsOfStage
    <3>4. \A f \in Fields : AfterCompile(f)' = AfterCompile(f)
      BY <1>1 DEF AfterCompile, AfterAnchor, AfterBtf, AnchorFinds
    <3> QED
      BY <3>1, <3>2, <3>3, <3>4 DEF OffsetsOfStage, NoOffsetsYet, Resolving, BeforeTypeInfo
  <2> QED
    BY <2>1, <2>2, <2>3
<1> QED
  BY <1>2, <1>3, <1>4, <1>5 DEF LoadInv

\* The stages that only pass on.
LEMMA VerifyInv == ASSUME LoadInv, VerifyOffsets PROVE LoadInv'
<1>1. /\ stage = "verify" /\ stage' \in {"kunit", "unwind"}
      /\ UNCHANGED <<kernel, next, addr, origin, typeInfo, suites, notifier>>
  BY DEF VerifyOffsets
<1>2. FlagsOfStage'
  BY <1>1 DEF LoadInv, FlagsOfStage, BeforeTypeInfo
<1> QED
  BY <1>1, <1>2, StageInv DEF Stages, BeforeTypeInfo, MandatoryDone, OptionalDone, NoOffsetsYet, OffsetsDone, Resolving

LEMMA KunitInitInv == ASSUME LoadInv, KunitInitRust PROVE LoadInv'
<1>1. /\ stage = "kunit" /\ stage' = "notifier" /\ suites' = TRUE
      /\ UNCHANGED <<kernel, next, addr, origin, typeInfo, notifier>>
  BY DEF KunitInitRust
<1>2. FlagsOfStage'
  BY <1>1 DEF LoadInv, FlagsOfStage, BeforeTypeInfo
<1> QED
  BY <1>1, <1>2, StageInv DEF Stages, BeforeTypeInfo, MandatoryDone, OptionalDone, NoOffsetsYet, OffsetsDone, Resolving

LEMMA RegisterInv == ASSUME LoadInv, RegisterNotifier PROVE LoadInv'
<1>1. /\ stage = "notifier" /\ stage' = "loaded" /\ notifier' = TRUE
      /\ UNCHANGED <<kernel, next, addr, origin, typeInfo, suites>>
  BY DEF RegisterNotifier
<1>2. FlagsOfStage'
  BY <1>1 DEF LoadInv, FlagsOfStage, BeforeTypeInfo
<1> QED
  BY <1>1, <1>2, StageInv DEF Stages, BeforeTypeInfo, MandatoryDone, OptionalDone, NoOffsetsYet, OffsetsDone, Resolving

LEMMA UnregisterInv == ASSUME LoadInv, ExitUnregister PROVE LoadInv'
<1>1. /\ stage = "loaded" /\ stage' = "exit" /\ notifier' = FALSE
      /\ UNCHANGED <<kernel, next, addr, origin, typeInfo, suites>>
  BY DEF ExitUnregister
<1>2. FlagsOfStage'
  BY <1>1 DEF LoadInv, FlagsOfStage, BeforeTypeInfo
<1> QED
  BY <1>1, <1>2, StageInv DEF Stages, BeforeTypeInfo, MandatoryDone, OptionalDone, NoOffsetsYet, OffsetsDone, Resolving

\* A load that failed, and the end of an unload.
LEMMA UnwindInv == ASSUME LoadInv, ShimInitFailed \/ ExitTypeInfo PROVE LoadInv'
<1>1. /\ stage \in {"unwind", "exit"} /\ typeInfo' = FALSE /\ Freed
      /\ kernel' = kernel /\ notifier' = notifier
  BY DEF ShimInitFailed, ExitTypeInfo
<1>2. notifier' = FALSE
  BY <1>1 DEF LoadInv, FlagsOfStage
<1> QED
  BY <1>1, <1>2, FreedInv

LEMMA LoadStepInv == ASSUME LoadInv, LoadStep PROVE LoadInv'
BY FindBaseInv, TiInitInv, ResolveMandatoryInv, ResolveOptionalInv, OffsetsInv, VerifyInv,
   UnwindInv, KunitInitInv, RegisterInv
   DEF LoadStep

LEMMA LoadUnchanged == ASSUME LoadInv, UNCHANGED shimVars PROVE LoadInv'
<1>1. UNCHANGED <<kernel, stage, next, addr, origin, typeInfo, suites, notifier>>
  BY DEF shimVars
<1>2. ShimShape' /\ FlagsOfStage' /\ NamesOfStage'
  BY <1>1 DEF LoadInv, ShimShape, FlagsOfStage, NamesOfStage
<1>3. OffsetsOfStage'
  BY <1>1 DEF LoadInv, OffsetsOfStage, AfterCompile, AfterAnchor, AfterBtf, AnchorFinds
<1> QED
  BY <1>2, <1>3 DEF LoadInv

-----------------------------------------------------------------------------
(* What a driver meets: it is there only while rust_support is loaded.     *)

DriverInv == driver \in BOOLEAN /\ (driver => stage = "loaded")

\* The steps of a load and the end of an unload start elsewhere.
LEMMA LoadedStays == ASSUME InsertModule \/ LoadStep \/ ExitTypeInfo PROVE stage # "loaded"
<1>1. ASSUME LoadStep PROVE stage # "loaded"
  <2>1. \/ find_kallsyms_base \/ ti_init \/ ResolveMandatory \/ ResolveOptional
        \/ rs_field_resolve_btf \/ rs_task_anchor_offs \/ rs_task_compile_offs
        \/ VerifyOffsets \/ ShimInitFailed \/ KunitInitRust \/ RegisterNotifier
    BY <1>1 DEF LoadStep
  <2> QED
    BY <2>1 DEF find_kallsyms_base, ti_init, ResolveMandatory, ResolveOptional,
                rs_field_resolve_btf, rs_task_anchor_offs, rs_task_compile_offs,
                VerifyOffsets, ShimInitFailed, KunitInitRust, RegisterNotifier
<1> QED
  BY <1>1 DEF InsertModule, ExitTypeInfo

\* A wrapper whose slot is filled calls the kernel.
LEMMA FilledAnswers == ASSUME NEW s \in addr PROVE Outcome(s) = "called"
BY DEF Outcome, rs__printk

\* What is resolved when the module is loaded.
LEMMA LoadedNames ==
    ASSUME LoadInv, stage = "loaded"
    PROVE  Mandatory \subseteq addr /\ OptionalNames \cap kernel.syms \subseteq addr
BY DEF LoadInv, NamesOfStage, OptionalDone, MandatoryDone, Resolving, BeforeTypeInfo, Stages

\* With a driver loaded the load is over, so every mandatory name is there.
LEMMA LoadInvWrappers == ASSUME LoadInv, DriverInv PROVE WrappersResolved
<1> SUFFICES ASSUME driver PROVE /\ \A s \in Mandatory : Answering(s)
                                 /\ OptionalNames \subseteq kernel.syms =>
                                      \A s \in OptionalNames : Answering(s)
  BY DEF WrappersResolved
<1>1. stage = "loaded"
  BY DEF DriverInv
<1>2. Mandatory \subseteq addr /\ OptionalNames \cap kernel.syms \subseteq addr
  BY <1>1, LoadedNames
<1>3. \A s \in Mandatory : Answering(s)
  BY <1>2, FilledAnswers DEF Answering
<1>4. ASSUME OptionalNames \subseteq kernel.syms PROVE \A s \in OptionalNames : Answering(s)
  <2>1. OptionalNames \subseteq addr
    BY <1>2, <1>4
  <2> QED
    BY <2>1, FilledAnswers DEF Answering
<1> QED
  BY <1>3, <1>4

\* With a driver loaded every offset is from the best source there is.
LEMMA LoadInvOffsets == ASSUME LoadInv, DriverInv PROVE OffsetsBest
<1> SUFFICES ASSUME driver
             PROVE /\ \A f \in TaskFields : ReadField(f) = BestSource(f)
                   /\ ReadField("nid") = IF "nid" \in kernel.btf THEN "btf" ELSE "minus one"
  BY DEF OffsetsBest
<1>1. stage = "loaded" /\ kernel \in Kernels
  BY DEF DriverInv, LoadInv, ShimShape
<1>2. \A f \in Fields : origin[f] = AfterCompile(f)
  BY <1>1 DEF LoadInv, OffsetsOfStage, OffsetsDone
<1>3. kernel.anchor \subseteq TaskFields
  BY <1>1, KernelsAssumption
<1>4. ASSUME NEW f \in TaskFields PROVE ReadField(f) = BestSource(f)
  <2>1. f \in Fields
    BY DEF Fields
  <2>2. f \in AnchorFinds <=> (f \in kernel.anchor \/ (f = "tgid" /\ "pid" \in kernel.anchor))
    BY DEF AnchorFinds
  <2>3. AfterCompile(f) = BestSource(f)
    BY <2>2 DEF AfterCompile, AfterAnchor, AfterBtf, BestSource
  <2>4. BestSource(f) # "none"
    BY DEF BestSource
  <2> QED
    BY <1>2, <2>1, <2>3, <2>4 DEF ReadField
<1>5. ReadField("nid") = IF "nid" \in kernel.btf THEN "btf" ELSE "minus one"
  <2>1. "nid" \notin TaskFields /\ "nid" \in Fields
    BY DEF TaskFields, Fields
  <2>2. "nid" \notin AnchorFinds
    BY <1>3, <2>1 DEF AnchorFinds
  <2>3. origin["nid"] = IF "nid" \in kernel.btf THEN "btf" ELSE "none"
    BY <1>2, <2>1, <2>2 DEF AfterCompile, AfterAnchor, AfterBtf
  <2>4. FieldDefault["nid"] = "minus one"
    BY DEF FieldDefault
  <2> QED
    BY <2>3, <2>4 DEF ReadField
<1> QED
  BY <1>4, <1>5

\* Whatever failed, an unloaded module has left nothing behind.
LEMMA LoadInvNothingLeft == ASSUME LoadInv PROVE NothingLeft /\ ShimTypeOK
<1>1. NothingLeft
  BY DEF LoadInv, FlagsOfStage, BeforeTypeInfo, NothingLeft
<1>2. ShimTypeOK
  BY DEF LoadInv, ShimShape, FlagsOfStage, OffsetsOfStage, ShimTypeOK
<1> QED
  BY <1>1, <1>2

-----------------------------------------------------------------------------
(* The objects the driver holds.                                           *)

ObjInv ==
    /\ krefs \in [Objs -> 0 .. 1] /\ count \in [Objs -> 0 .. MaxCount] /\ arefs \in [Objs -> Nat]
    /\ images \in 0 .. MaxCount /\ firmware \in Nat /\ contexts \in Nat /\ secctx \in Nat
    /\ Held <= MaxHeld
    /\ CountsExact /\ FirmwareExact

LEMMA ObjInvTyped == ASSUME ObjInv, driver \in BOOLEAN PROVE ObjTypeOK
<1>1. MaxHeld \in Nat
  BY ObjectsAssumption
<1>2. \A o \in Objs : arefs[o] \in Nat
  BY DEF ObjInv
<1>3. /\ arefs["device"] \in Nat /\ arefs["task"] \in Nat
      /\ arefs["cred"] \in Nat /\ arefs["pidns"] \in Nat
  BY <1>2 DEF Objs
<1>4. firmware \in Nat /\ secctx \in Nat /\ contexts = secctx /\ Held <= MaxHeld
  BY DEF ObjInv, FirmwareExact
<1>5. /\ arefs["device"] <= MaxHeld /\ arefs["task"] <= MaxHeld /\ arefs["cred"] <= MaxHeld
      /\ arefs["pidns"] <= MaxHeld /\ firmware <= MaxHeld /\ secctx <= MaxHeld
  BY <1>1, <1>3, <1>4 DEF Held
<1>6. \A o \in Objs : arefs[o] \in 0 .. MaxHeld
  BY <1>1, <1>3, <1>5 DEF Objs
<1>7. arefs \in [Objs -> 0 .. MaxHeld]
  BY <1>6 DEF ObjInv
<1>8. firmware \in 0 .. MaxHeld /\ secctx \in 0 .. MaxHeld /\ contexts \in 0 .. MaxHeld
  BY <1>1, <1>4, <1>5
<1> QED
  BY <1>7, <1>8 DEF ObjTypeOK, ObjInv

LEMMA ObjInvInit == ObjInit => ObjInv
<1> SUFFICES ASSUME ObjInit PROVE ObjInv
  OBVIOUS
<1>1. MaxHeld \in Nat /\ MaxCount \in Nat /\ 1 <= MaxCount
  BY ObjectsAssumption
<1>2. krefs \in [Objs -> 0 .. 1] /\ count \in [Objs -> 0 .. MaxCount] /\ arefs \in [Objs -> Nat]
  BY <1>1 DEF ObjInit
<1>3. Held <= MaxHeld
  BY <1>1 DEF Held, ObjInit, Objs
<1>4. CountsExact
  BY DEF CountsExact, ObjInit
<1>5. FirmwareExact
  BY DEF FirmwareExact, ObjInit
<1> QED
  BY <1>1, <1>2, <1>3, <1>4, <1>5 DEF ObjInv, ObjInit

\* The counts of one kind of object change and its row of the ledger still balances.
LEMMA CountMoves ==
    ASSUME ObjInv, NEW o \in Objs, kernel' = kernel,
           krefs' \in [Objs -> 0 .. 1], arefs' \in [Objs -> Nat], count' \in [Objs -> 0 .. MaxCount],
           \A p \in Objs \ {o} : krefs'[p] = krefs[p] /\ arefs'[p] = arefs[p] /\ count'[p] = count[p],
           Paired(o) => count'[o] = krefs'[o] + arefs'[o],
           "get_device" \in kernel.syms => count'[o] >= krefs'[o] + arefs'[o]
    PROVE  CountsExact'
<1> SUFFICES ASSUME NEW p \in Objs
             PROVE  /\ Paired(p)' => count'[p] = krefs'[p] + arefs'[p]
                    /\ "get_device" \in kernel'.syms => count'[p] >= krefs'[p] + arefs'[p]
  BY DEF CountsExact
<1>1. Paired(p)' <=> Paired(p)
  BY DEF Paired
<1>2. CASE p = o
  BY <1>1, <1>2
<1>3. CASE p # o
  <2>1. krefs'[p] = krefs[p] /\ arefs'[p] = arefs[p] /\ count'[p] = count[p]
    BY <1>3
  <2>2. /\ Paired(p) => count[p] = krefs[p] + arefs[p]
        /\ "get_device" \in kernel.syms => count[p] >= krefs[p] + arefs[p]
    BY DEF ObjInv, CountsExact
  <2> QED
    BY <1>1, <2>1, <2>2
<1> QED
  BY <1>2, <1>3

\* One more or one fewer ARef, of any kind.
LEMMA HeldMoves ==
    ASSUME ObjInv, NEW o \in Objs, NEW d \in Int, arefs[o] + d \in Nat,
           arefs' = [arefs EXCEPT ![o] = @ + d], firmware' = firmware, secctx' = secctx
    PROVE  Held' = Held + d /\ arefs' \in [Objs -> Nat]
<1>1. arefs \in [Objs -> Nat]
  BY DEF ObjInv
<1>2. /\ arefs["device"] \in Nat /\ arefs["task"] \in Nat
      /\ arefs["cred"] \in Nat /\ arefs["pidns"] \in Nat
  BY <1>1 DEF Objs
<1>3. firmware \in Nat /\ secctx \in Nat
  BY DEF ObjInv
<1>4. arefs' \in [Objs -> Nat]
  BY <1>1
<1>5. CASE o = "device"
  <2>1. /\ arefs'["device"] = arefs["device"] + d /\ arefs'["task"] = arefs["task"]
        /\ arefs'["cred"] = arefs["cred"] /\ arefs'["pidns"] = arefs["pidns"]
    BY <1>1, <1>5 DEF Objs
  <2> QED
    BY <1>2, <1>3, <1>4, <2>1 DEF Held
<1>6. CASE o = "task"
  <2>1. /\ arefs'["device"] = arefs["device"] /\ arefs'["task"] = arefs["task"] + d
        /\ arefs'["cred"] = arefs["cred"] /\ arefs'["pidns"] = arefs["pidns"]
    BY <1>1, <1>6 DEF Objs
  <2> QED
    BY <1>2, <1>3, <1>4, <2>1 DEF Held
<1>7. CASE o = "cred"
  <2>1. /\ arefs'["device"] = arefs["device"] /\ arefs'["task"] = arefs["task"]
        /\ arefs'["cred"] = arefs["cred"] + d /\ arefs'["pidns"] = arefs["pidns"]
    BY <1>1, <1>7 DEF Objs
  <2> QED
    BY <1>2, <1>3, <1>4, <2>1 DEF Held
<1>8. CASE o = "pidns"
  <2>1. /\ arefs'["device"] = arefs["device"] /\ arefs'["task"] = arefs["task"]
        /\ arefs'["cred"] = arefs["cred"] /\ arefs'["pidns"] = arefs["pidns"] + d
    BY <1>1, <1>8 DEF Objs
  <2> QED
    BY <1>2, <1>3, <1>4, <2>1 DEF Held
<1> QED
  BY <1>5, <1>6, <1>7, <1>8 DEF Objs

\* The kernel gives up its own reference.
LEMMA KernelDropsInv ==
    ASSUME ObjInv, NEW o \in Objs, KernelDrops(o), kernel' = kernel
    PROVE  ObjInv'
<1>1. /\ krefs \in [Objs -> 0 .. 1] /\ count \in [Objs -> 0 .. MaxCount] /\ arefs \in [Objs -> Nat]
      /\ MaxCount \in Nat
  BY ObjectsAssumption DEF ObjInv
<1>2. count[o] \in Nat /\ count[o] <= MaxCount /\ krefs[o] = 1 /\ arefs[o] \in Nat
  BY <1>1 DEF KernelDrops
<1>3. Min({count[o], 1}) = IF count[o] <= 1 THEN count[o] ELSE 1
  BY <1>2, MinOfTwo
<1>4. /\ krefs' = [krefs EXCEPT ![o] = 0] /\ count' = [count EXCEPT ![o] = @ - Min({@, 1})]
      /\ UNCHANGED <<driver, arefs, images, firmware, contexts, secctx>>
  BY DEF KernelDrops
<1>5. count'[o] = count[o] - Min({count[o], 1}) /\ krefs'[o] = 0
  BY <1>1, <1>4
<1>6. krefs' \in [Objs -> 0 .. 1] /\ count' \in [Objs -> 0 .. MaxCount]
  <2>1. count[o] - Min({count[o], 1}) \in 0 .. MaxCount
    BY <1>1, <1>2, <1>3
  <2> QED
    BY <1>1, <1>4, <2>1
<1>7. \A p \in Objs \ {o} : krefs'[p] = krefs[p] /\ arefs'[p] = arefs[p] /\ count'[p] = count[p]
  BY <1>1, <1>4
<1>8. /\ Paired(o) => count'[o] = krefs'[o] + arefs'[o]
      /\ "get_device" \in kernel.syms => count'[o] >= krefs'[o] + arefs'[o]
  <2>1. /\ Paired(o) => count[o] = krefs[o] + arefs[o]
        /\ "get_device" \in kernel.syms => count[o] >= krefs[o] + arefs[o]
    BY DEF ObjInv, CountsExact
  <2>2. count'[o] = IF count[o] <= 1 THEN 0 ELSE count[o] - 1
    BY <1>2, <1>3, <1>5
  <2>3. krefs'[o] = 0 /\ arefs'[o] = arefs[o]
    BY <1>4, <1>5
  <2> QED
    BY <1>2, <2>1, <2>2, <2>3
<1>9. arefs' \in [Objs -> Nat]
  BY <1>1, <1>4
<1>10. CountsExact'
  BY <1>6, <1>7, <1>8, <1>9, CountMoves
<1>11. Held' = Held /\ FirmwareExact'
  BY <1>4 DEF Held, ObjInv, FirmwareExact
<1> QED
  BY <1>4, <1>6, <1>9, <1>10, <1>11 DEF ObjInv

\* The references an ARef takes and gives back: one of each, but for a device whose
\* function the kernel does not have.
LEMMA RefSteps ==
    ASSUME LoadInv, stage = "loaded", NEW o \in Objs
    PROVE  /\ inc_ref[o] \in {0, 1} /\ dec_ref[o] \in {0, 1}
           /\ "get_device" \in kernel.syms => inc_ref[o] = 1
           /\ Paired(o) => inc_ref[o] = 1 /\ dec_ref[o] = 1
<1>1. "get_device" \in kernel.syms => device_inc_ref = 1
  <2>1. "get_device" \in OptionalNames
    BY DEF OptionalNames
  <2>2. ASSUME "get_device" \in kernel.syms PROVE "get_device" \in addr
    BY <2>1, <2>2, LoadedNames
  <2> QED
    BY <2>2, FilledAnswers DEF device_inc_ref
<1>2. "put_device" \in kernel.syms => device_dec_ref = 1
  <2>1. "put_device" \in OptionalNames
    BY DEF OptionalNames
  <2>2. ASSUME "put_device" \in kernel.syms PROVE "put_device" \in addr
    BY <2>1, <2>2, LoadedNames
  <2> QED
    BY <2>2, FilledAnswers DEF device_dec_ref
<1>3. device_inc_ref \in {0, 1} /\ device_dec_ref \in {0, 1}
  BY DEF device_inc_ref, device_dec_ref
<1>4. CASE o = "device"
  <2>1. inc_ref[o] = device_inc_ref /\ dec_ref[o] = device_dec_ref
    BY <1>4 DEF inc_ref, dec_ref
  <2> QED
    BY <1>1, <1>2, <1>3, <1>4, <2>1 DEF Paired
<1>5. CASE o # "device"
  <2>1. inc_ref[o] = 1 /\ dec_ref[o] = 1
    BY <1>5 DEF inc_ref, dec_ref, task_inc_ref, task_dec_ref, cred_inc_ref, cred_dec_ref,
                pidns_inc_ref, pidns_dec_ref, Objs
  <2> QED
    BY <2>1
<1> QED
  BY <1>4, <1>5

\* ARef::from and ARef::clone.
LEMMA ARefFromInv ==
    ASSUME LoadInv, DriverInv, ObjInv, NEW o \in Objs, ARefFrom(o), kernel' = kernel
    PROVE  ObjInv'
<1>1. /\ krefs \in [Objs -> 0 .. 1] /\ count \in [Objs -> 0 .. MaxCount] /\ arefs \in [Objs -> Nat]
      /\ MaxCount \in Nat /\ MaxHeld \in Nat
  BY ObjectsAssumption DEF ObjInv
<1>2. /\ driver /\ Held < MaxHeld /\ count[o] < MaxCount
      /\ count' = [count EXCEPT ![o] = @ + inc_ref[o]]
      /\ arefs' = [arefs EXCEPT ![o] = @ + 1]
      /\ UNCHANGED <<driver, krefs, images, firmware, contexts, secctx>>
  BY DEF ARefFrom, Borrows
<1>3. /\ inc_ref[o] \in {0, 1} /\ ("get_device" \in kernel.syms => inc_ref[o] = 1)
      /\ Paired(o) => inc_ref[o] = 1
  BY <1>2, RefSteps DEF DriverInv
<1>4. count[o] \in Nat /\ arefs[o] \in Nat /\ krefs[o] \in Nat
  BY <1>1
<1>5. Held' = Held + 1 /\ arefs' \in [Objs -> Nat]
  <2>1. 1 \in Int /\ arefs[o] + 1 \in Nat
    BY <1>4
  <2> QED
    BY <1>2, <2>1, HeldMoves
<1>6. Held \in Int /\ Held' <= MaxHeld
  <2>1. /\ arefs["device"] \in Nat /\ arefs["task"] \in Nat
        /\ arefs["cred"] \in Nat /\ arefs["pidns"] \in Nat /\ firmware \in Nat /\ secctx \in Nat
    BY <1>1 DEF Objs, ObjInv
  <2>2. Held \in Nat
    BY <2>1 DEF Held
  <2> QED
    BY <1>1, <1>2, <1>5, <2>2
<1>7. count' \in [Objs -> 0 .. MaxCount]
  <2>1. count[o] + inc_ref[o] \in 0 .. MaxCount
    BY <1>1, <1>2, <1>3, <1>4
  <2> QED
    BY <1>1, <1>2, <2>1
<1>8. \A p \in Objs \ {o} : krefs'[p] = krefs[p] /\ arefs'[p] = arefs[p] /\ count'[p] = count[p]
  BY <1>1, <1>2
<1>9. count'[o] = count[o] + inc_ref[o] /\ arefs'[o] = arefs[o] + 1 /\ krefs'[o] = krefs[o]
  BY <1>1, <1>2
<1>10. /\ Paired(o) => count'[o] = krefs'[o] + arefs'[o]
       /\ "get_device" \in kernel.syms => count'[o] >= krefs'[o] + arefs'[o]
  <2>1. /\ Paired(o) => count[o] = krefs[o] + arefs[o]
        /\ "get_device" \in kernel.syms => count[o] >= krefs[o] + arefs[o]
    BY DEF ObjInv, CountsExact
  <2> QED
    BY <1>3, <1>4, <1>9, <2>1
<1>11. CountsExact'
  BY <1>1, <1>2, <1>5, <1>7, <1>8, <1>10, CountMoves
<1>12. FirmwareExact'
  BY <1>2 DEF ObjInv, FirmwareExact
<1> QED
  BY <1>2, <1>5, <1>6, <1>7, <1>11, <1>12 DEF ObjInv

\* The drop of an ARef.
LEMMA ARefDropInv ==
    ASSUME LoadInv, DriverInv, ObjInv, NEW o \in Objs, ARefDrop(o), kernel' = kernel
    PROVE  ObjInv'
<1>1. /\ krefs \in [Objs -> 0 .. 1] /\ count \in [Objs -> 0 .. MaxCount] /\ arefs \in [Objs -> Nat]
      /\ MaxCount \in Nat /\ MaxHeld \in Nat
  BY ObjectsAssumption DEF ObjInv
<1>2. /\ driver /\ arefs[o] > 0
      /\ count' = [count EXCEPT ![o] = @ - Min({@, dec_ref[o]})]
      /\ arefs' = [arefs EXCEPT ![o] = @ - 1]
      /\ UNCHANGED <<driver, krefs, images, firmware, contexts, secctx>>
  BY DEF ARefDrop
<1>3. dec_ref[o] \in {0, 1} /\ (Paired(o) => dec_ref[o] = 1)
  BY <1>2, RefSteps DEF DriverInv
<1>4. count[o] \in Nat /\ count[o] <= MaxCount /\ arefs[o] \in Nat /\ krefs[o] \in Nat
  BY <1>1
<1>5. Min({count[o], dec_ref[o]}) = IF count[o] <= dec_ref[o] THEN count[o] ELSE dec_ref[o]
  BY <1>3, <1>4, MinOfTwo
<1>6. Held' = Held + (-1) /\ arefs' \in [Objs -> Nat]
  <2>1. arefs[o] + (-1) = arefs[o] - 1 /\ arefs[o] + (-1) \in Nat /\ -1 \in Int
    BY <1>2, <1>4
  <2>2. arefs' = [arefs EXCEPT ![o] = @ + (-1)]
    BY <1>2, <2>1
  <2> QED
    BY <1>2, <2>1, <2>2, HeldMoves
<1>7. Held' <= MaxHeld
  <2>1. /\ arefs["device"] \in Nat /\ arefs["task"] \in Nat
        /\ arefs["cred"] \in Nat /\ arefs["pidns"] \in Nat /\ firmware \in Nat /\ secctx \in Nat
    BY <1>1 DEF Objs, ObjInv
  <2>2. Held \in Nat /\ Held <= MaxHeld
    BY <2>1 DEF Held, ObjInv
  <2> QED
    BY <1>1, <1>6, <2>2
<1>8. count'[o] = count[o] - Min({count[o], dec_ref[o]}) /\ arefs'[o] = arefs[o] - 1 /\ krefs'[o] = krefs[o]
  BY <1>1, <1>2
<1>9. count' \in [Objs -> 0 .. MaxCount]
  <2>1. count[o] - Min({count[o], dec_ref[o]}) \in 0 .. MaxCount
    BY <1>1, <1>3, <1>4, <1>5
  <2> QED
    BY <1>1, <1>2, <2>1
<1>10. \A p \in Objs \ {o} : krefs'[p] = krefs[p] /\ arefs'[p] = arefs[p] /\ count'[p] = count[p]
  BY <1>1, <1>2
<1>11. /\ Paired(o) => count'[o] = krefs'[o] + arefs'[o]
       /\ "get_device" \in kernel.syms => count'[o] >= krefs'[o] + arefs'[o]
  <2>1. /\ Paired(o) => count[o] = krefs[o] + arefs[o]
        /\ "get_device" \in kernel.syms => count[o] >= krefs[o] + arefs[o]
    BY DEF ObjInv, CountsExact
  <2> QED
    BY <1>2, <1>3, <1>4, <1>5, <1>8, <2>1
<1>12. CountsExact'
  BY <1>1, <1>2, <1>6, <1>9, <1>10, <1>11, CountMoves
<1>13. FirmwareExact'
  BY <1>2 DEF ObjInv, FirmwareExact
<1> QED
  BY <1>2, <1>6, <1>7, <1>9, <1>12, <1>13 DEF ObjInv

\* Task::get_pid_ns: the namespace is counted before it is wrapped.
LEMMA GetPidNsInv ==
    ASSUME ObjInv, GetPidNs, kernel' = kernel
    PROVE  ObjInv'
<1>1. /\ krefs \in [Objs -> 0 .. 1] /\ count \in [Objs -> 0 .. MaxCount] /\ arefs \in [Objs -> Nat]
      /\ MaxCount \in Nat /\ MaxHeld \in Nat /\ MaxHeld < MaxCount /\ "pidns" \in Objs
  BY ObjectsAssumption DEF ObjInv, Objs
<1>2. /\ Held < MaxHeld /\ krefs["pidns"] = 1
      /\ krefs' = krefs /\ count' = [count EXCEPT !["pidns"] = @ + 1]
      /\ arefs' = [arefs EXCEPT !["pidns"] = @ + 1]
      /\ UNCHANGED <<driver, images, firmware, contexts, secctx>>
  BY DEF GetPidNs, task_get_pid_ns
<1>3. count["pidns"] = 1 + arefs["pidns"]
  BY <1>1, <1>2 DEF ObjInv, CountsExact, Paired
<1>4. count["pidns"] \in Nat /\ arefs["pidns"] \in Nat
  BY <1>1
<1>5. Held' = Held + 1 /\ arefs' \in [Objs -> Nat]
  <2>1. 1 \in Int /\ arefs["pidns"] + 1 \in Nat
    BY <1>4
  <2> QED
    BY <1>1, <1>2, <2>1, HeldMoves
<1>6. Held \in Nat /\ arefs["pidns"] <= Held
  <2>1. /\ arefs["device"] \in Nat /\ arefs["task"] \in Nat
        /\ arefs["cred"] \in Nat /\ arefs["pidns"] \in Nat /\ firmware \in Nat /\ secctx \in Nat
    BY <1>1 DEF Objs, ObjInv
  <2> QED
    BY <2>1 DEF Held
<1>7. Held' <= MaxHeld /\ count["pidns"] + 1 \in 0 .. MaxCount
  BY <1>1, <1>2, <1>3, <1>4, <1>5, <1>6
<1>8. count' \in [Objs -> 0 .. MaxCount]
  BY <1>1, <1>2, <1>7
<1>9. /\ \A p \in Objs \ {"pidns"} : krefs'[p] = krefs[p] /\ arefs'[p] = arefs[p] /\ count'[p] = count[p]
      /\ count'["pidns"] = count["pidns"] + 1 /\ arefs'["pidns"] = arefs["pidns"] + 1
      /\ krefs'["pidns"] = 1
  BY <1>1, <1>2
<1>10. /\ count'["pidns"] = krefs'["pidns"] + arefs'["pidns"]
       /\ count'["pidns"] >= krefs'["pidns"] + arefs'["pidns"]
  BY <1>3, <1>4, <1>9
<1>11. CountsExact'
  BY <1>1, <1>2, <1>5, <1>8, <1>9, <1>10, CountMoves
<1>12. FirmwareExact'
  BY <1>2 DEF ObjInv, FirmwareExact
<1> QED
  BY <1>2, <1>1, <1>5, <1>7, <1>8, <1>11, <1>12 DEF ObjInv

\* What one value owns outright: firmware images and security contexts.
LEMMA OwnedInv ==
    ASSUME LoadInv, DriverInv, ObjInv, kernel' = kernel,
           \/ request_internal("request_firmware")
           \/ request_internal("firmware_request_nowarn")
           \/ FirmwareDrop \/ FromSecid \/ SecurityCtxDrop
    PROVE  ObjInv'
<1>1. /\ UNCHANGED <<driver, krefs, count, arefs>> /\ driver
  BY DEF request_internal, FirmwareDrop, FromSecid, SecurityCtxDrop, Borrows
<1>2. CountsExact'
  BY <1>1 DEF ObjInv, CountsExact, Paired
<1>3. /\ images \in 0 .. MaxCount /\ firmware \in Nat /\ contexts \in Nat /\ secctx \in Nat
      /\ MaxCount \in Nat /\ MaxHeld \in Nat /\ Held <= MaxHeld
      /\ images >= firmware /\ contexts = secctx
      /\ "release_firmware" \in kernel.syms => images = firmware
  BY ObjectsAssumption DEF ObjInv, FirmwareExact
<1>4. /\ arefs["device"] \in Nat /\ arefs["task"] \in Nat
      /\ arefs["cred"] \in Nat /\ arefs["pidns"] \in Nat
  BY DEF ObjInv, Objs
<1>5. /\ images' \in 0 .. MaxCount /\ firmware' \in Nat /\ contexts' \in Nat /\ secctx' \in Nat
      /\ images' >= firmware' /\ contexts' = secctx'
      /\ "release_firmware" \in kernel.syms => images' = firmware'
      /\ firmware' + secctx' <= firmware + secctx \/ (Held < MaxHeld /\ firmware' + secctx' = firmware + secctx + 1)
  <2>1. CASE request_internal("request_firmware") \/ request_internal("firmware_request_nowarn")
    <3>1. /\ Held < MaxHeld /\ images < MaxCount /\ images' = images + 1
          /\ firmware' = firmware + 1 /\ contexts' = contexts /\ secctx' = secctx
      BY <2>1 DEF request_internal
    <3> QED
      BY <1>3, <3>1
  <2>2. CASE FirmwareDrop
    <3>1. /\ firmware > 0 /\ firmware' = firmware - 1 /\ contexts' = contexts /\ secctx' = secctx
          /\ images' = IF Outcome("release_firmware") = "called" THEN images - 1 ELSE images
      BY <2>2 DEF FirmwareDrop
    <3>2. "release_firmware" \in kernel.syms => images' = images - 1
      <4>1. "release_firmware" \in OptionalNames
        BY DEF OptionalNames
      <4>2. ASSUME "release_firmware" \in kernel.syms PROVE Outcome("release_firmware") = "called"
        <5>1. "release_firmware" \in addr
          BY <1>1, <4>1, <4>2, LoadedNames DEF DriverInv
        <5> QED
          BY <5>1, FilledAnswers
      <4> QED
        BY <3>1, <4>2
    <3>3. images' = images \/ images' = images - 1
      BY <3>1
    <3> QED
      BY <1>3, <3>1, <3>2, <3>3
  <2>3. CASE FromSecid
    <3>1. /\ Held < MaxHeld /\ contexts' = contexts + 1 /\ secctx' = secctx + 1
          /\ images' = images /\ firmware' = firmware
      BY <2>3 DEF FromSecid
    <3> QED
      BY <1>3, <3>1
  <2>4. CASE SecurityCtxDrop
    <3>1. /\ secctx > 0 /\ contexts' = contexts - 1 /\ secctx' = secctx - 1
          /\ images' = images /\ firmware' = firmware
      BY <2>4 DEF SecurityCtxDrop
    <3> QED
      BY <1>3, <3>1
  <2> QED
    BY <2>1, <2>2, <2>3, <2>4
<1>6. Held' <= MaxHeld
  <2>1. PICK ar \in Nat :
          ar = arefs["device"] + arefs["task"] + arefs["cred"] + arefs["pidns"]
    BY <1>4
  <2>2. PICK f0 \in Nat, f1 \in Nat, s0 \in Nat, s1 \in Nat :
          f0 = firmware /\ f1 = firmware' /\ s0 = secctx /\ s1 = secctx'
    BY <1>3, <1>5
  <2>3. Held = ar + f0 + s0
    BY <2>1, <2>2 DEF Held
  <2>4. Held' = ar + f1 + s1
    BY <1>1, <2>1, <2>2 DEF Held
  <2>5. f1 + s1 <= f0 + s0 \/ (ar + f0 + s0 < MaxHeld /\ f1 + s1 = f0 + s0 + 1)
    BY <1>5, <2>2, <2>3
  <2>6. ar + f0 + s0 <= MaxHeld /\ MaxHeld \in Nat
    BY <1>3, <2>3
  <2>7. ar + f1 + s1 <= MaxHeld
    BY <2>5, <2>6
  <2> QED
    BY <2>4, <2>7
<1>7. FirmwareExact'
  BY <1>5 DEF FirmwareExact
<1> QED
  BY <1>1, <1>2, <1>5, <1>6, <1>7 DEF ObjInv

LEMMA ObjUnchanged ==
    ASSUME ObjInv, kernel' = kernel, UNCHANGED <<krefs, count, arefs, images, firmware, contexts, secctx>>
    PROVE  ObjInv'
BY DEF ObjInv, Held, CountsExact, Paired, FirmwareExact

LEMMA ObjStepInv == ASSUME LoadInv, DriverInv, ObjInv, ObjStep PROVE ObjInv' /\ DriverInv'
<1>1. kernel' = kernel /\ stage' = stage
  BY DEF ObjStep, shimVars
<1>2. CASE DriverLoads
  <2>1. /\ stage = "loaded" /\ driver' = TRUE
        /\ UNCHANGED <<krefs, count, arefs, images, firmware, contexts, secctx>>
    BY <1>2 DEF DriverLoads
  <2> QED
    BY <1>1, <2>1, ObjUnchanged DEF DriverInv
<1>3. CASE ~DriverLoads
  <2>1. \/ GetPidNs \/ FirmwareDrop \/ FromSecid \/ SecurityCtxDrop
        \/ \E o \in Objs : KernelDrops(o) \/ ARefFrom(o) \/ ARefDrop(o)
        \/ request_internal("request_firmware")
        \/ request_internal("firmware_request_nowarn")
    BY <1>3 DEF ObjStep
  <2>2. driver' = driver
    BY <2>1 DEF GetPidNs, FirmwareDrop, FromSecid, SecurityCtxDrop, KernelDrops, ARefFrom, ARefDrop, request_internal
  <2>3. ObjInv'
    BY <1>1, <2>1, GetPidNsInv, OwnedInv, KernelDropsInv, ARefFromInv, ARefDropInv
  <2> QED
    BY <1>1, <2>2, <2>3 DEF DriverInv
<1> QED
  BY <1>2, <1>3

-----------------------------------------------------------------------------
(* The buffer of the driver and the memory behind it.                      *)

BlockStates == [area : {"free", "kmalloc", "vmalloc"}, size : Sizes, filled : Sizes]
Live(m) == {b \in Blocks : m[b].area # "free"}

\* A buffer is whole or it is not there.
BufferWhole ==
    \/ buf = NoBuffer
    \/ /\ buf.alloc \in AllocatorNames /\ buf.ptr \in Blocks /\ buf.layout \in Sizes \ {0}
       /\ buf.filled \in Sizes /\ buf.filled <= buf.layout
       /\ buf = [alloc |-> buf.alloc, ptr |-> buf.ptr, layout |-> buf.layout, filled |-> buf.filled]

AllocInv == mem \in [Blocks -> BlockStates] /\ BufferWhole /\ BufferBacked

\* Sizes are the numbers up to MaxSize.
LEMMA SizesAre == \A n : n \in Sizes <=> n \in Nat /\ n <= MaxSize
BY AllocatorAssumption DEF Sizes

LEMMA AllocInvTyped == ASSUME AllocInv PROVE AllocTypeOK
<1>1. 0 \in Sizes
  BY AllocatorAssumption DEF Sizes
<1>2. buf \in [alloc : AllocatorNames \cup {"none"}, ptr : Blocks \cup {NULL},
               layout : Sizes, filled : Sizes]
  BY <1>1 DEF AllocInv, BufferWhole, NoBuffer
<1> QED
  BY <1>2 DEF AllocInv, AllocTypeOK, BlockStates

LEMMA AllocInvInit == AllocInit => AllocInv
<1> SUFFICES ASSUME AllocInit PROVE AllocInv
  OBVIOUS
<1>1. 0 \in Sizes
  BY AllocatorAssumption DEF Sizes
<1>2. mem = [b \in Blocks |-> FreeBlock] /\ buf = NoBuffer
  BY DEF AllocInit
<1>3. FreeBlock \in BlockStates /\ FreeBlock.area = "free"
  BY <1>1 DEF FreeBlock, BlockStates
<1>4. mem \in [Blocks -> BlockStates]
  BY <1>2, <1>3
<1>5. buf.ptr = NULL
  BY <1>2 DEF NoBuffer
<1>6. BufferBacked
  BY <1>2, <1>3, <1>5 DEF BufferBacked
<1> QED
  BY <1>2, <1>4, <1>6 DEF AllocInv, BufferWhole

\* With at most one block in use there is another one.
LEMMA FreshIs ==
    ASSUME NEW m \in [Blocks -> BlockStates], NEW p \in Blocks \cup {NULL}, Live(m) = {p} \ {NULL}
    PROVE  Fresh(m) \in Blocks /\ Fresh(m) # p /\ m[Fresh(m)].area = "free"
<1>1. \E b \in Blocks : m[b].area = "free"
  BY DEF Blocks, Live
<1>2. Fresh(m) \in Blocks /\ m[Fresh(m)].area = "free"
  BY <1>1 DEF Fresh
<1>3. Fresh(m) \notin Live(m)
  BY <1>2 DEF Live
<1>4. Fresh(m) # NULL
  BY <1>2 DEF Blocks, NULL
<1> QED
  BY <1>2, <1>3, <1>4

\* What a call that changes the size of a buffer may answer: nothing, and the memory is
\* what it was, or another block of that size that holds what fits of the old contents,
\* and no other block is in use.
Answer(m, p, size, r) ==
    \/ r.ptr = NULL /\ r.mem = m
    \/ /\ r.ptr \in Blocks /\ r.mem \in [Blocks -> BlockStates]
       /\ Live(r.mem) = {r.ptr}
       /\ r.mem[r.ptr].size = size
       /\ p # NULL => \A k \in Nat : k <= m[p].filled /\ k <= m[p].size /\ k <= size
                                        => k <= r.mem[r.ptr].filled

\* A block that was just placed.
LEMMA PlacedIs ==
    ASSUME NEW m \in [Blocks -> BlockStates], NEW p \in Blocks \cup {NULL}, Live(m) = {p} \ {NULL},
           NEW size \in Sizes, NEW areas \in SUBSET {"kmalloc", "vmalloc"}, NEW r \in Placed(m, areas, size)
    PROVE  /\ r = [ptr |-> r.ptr, mem |-> r.mem]
           /\ r.ptr \in Blocks /\ r.ptr # p /\ r.mem \in [Blocks -> BlockStates]
           /\ r.mem[r.ptr].area # "free" /\ r.mem[r.ptr].size = size
           /\ \A b \in Blocks \ {r.ptr} : r.mem[b] = m[b]
<1> DEFINE f == Fresh(m)
<1>1. f \in Blocks /\ f # p
  BY FreshIs
<1> HIDE DEF f
<1>2. PICK a \in areas : r = [ptr |-> f, mem |-> [m EXCEPT ![f] = [area |-> a, size |-> size, filled |-> 0]]]
  BY DEF Placed, f
<1>3. r.ptr = f /\ r.mem = [m EXCEPT ![f] = [area |-> a, size |-> size, filled |-> 0]]
      /\ r = [ptr |-> r.ptr, mem |-> r.mem]
  BY <1>2
<1>4. [area |-> a, size |-> size, filled |-> 0] \in BlockStates
  BY SizesAre, AllocatorAssumption DEF BlockStates
<1>5. r.mem \in [Blocks -> BlockStates]
  BY <1>1, <1>3, <1>4
<1>6. r.mem[f] = [area |-> a, size |-> size, filled |-> 0]
  BY <1>1, <1>3
<1>7. \A b \in Blocks \ {f} : r.mem[b] = m[b]
  BY <1>3
<1>8. a # "free"
  OBVIOUS
<1> QED
  BY <1>1, <1>3, <1>5, <1>6, <1>7, <1>8

\* A new allocation.
LEMMA AllocateAnswers ==
    ASSUME NEW m \in [Blocks -> BlockStates], Live(m) = {},
           NEW size \in Sizes, NEW areas \in SUBSET {"kmalloc", "vmalloc"}, NEW r \in Allocate(m, size, areas)
    PROVE  Answer(m, NULL, size, r)
<1>1. CASE r \in Failed(m)
  BY <1>1 DEF Failed, Answer
<1>2. CASE r \in Placed(m, areas, size)
  <2>1. Live(m) = {NULL} \ {NULL} /\ NULL \in Blocks \cup {NULL}
    OBVIOUS
  <2>2. /\ r.ptr \in Blocks /\ r.mem \in [Blocks -> BlockStates]
        /\ r.mem[r.ptr].area # "free" /\ r.mem[r.ptr].size = size
        /\ \A b \in Blocks \ {r.ptr} : r.mem[b] = m[b]
    BY <1>2, <2>1, PlacedIs
  <2>3. Live(r.mem) = {r.ptr}
    BY <2>2 DEF Live
  <2> QED
    BY <2>2, <2>3 DEF Answer
<1> QED
  BY <1>1, <1>2 DEF Allocate

\* The copy takes all that fits, and the old block is free.
LEMMA CopyAnswers ==
    ASSUME NEW m \in [Blocks -> BlockStates], NEW p \in Blocks, Live(m) = {p},
           NEW size \in Sizes, NEW areas \in SUBSET {"kmalloc", "vmalloc"}, NEW r \in Placed(m, areas, size),
           NEW n \in Nat, n >= m[p].size \/ n >= size
    PROVE  Answer(m, p, size, CopyAndFree(r, p, n)) /\ CopyAndFree(r, p, n).ptr # NULL
<1>1. p # NULL
  BY DEF Blocks, NULL
<1>2. /\ r = [ptr |-> r.ptr, mem |-> r.mem]
      /\ r.ptr \in Blocks /\ r.ptr # p /\ r.mem \in [Blocks -> BlockStates]
      /\ r.mem[r.ptr].area # "free" /\ r.mem[r.ptr].size = size
      /\ \A b \in Blocks \ {r.ptr} : r.mem[b] = m[b]
  BY <1>1, PlacedIs
<1> DEFINE k == Min({n, r.mem[p].filled})
           c == CopyAndFree(r, p, n)
           filled == [r.mem EXCEPT ![r.ptr].filled = k]
<1>3. r.mem[p] = m[p] /\ m[p].filled \in Sizes /\ m[p].size \in Sizes
  BY <1>2 DEF BlockStates
<1>4. m[p].filled \in Nat /\ m[p].size \in Nat /\ m[p].filled <= MaxSize /\ size \in Nat
  BY <1>3, SizesAre
<1>5. k = IF n <= m[p].filled THEN n ELSE m[p].filled
  BY <1>3, <1>4, MinOfTwo
<1>6. k \in Sizes
  BY <1>4, <1>5, SizesAre, AllocatorAssumption
<1>7. c = [ptr |-> r.ptr, mem |-> Released(filled, p)]
  BY <1>2 DEF CopyAndFree
<1>8. c.ptr = r.ptr /\ c.mem = [filled EXCEPT ![p] = FreeBlock]
  BY <1>7 DEF Released
<1> HIDE DEF k, c
<1>9. filled \in [Blocks -> BlockStates] /\ filled[r.ptr].filled = k
      /\ filled[r.ptr].area = r.mem[r.ptr].area /\ filled[r.ptr].size = size
  BY <1>2, <1>6 DEF BlockStates
<1>10. FreeBlock \in BlockStates /\ FreeBlock.area = "free"
  BY SizesAre, AllocatorAssumption DEF FreeBlock, BlockStates
<1> HIDE DEF filled
<1>11. c.mem \in [Blocks -> BlockStates] /\ c.mem[p] = FreeBlock /\ c.mem[r.ptr] = filled[r.ptr]
  BY <1>2, <1>8, <1>9, <1>10
<1>12. Live(c.mem) = {c.ptr}
  <2>1. \A b \in Blocks : b = p \/ b = r.ptr
    BY <1>2 DEF Blocks
  <2> QED
    BY <1>2, <1>8, <1>9, <1>10, <1>11, <2>1 DEF Live
<1>13. \A j \in Nat : j <= m[p].filled /\ j <= m[p].size /\ j <= size => j <= k
  BY <1>4, <1>5
<1>14. c.mem[c.ptr].filled = k /\ c.mem[c.ptr].size = size
  BY <1>8, <1>9, <1>11
<1>15. Answer(m, p, size, c)
  BY <1>2, <1>8, <1>11, <1>12, <1>13, <1>14 DEF Answer
<1>16. c.ptr # NULL
  BY <1>2, <1>8 DEF Blocks, NULL
<1> QED
  BY <1>15, <1>16 DEF c

\* Whole pages are at least as large as what was asked for.
LEMMA QuotientIs ==
    ASSUME NEW y \in Nat, NEW d \in Nat \ {0}
    PROVE  y \div d \in Nat /\ (y \div d) * d \in Nat /\ (y \div d) * d >= y - (d - 1)
<1>1. y \div d \in Nat
  OBVIOUS
<1>2. y = (y \div d) * d + (y % d)
  OBVIOUS
<1>3. y % d \in Nat /\ y % d < d
  OBVIOUS
<1>4. (y \div d) * d \in Nat
  BY <1>1
<1> QED
  BY <1>1, <1>2, <1>3, <1>4

\* Rounding up to whole pages does not make a size smaller.
LEMMA RoundedUp ==
    ASSUME NEW x \in Nat
    PROVE  /\ ((x + PageUnits - 1) \div PageUnits) * PageUnits \in Nat
           /\ ((x + PageUnits - 1) \div PageUnits) * PageUnits >= x
<1>1. PageUnits \in Nat \ {0}
  BY AllocatorAssumption
<1>2. PICK y \in Nat : y = x + PageUnits - 1
  BY <1>1
<1>3. y - (PageUnits - 1) = x
  BY <1>1, <1>2
<1> QED
  BY <1>1, <1>2, <1>3, QuotientIs

\* The kernel's realloc functions.
LEMMA KernelReallocAnswers ==
    ASSUME NEW m \in [Blocks -> BlockStates], NEW p \in Blocks \cup {NULL}, Live(m) = {p} \ {NULL},
           NEW size \in Sizes \ {0}, NEW areas \in SUBSET {"kmalloc", "vmalloc"},
           NEW r \in KernelRealloc(m, p, size, areas)
    PROVE  Answer(m, p, size, r)
<1>1. CASE p = NULL
  <2>1. r \in Allocate(m, size, areas) /\ Live(m) = {}
    BY <1>1 DEF KernelRealloc
  <2> QED
    BY <1>1, <2>1, AllocateAnswers
<1>2. CASE p # NULL
  <2>1. r \in Failed(m) \cup {CopyAndFree(s, p, Min({m[p].size, size})) : s \in Placed(m, areas, size)}
    BY <1>2 DEF KernelRealloc
  <2>2. CASE r \in Failed(m)
    BY <2>2 DEF Failed, Answer
  <2>3. CASE r \notin Failed(m)
    <3>1. PICK s \in Placed(m, areas, size) : r = CopyAndFree(s, p, Min({m[p].size, size}))
      BY <2>1, <2>3
    <3>2. p \in Blocks /\ Live(m) = {p}
      BY <1>2
    <3>3. m[p].size \in Nat /\ size \in Nat
      BY <3>2, SizesAre DEF BlockStates
    <3>4. PICK n \in Nat : n = Min({m[p].size, size}) /\ (n >= m[p].size \/ n >= size)
      BY <3>3, MinOfTwo
    <3> QED
      BY <3>1, <3>2, <3>4, CopyAnswers
  <2> QED
    BY <2>2, <2>3
<1> QED
  BY <1>1, <1>2

\* The fallback of the shim.
LEMMA MoveAreaAnswers ==
    ASSUME NEW m \in [Blocks -> BlockStates], NEW p \in Blocks, Live(m) = {p},
           NEW size \in Sizes \ {0}, NEW areas \in SUBSET {"kmalloc", "vmalloc"},
           NEW r \in MoveArea(m, p, size, areas)
    PROVE  Answer(m, p, size, r)
<1> DEFINE old == rs_vmalloc_size(m, p)
<1>1. m[p].size \in Nat /\ size \in Nat
  BY SizesAre DEF BlockStates
<1>2. old = 0 \/ (old \in Nat /\ old >= m[p].size)
  BY <1>1, RoundedUp DEF rs_vmalloc_size
<1>3. r \in IF old = 0 THEN Failed(m)
            ELSE {IF s.ptr = NULL THEN s ELSE CopyAndFree(s, p, Min({old, size})) :
                    s \in Allocate(m, size, areas)}
  BY DEF MoveArea
<1> HIDE DEF old
<1>4. CASE r \in Failed(m)
  BY <1>4 DEF Failed, Answer
<1>5. CASE r \notin Failed(m)
  <2>1. PICK s \in Allocate(m, size, areas) :
          r = IF s.ptr = NULL THEN s ELSE CopyAndFree(s, p, Min({old, size}))
    BY <1>3, <1>5
  <2>2. CASE s \in Failed(m)
    BY <1>5, <2>1, <2>2 DEF Failed
  <2>3. CASE s \in Placed(m, areas, size)
    <3>1. old # 0
      BY <1>3, <1>5
    <3>2. PICK n \in Nat : n = Min({old, size}) /\ (n >= m[p].size \/ n >= size)
      BY <1>1, <1>2, <3>1, MinOfTwo
    <3>3. p # NULL /\ s.ptr # NULL
      <4>1. p # NULL
        BY DEF Blocks, NULL
      <4>2. s.ptr \in Blocks
        BY <2>3, <4>1, PlacedIs
      <4> QED
        BY <4>1, <4>2 DEF Blocks, NULL
    <3> QED
      BY <2>1, <2>3, <3>2, <3>3, CopyAnswers
  <2> QED
    BY <2>1, <2>2, <2>3 DEF Allocate
<1> QED
  BY <1>4, <1>5

\* Allocator::realloc of the three allocators, to a size that is not zero.
LEMMA ReallocAnswers ==
    ASSUME NEW alloc \in AllocatorNames, NEW big \in BOOLEAN,
           NEW m \in [Blocks -> BlockStates], NEW p \in Blocks \cup {NULL}, Live(m) = {p} \ {NULL},
           NEW size \in Sizes \ {0}, NEW r \in ReallocFunc(alloc, m, p, size, big)
    PROVE  Answer(m, p, size, r)
<1>1. p # NULL => p \in Blocks /\ Live(m) = {p}
  OBVIOUS
<1>2. size # 0 /\ size \in Sizes
  OBVIOUS
<1>3. CASE big /\ alloc # "Kmalloc"
  BY <1>3 DEF ReallocFunc, Failed, Answer
<1>4. CASE ~(big /\ alloc # "Kmalloc") /\ alloc = "Kmalloc"
  <2>1. r \in KernelRealloc(m, p, size, {"kmalloc"})
    BY <1>4 DEF ReallocFunc
  <2> QED
    BY <2>1, KernelReallocAnswers
<1>5. CASE ~(big /\ alloc # "Kmalloc") /\ alloc = "Vmalloc"
  <2>1. r \in rs_vrealloc(m, p, size)
    BY <1>5 DEF ReallocFunc
  <2>2. CASE "vrealloc" \in addr
    <3>1. r \in KernelRealloc(m, p, size, {"vmalloc"})
      BY <2>1, <2>2 DEF rs_vrealloc
    <3> QED
      BY <3>1, KernelReallocAnswers
  <2>3. CASE "vrealloc" \notin addr /\ p = NULL
    <3>1. r \in Allocate(m, size, {"vmalloc"}) /\ Live(m) = {}
      BY <2>1, <2>3 DEF rs_vrealloc
    <3> QED
      BY <1>2, <2>3, <3>1, AllocateAnswers
  <2>4. CASE "vrealloc" \notin addr /\ p # NULL
    <3>1. r \in MoveArea(m, p, size, {"vmalloc"})
      BY <1>2, <2>1, <2>4 DEF rs_vrealloc
    <3> QED
      BY <1>1, <2>4, <3>1, MoveAreaAnswers
  <2> QED
    BY <2>2, <2>3, <2>4
<1>6. CASE ~(big /\ alloc # "Kmalloc") /\ alloc = "KVmalloc"
  <2>1. r \in rs_kvrealloc(m, p, size)
    BY <1>6 DEF ReallocFunc
  <2>2. CASE "kvrealloc" \in addr
    <3>1. r \in KernelRealloc(m, p, size, {"kmalloc", "vmalloc"})
      BY <2>1, <2>2 DEF rs_kvrealloc
    <3> QED
      BY <3>1, KernelReallocAnswers
  <2>3. CASE "kvrealloc" \notin addr /\ p = NULL
    <3>1. r \in Allocate(m, size, {"kmalloc", "vmalloc"}) /\ Live(m) = {}
      BY <2>1, <2>3 DEF rs_kvrealloc
    <3> QED
      BY <1>2, <2>3, <3>1, AllocateAnswers
  <2>4. CASE "kvrealloc" \notin addr /\ p # NULL /\ m[p].area = "vmalloc"
    <3>1. r \in MoveArea(m, p, size, {"kmalloc", "vmalloc"})
      BY <1>2, <2>1, <2>4 DEF rs_kvrealloc
    <3> QED
      BY <1>1, <2>4, <3>1, MoveAreaAnswers
  <2>5. CASE "kvrealloc" \notin addr /\ p # NULL /\ m[p].area # "vmalloc"
    <3>1. r \in KernelRealloc(m, p, size, {"kmalloc"})
      BY <1>2, <2>1, <2>5 DEF rs_kvrealloc
    <3> QED
      BY <3>1, KernelReallocAnswers
  <2> QED
    BY <2>2, <2>3, <2>4, <2>5
<1> QED
  BY <1>3, <1>4, <1>5, <1>6 DEF AllocatorNames

\* Allocator::free: to a size of zero, every allocator frees the block and no other.
LEMMA FreeAnswers ==
    ASSUME NEW alloc \in AllocatorNames, NEW m, NEW p \in Blocks,
           NEW r \in ReallocFunc(alloc, m, p, 0, FALSE)
    PROVE  r.mem = Released(m, p)
<1>1. p # NULL
  BY DEF Blocks, NULL
<1>2. ReallocFunc(alloc, m, p, 0, FALSE) = Failed(Released(m, p))
  <2>1. \A areas : KernelRealloc(m, p, 0, areas) = Failed(Released(m, p))
    BY <1>1 DEF KernelRealloc
  <2>2. rs_vrealloc(m, p, 0) = Failed(Released(m, p)) /\ rs_kvrealloc(m, p, 0) = Failed(Released(m, p))
    BY <1>1, <2>1 DEF rs_vrealloc, rs_kvrealloc
  <2>3. CASE alloc = "Kmalloc"
    BY <2>1, <2>3 DEF ReallocFunc
  <2>4. CASE alloc = "Vmalloc"
    BY <2>2, <2>4 DEF ReallocFunc
  <2>5. CASE alloc = "KVmalloc"
    BY <2>2, <2>5 DEF ReallocFunc
  <2> QED
    BY <2>3, <2>4, <2>5 DEF AllocatorNames
<1>3. r \in Failed(Released(m, p))
  BY <1>2, Zenon
<1> QED
  BY <1>3 DEF Failed

\* The block the buffer has, and the others.
LEMMA BackedIs ==
    ASSUME AllocInv
    PROVE  /\ Live(mem) = {buf.ptr} \ {NULL} /\ buf.ptr \in Blocks \cup {NULL}
           /\ buf.alloc = "none" <=> buf = NoBuffer
           /\ buf # NoBuffer => /\ buf.alloc \in AllocatorNames /\ buf.ptr \in Blocks /\ buf.ptr # NULL
                                /\ buf.layout \in Sizes \ {0}
<1>1. Live(mem) = {buf.ptr} \ {NULL}
  BY DEF AllocInv, BufferBacked, Live
<1>2. NoBuffer.alloc = "none" /\ NoBuffer.ptr = NULL /\ "none" \notin AllocatorNames
  BY DEF NoBuffer, AllocatorNames
<1>3. NULL \notin Blocks
  BY DEF NULL, Blocks
<1> QED
  BY <1>1, <1>2, <1>3 DEF AllocInv, BufferWhole

\* A call of realloc, to a size that is not zero.
LEMMA ReallocInv ==
    ASSUME AllocInv, NEW alloc \in AllocatorNames, NEW size \in Sizes \ {0}, realloc(alloc, size)
    PROVE  AllocInv'
<1>1. PICK p \in Blocks \cup {NULL} : p = IF buf.layout = 0 THEN NULL ELSE buf.ptr
  BY BackedIs
<1>2. p = buf.ptr
  <2>1. CASE buf = NoBuffer
    BY <1>1, <2>1 DEF NoBuffer
  <2>2. CASE buf # NoBuffer
    BY <1>1, <2>2, BackedIs
  <2> QED
    BY <2>1, <2>2
<1>3. PICK m \in [Blocks -> BlockStates] : m = mem
  BY DEF AllocInv
<1> PICK big \in BOOLEAN :
       \E r \in ReallocFunc(alloc, m, p, size, big) :
         /\ mem' = r.mem
         /\ buf' = IF size # 0 /\ r.ptr = NULL THEN buf
                   ELSE [alloc |-> alloc, ptr |-> r.ptr, layout |-> size,
                         filled |-> Min({buf.filled, size})]
  BY <1>1, <1>3 DEF realloc
<1>4. PICK r \in ReallocFunc(alloc, m, p, size, big) :
        /\ mem' = r.mem
        /\ buf' = IF size # 0 /\ r.ptr = NULL THEN buf
                  ELSE [alloc |-> alloc, ptr |-> r.ptr, layout |-> size,
                        filled |-> Min({buf.filled, size})]
  OBVIOUS
<1>5. Live(m) = {p} \ {NULL}
  BY <1>2, <1>3, BackedIs
<1>6. Answer(m, p, size, r)
  BY <1>5, ReallocAnswers
<1>7. CASE r.ptr = NULL /\ r.mem = m
  <2>1. mem' = mem /\ buf' = buf
    BY <1>3, <1>4, <1>7
  <2> QED
    BY <2>1 DEF AllocInv, BufferWhole, BufferBacked
<1>8. CASE ~(r.ptr = NULL /\ r.mem = m)
  <2>1. /\ r.ptr \in Blocks /\ r.mem \in [Blocks -> BlockStates]
        /\ Live(r.mem) = {r.ptr} /\ r.mem[r.ptr].size = size
        /\ p # NULL => \A k \in Nat : k <= m[p].filled /\ k <= m[p].size /\ k <= size
                                        => k <= r.mem[r.ptr].filled
    BY <1>6, <1>8 DEF Answer
  <2>2. r.ptr # NULL
    BY <2>1 DEF Blocks, NULL
  <2>3. buf.filled \in Nat /\ size \in Nat /\ size <= MaxSize /\ size # 0
    BY SizesAre, AllocatorAssumption DEF AllocInv, BufferWhole, NoBuffer
  <2>4. PICK f \in Nat : f = Min({buf.filled, size}) /\ f <= buf.filled /\ f <= size
    BY <2>3, MinOfTwo
  <2>5. buf' = [alloc |-> alloc, ptr |-> r.ptr, layout |-> size, filled |-> f] /\ mem' = r.mem
    BY <1>4, <2>2, <2>4
  <2>6. f \in Sizes
    BY <2>3, <2>4, SizesAre, AllocatorAssumption
  <2>7. BufferWhole'
    BY <2>1, <2>4, <2>5, <2>6 DEF BufferWhole
  <2>8. f <= r.mem[r.ptr].filled
    <3>1. CASE buf = NoBuffer
      <4>1. f = 0
        BY <2>4, <3>1 DEF NoBuffer
      <4>2. r.mem[r.ptr].filled \in Nat
        BY <2>1, SizesAre DEF BlockStates
      <4> QED
        BY <4>1, <4>2
    <3>2. CASE buf # NoBuffer
      <4>1. p # NULL /\ p \in Blocks /\ p = buf.ptr
        BY <1>2, <3>2, BackedIs
      <4>2. /\ m[p].filled >= buf.filled /\ m[p].size >= buf.layout /\ buf.filled <= buf.layout
            /\ buf.layout \in Nat
        BY <1>3, <3>2, <4>1, SizesAre DEF AllocInv, BufferBacked, BufferWhole
      <4>3. m[p].filled \in Nat /\ m[p].size \in Nat
        BY <4>1, SizesAre DEF BlockStates
      <4>4. f <= m[p].filled /\ f <= m[p].size
        BY <2>3, <2>4, <4>2, <4>3
      <4> QED
        BY <2>1, <2>4, <4>1, <4>4
    <3> QED
      BY <3>1, <3>2
  <2>9. BufferBacked'
    <3>1. buf'.ptr = r.ptr /\ buf'.layout = size /\ buf'.filled = f
      BY <2>5
    <3>2. r.mem[r.ptr].area # "free" /\ {b \in Blocks : r.mem[b].area # "free"} = {r.ptr} \ {NULL}
      BY <2>1, <2>2 DEF Live
    <3>3. r.mem[r.ptr].size >= size /\ r.mem[r.ptr].filled >= f
      <4>1. r.mem[r.ptr].filled \in Nat
        BY <2>1, SizesAre DEF BlockStates
      <4> QED
        BY <2>1, <2>3, <2>8, <4>1
    <3> QED
      BY <2>5, <3>1, <3>2, <3>3 DEF BufferBacked
  <2> QED
    BY <2>1, <2>5, <2>7, <2>9 DEF AllocInv
<1> QED
  BY <1>7, <1>8

LEMMA FreeInv == ASSUME AllocInv, Free PROVE AllocInv'
<1>1. buf # NoBuffer /\ buf' = NoBuffer
  BY BackedIs DEF Free
<1>2. buf.alloc \in AllocatorNames /\ buf.ptr \in Blocks /\ Live(mem) = {buf.ptr}
  BY <1>1, BackedIs
<1>3. PICK a \in AllocatorNames, p \in Blocks, m \in [Blocks -> BlockStates] :
        a = buf.alloc /\ p = buf.ptr /\ m = mem
  BY <1>2 DEF AllocInv
<1>4. PICK r \in ReallocFunc(a, m, p, 0, FALSE) : mem' = r.mem
  BY <1>3 DEF Free
<1>5. mem' = [m EXCEPT ![p] = FreeBlock]
  BY <1>4, FreeAnswers DEF Released
<1>6. FreeBlock \in BlockStates /\ FreeBlock.area = "free"
  BY SizesAre, AllocatorAssumption DEF FreeBlock, BlockStates
<1>7. mem' \in [Blocks -> BlockStates] /\ Live(mem') = {}
  BY <1>2, <1>3, <1>5, <1>6 DEF Live
<1>8. buf'.ptr = NULL
  BY <1>1 DEF NoBuffer
<1>9. BufferBacked'
  BY <1>7, <1>8 DEF BufferBacked, Live
<1> QED
  BY <1>1, <1>7, <1>9 DEF AllocInv, BufferWhole

LEMMA FillInv == ASSUME AllocInv, Fill PROVE AllocInv'
<1>1. buf.ptr # NULL /\ buf # NoBuffer
  BY DEF Fill, NoBuffer
<1>2. /\ buf.ptr \in Blocks /\ buf.layout \in Sizes \ {0} /\ buf.alloc \in AllocatorNames
      /\ mem \in [Blocks -> BlockStates]
  BY <1>1, BackedIs DEF AllocInv
<1>3. /\ mem[buf.ptr].area # "free" /\ mem[buf.ptr].size >= buf.layout
      /\ {b \in Blocks : mem[b].area # "free"} = {buf.ptr} \ {NULL}
  BY <1>1 DEF AllocInv, BufferBacked
<1>4. buf' = [alloc |-> buf.alloc, ptr |-> buf.ptr, layout |-> buf.layout, filled |-> buf.layout]
  BY <1>1 DEF Fill, AllocInv, BufferWhole
<1>5. mem' = [mem EXCEPT ![buf.ptr].filled = buf.layout]
  BY DEF Fill
<1>6. /\ mem' \in [Blocks -> BlockStates] /\ mem'[buf.ptr].filled = buf.layout
      /\ mem'[buf.ptr].size = mem[buf.ptr].size
      /\ \A b \in Blocks : mem'[b].area = mem[b].area
  BY <1>2, <1>5 DEF BlockStates
<1>7. buf.layout \in Nat
  BY <1>2, SizesAre
<1>8. buf'.ptr = buf.ptr /\ buf'.layout = buf.layout /\ buf'.filled = buf.layout
  BY <1>4
<1>9. BufferBacked'
  BY <1>1, <1>2, <1>3, <1>6, <1>7, <1>8 DEF BufferBacked
<1>10. BufferWhole'
  BY <1>2, <1>4, <1>7 DEF BufferWhole
<1> QED
  BY <1>6, <1>9, <1>10 DEF AllocInv

LEMMA AllocStepInv == ASSUME AllocInv, AllocStep PROVE AllocInv'
<1>1. CASE Alloc
  BY <1>1, ReallocInv DEF Alloc
<1>2. CASE Grow
  <2>1. PICK size \in Sizes \ {0} : buf.alloc # "none" /\ realloc(buf.alloc, size)
    BY <1>2 DEF Grow
  <2>2. PICK a \in AllocatorNames : a = buf.alloc
    BY <2>1, BackedIs
  <2>3. realloc(a, size)
    BY <2>1, <2>2
  <2> QED
    BY <2>3, ReallocInv
<1> QED
  BY <1>1, <1>2, FreeInv, FillInv DEF AllocStep

-----------------------------------------------------------------------------
(* rust_support and the driver together.                                   *)

SupportInv == LoadInv /\ DriverInv /\ ObjInv /\ AllocInv

LEMMA SupportInvInit == SupportInit => SupportInv
<1> SUFFICES ASSUME SupportInit PROVE SupportInv
  OBVIOUS
<1>1. ShimInit /\ ObjInit /\ AllocInit
  BY DEF SupportInit
<1>2. DriverInv
  BY <1>1 DEF ObjInit, DriverInv
<1> QED
  BY <1>1, <1>2, LoadInvInit, ObjInvInit, AllocInvInit DEF SupportInv

LEMMA AllocUnchanged == ASSUME AllocInv, UNCHANGED allocVars PROVE AllocInv'
BY DEF AllocInv, BufferWhole, BufferBacked, allocVars

\* The load does not change the kernel it runs on.
LEMMA KernelStays == ASSUME InsertModule \/ LoadStep \/ ExitTypeInfo \/ ExitUnregister PROVE kernel' = kernel
<1>1. ASSUME LoadStep PROVE kernel' = kernel
  <2>1. \/ find_kallsyms_base \/ ti_init \/ ResolveMandatory \/ ResolveOptional
        \/ rs_field_resolve_btf \/ rs_task_anchor_offs \/ rs_task_compile_offs
        \/ VerifyOffsets \/ ShimInitFailed \/ KunitInitRust \/ RegisterNotifier
    BY <1>1 DEF LoadStep
  <2> QED
    BY <2>1 DEF find_kallsyms_base, ti_init, ResolveMandatory, ResolveOptional,
                rs_field_resolve_btf, rs_task_anchor_offs, rs_task_compile_offs,
                VerifyOffsets, ShimInitFailed, KunitInitRust, RegisterNotifier
<1> QED
  BY <1>1 DEF InsertModule, ExitTypeInfo, ExitUnregister

LEMMA SupportInvNext == ASSUME SupportInv, [SupportNext]_supportVars PROVE SupportInv'
<1>0. LoadInv /\ DriverInv /\ ObjInv /\ AllocInv
  BY DEF SupportInv
<1>1. CASE (InsertModule \/ LoadStep \/ ExitTypeInfo) /\ UNCHANGED <<objVars, allocVars>>
  <2>1. LoadInv'
    BY <1>0, <1>1, InsertModuleInv, LoadStepInv, UnwindInv
  <2>2. driver' = driver /\ UNCHANGED <<krefs, count, arefs, images, firmware, contexts, secctx>>
    BY <1>1 DEF objVars
  <2>3. DriverInv'
    BY <1>0, <1>1, <2>2, LoadedStays DEF DriverInv
  <2>4. ObjInv'
    BY <1>0, <1>1, <2>2, KernelStays, ObjUnchanged
  <2> QED
    BY <1>0, <1>1, <2>1, <2>3, <2>4, AllocUnchanged DEF SupportInv
<1>2. CASE ~driver /\ ExitUnregister /\ UNCHANGED <<objVars, allocVars>>
  <2>1. LoadInv'
    BY <1>0, <1>2, UnregisterInv
  <2>2. driver' = driver /\ UNCHANGED <<krefs, count, arefs, images, firmware, contexts, secctx>>
    BY <1>2 DEF objVars
  <2>3. DriverInv'
    BY <1>0, <1>2, <2>2 DEF DriverInv
  <2>4. ObjInv'
    BY <1>0, <1>2, <2>2, KernelStays, ObjUnchanged
  <2> QED
    BY <1>0, <1>2, <2>1, <2>3, <2>4, AllocUnchanged DEF SupportInv
<1>3. CASE ObjStep /\ UNCHANGED allocVars
  <2>1. UNCHANGED shimVars
    BY <1>3 DEF ObjStep
  <2> QED
    BY <1>0, <1>3, <2>1, LoadUnchanged, ObjStepInv, AllocUnchanged DEF SupportInv
<1>4. CASE buf = NoBuffer /\ DriverUnloads /\ UNCHANGED <<shimVars, allocVars>>
  <2>1. /\ driver' = FALSE /\ UNCHANGED <<krefs, count, arefs, images, firmware, contexts, secctx>>
        /\ kernel' = kernel
    BY <1>4 DEF DriverUnloads, shimVars
  <2>2. DriverInv' /\ ObjInv'
    BY <1>0, <2>1, ObjUnchanged DEF DriverInv
  <2> QED
    BY <1>0, <1>4, <2>2, LoadUnchanged, AllocUnchanged DEF SupportInv
<1>5. CASE driver /\ AllocStep /\ UNCHANGED objVars
  <2>1. UNCHANGED shimVars
    BY <1>5 DEF AllocStep
  <2>2. /\ kernel' = kernel /\ stage' = stage /\ driver' = driver
        /\ UNCHANGED <<krefs, count, arefs, images, firmware, contexts, secctx>>
    BY <1>5, <2>1 DEF objVars, shimVars
  <2>3. DriverInv' /\ ObjInv'
    BY <1>0, <2>2, ObjUnchanged DEF DriverInv
  <2> QED
    BY <1>0, <1>5, <2>1, <2>3, LoadUnchanged, AllocStepInv DEF SupportInv
<1>6. CASE UNCHANGED supportVars
  <2>1. UNCHANGED shimVars /\ UNCHANGED objVars /\ UNCHANGED allocVars
    BY <1>6 DEF supportVars
  <2>2. /\ kernel' = kernel /\ stage' = stage /\ driver' = driver
        /\ UNCHANGED <<krefs, count, arefs, images, firmware, contexts, secctx>>
    BY <2>1 DEF objVars, shimVars
  <2>3. DriverInv' /\ ObjInv'
    BY <1>0, <2>2, ObjUnchanged DEF DriverInv
  <2> QED
    BY <1>0, <2>1, <2>3, LoadUnchanged, AllocUnchanged DEF SupportInv
<1> QED
  BY <1>1, <1>2, <1>3, <1>4, <1>5, <1>6 DEF SupportNext

\* The inductive invariant of rust_support.ko with a driver on top (main.c, shim.c).
THEOREM SupportInvAlways == SupportSpec => []SupportInv
<1>1. SupportInit => SupportInv
  BY SupportInvInit
<1>2. SupportInv /\ [SupportNext]_supportVars => SupportInv'
  BY SupportInvNext
<1> QED
  BY <1>1, <1>2, PTL DEF SupportSpec

\* On every kernel, a driver finds every mandatory wrapper resolved and every offset from
\* the best source, and a load that fails or an unload leaves nothing behind (main.c,
\* shim.c).
THEOREM LoadIsWhole == SupportSpec => []ShimInv
<1>1. SupportInv => ShimInv
  <2> SUFFICES ASSUME SupportInv PROVE ShimInv
    OBVIOUS
  <2>1. LoadInv /\ DriverInv /\ ObjInv /\ AllocInv
    BY DEF SupportInv
  <2>2. ObjTypeOK
    BY <2>1, ObjInvTyped DEF DriverInv
  <2> QED
    BY <2>1, <2>2, LoadInvWrappers, LoadInvOffsets, LoadInvNothingLeft, AllocInvTyped DEF ShimInv, SupportTypeOK
<1> QED
  BY <1>1, SupportInvAlways, PTL

\* However many values a driver holds, every ARef owns one count and every Firmware and
\* SecurityCtx one object, as far as the kernel has the functions (device.rs, firmware.rs,
\* task.rs, cred.rs, security.rs).
THEOREM ObjectsBalance == SupportSpec => []ObjectsInv
<1>1. SupportInv => ObjectsInv
  BY DEF SupportInv, ObjInv, ObjectsInv
<1> QED
  BY <1>1, SupportInvAlways, PTL

\* Whatever the sizes, the page size and the functions of the kernel, a buffer is backed
\* by one live block that still holds what was written (allocator.rs, shim.c).
THEOREM BufferIsBacked == SupportSpec => []BufferBacked
<1>1. SupportInv => BufferBacked
  BY DEF SupportInv, AllocInv
<1> QED
  BY <1>1, SupportInvAlways, PTL

-----------------------------------------------------------------------------
(* The registry of KUnit tests.                                            *)

\* Entries j and k stand for one test.
SameTest(j, k) == j # k /\ entries[j].run_case = entries[k].run_case

\* The first registration of the cases of m is under way.
FirstPass(m) == mstate[m] = "coming" \/ (m = Self /\ mstate[m] = "init")

\* rust_support comes first and stays; a test runs only in a live module.
StagesInv ==
    /\ mstate[Self] \in {"init", "driver", "live", "idle"}
    /\ mstate[Self] = "init" => \A m \in Lkms : mstate[m] = "unloaded"
    /\ \A m \in Modules : tpc[m] # "next" => mstate[m] = "live" /\ idx[m] <= Len(Cases[m])

\* An entry is whole, and its module is there.
EntriesInv ==
    \A k \in DOMAIN entries :
        /\ entries[k].run_case[1] = entries[k].owner
        /\ entries[k].name = Cases[entries[k].owner][entries[k].run_case[2]]
        /\ mstate[entries[k].owner] # "unloaded"

\* The notifier registers a case once and __init once more.
TwiceInv ==
    /\ \A i, j, k \in DOMAIN entries : ~(SameTest(i, j) /\ SameTest(j, k) /\ SameTest(i, k))
    /\ \A j, k \in DOMAIN entries :
        LET m == entries[k].owner
        IN  /\ m = Self \/ mstate[m] = "coming" => ~SameTest(j, k)
            /\ FirstPass(m) => entries[k].run_case[2] < idx[m]
            /\ mstate[m] = "init" /\ entries[k].run_case[2] >= idx[m] => ~SameTest(j, k)

\* The cases the first registration has been through.
Expected(m, i) ==
    \/ FirstPass(m) /\ i < idx[m]
    \/ m # Self /\ mstate[m] = "init"
    \/ mstate[m] \in {"driver", "live"}

RegisteredInv ==
    Demand <= MaxCases =>
        \A m \in Modules : \A i \in 1 .. Len(Cases[m]) :
            Expected(m, i) => \E k \in DOMAIN entries : entries[k].run_case = <<m, i>>

RegInv ==
    /\ idx \in [Modules -> Nat] /\ TypeOK
    /\ StagesInv /\ EntriesInv /\ TwiceInv /\ RegisteredInv

\* Constants.
LEMMA CasesTyped ==
    \A m \in Modules : /\ Cases[m] \in Seq(Names) /\ Len(Cases[m]) \in Nat
                       /\ \A i \in 1 .. Len(Cases[m]) : Cases[m][i] \in Names
BY CasesAssumption

\* A test is a module and the number of one of its cases.
LEMMA TestsAre ==
    /\ \A m \in Modules : \A i \in 1 .. Len(Cases[m]) : <<m, i>> \in Tests
    /\ \A t \in Tests : /\ t[1] \in Modules /\ t[2] \in 1 .. Len(Cases[t[1]])
                        /\ t = <<t[1], t[2]>>
BY DEF Tests

\* The registry of a behaviour has a size.
LEMMA ConfigTyped == ASSUME config \in Configs PROVE MaxCases \in Nat /\ Serial \in BOOLEAN
BY ConfigsAssumption DEF MaxCases, Serial

\* The tests of one module are as many as its cases.
LEMMA OwnTests ==
    ASSUME NEW m \in Modules
    PROVE  LET own == {<<m, i>> : i \in 1 .. Len(Cases[m])}
           IN  own \subseteq Tests /\ IsFiniteSet(own) /\ Cardinality(own) = Len(Cases[m])
<1> DEFINE n == Len(Cases[m])
           own == {<<m, i>> : i \in 1 .. n}
           f == [i \in 1 .. n |-> <<m, i>>]
<1>1. n \in Nat
  BY CasesTyped
<1> HIDE DEF n
<1>2. f \in Bijection(1 .. n, own)
  BY DEF Bijection, Injection, Surjection, IsInjective
<1>3. IsFiniteSet(1 .. n) /\ Cardinality(1 .. n) = n
  BY <1>1, FS_Interval
<1>4. ExistsBijection(1 .. n, own)
  BY <1>2 DEF ExistsBijection
<1>5. IsFiniteSet(own) /\ Cardinality(own) = n
  BY <1>3, <1>4, FS_Bijection
<1>6. own \subseteq Tests
  BY TestsAre DEF n
<1> QED
  BY <1>5, <1>6 DEF n

LkmTests == {t \in Tests : t[1] # Self}

\* There are finitely many modules, each with finitely many cases.
LEMMA TestsFinite == IsFiniteSet(Tests) /\ IsFiniteSet(LkmTests)
<1> DEFINE own(m) == {<<m, i>> : i \in 1 .. Len(Cases[m])}
           owns == {own(m) : m \in Modules}
           f == [m \in Modules |-> own(m)]
<1>1. f \in Surjection(Modules, owns)
  BY DEF Surjection
<1>2. IsFiniteSet(owns)
  BY <1>1, FS_Surjection, ModulesAssumption
<1>3. \A T \in owns : IsFiniteSet(T)
  BY OwnTests
<1>4. IsFiniteSet(UNION owns)
  BY <1>2, <1>3, FS_UNION
<1>5. IsFiniteSet(Tests)
  BY <1>4 DEF Tests
<1> QED
  BY <1>5, FS_Subset DEF LkmTests

\* The room that is not needed is at most the cases of any module that is loaded last.
LEMMA SpareIs ==
    /\ Spare \in Nat /\ Spare <= Cardinality(LkmTests)
    /\ \A m \in Lkms : Spare <= Len(Cases[m])
<1> DEFINE sizes == {Len(Cases[m]) : m \in Lkms}
<1>1. Cardinality(LkmTests) \in Nat
  BY TestsFinite, FS_CardinalityType
<1>2. CASE Lkms = {}
  BY <1>1, <1>2 DEF Spare
<1>3. CASE Lkms # {}
  <2>1. sizes \in SUBSET Nat /\ sizes # {}
    BY <1>3, CasesTyped DEF Lkms
  <2>2. Min(sizes) \in sizes /\ \A y \in sizes : Min(sizes) <= y
    BY <2>1, MinIs
  <2>3. Spare = Min(sizes)
    BY <1>3 DEF Spare
  <2>4. PICK m \in Lkms : Spare = Len(Cases[m])
    BY <2>2, <2>3
  <2> DEFINE own == {<<m, i>> : i \in 1 .. Len(Cases[m])}
  <2>5. m \in Modules /\ m # Self
    BY DEF Lkms
  <2>6. own \in SUBSET LkmTests /\ Cardinality(own) = Len(Cases[m])
    <3>1. own \subseteq Tests /\ Cardinality(own) = Len(Cases[m])
      BY <2>5, OwnTests
    <3>2. \A t \in own : t[1] # Self
      BY <2>5
    <3> QED
      BY <3>1, <3>2 DEF LkmTests
  <2>7. Cardinality(own) <= Cardinality(LkmTests)
    BY <2>6, TestsFinite, FS_Subset
  <2>8. Spare <= Cardinality(LkmTests)
    BY <2>4, <2>6, <2>7
  <2> QED
    BY <2>1, <2>2, <2>3, <2>8
<1> QED
  BY <1>2, <1>3

-----------------------------------------------------------------------------
(* Compaction: the number of an entry among those that are kept.           *)

Rank(kept, i) == Cardinality({k \in kept : k <= i})

\* How many of the kept indices are up to i, and how that grows with i.
LEMMA RankIs ==
    ASSUME NEW n \in Nat, NEW kept \in SUBSET (1 .. n), NEW i \in Nat
    PROVE  /\ IsFiniteSet(kept) /\ Cardinality(kept) \in Nat
           /\ Rank(kept, i) \in Nat /\ Rank(kept, i) <= Cardinality(kept)
           /\ i >= n => Rank(kept, i) = Cardinality(kept)
           /\ i = 0 => Rank(kept, i) = 0
           /\ i > 0 => Rank(kept, i) = IF i \in kept THEN Rank(kept, i - 1) + 1 ELSE Rank(kept, i - 1)
<1> DEFINE upto(x) == {k \in kept : k <= x}
<1>0. \A k \in kept : k \in Nat /\ 1 <= k /\ k <= n
  OBVIOUS
<1>1. IsFiniteSet(kept)
  <2>1. IsFiniteSet(1 .. n)
    BY FS_Interval
  <2> QED
    BY <2>1, FS_Subset
<1>2. IsFiniteSet(upto(i)) /\ Cardinality(upto(i)) <= Cardinality(kept)
  BY <1>1, FS_Subset
<1>3. Cardinality(kept) \in Nat /\ Cardinality(upto(i)) \in Nat
  BY <1>1, <1>2, FS_CardinalityType
<1>4. i >= n => upto(i) = kept
  <2>1. i >= n => \A k \in kept : k <= i
    BY <1>0
  <2> QED
    BY <2>1
<1>5. i = 0 => upto(i) = {}
  <2>1. i = 0 => \A k \in kept : ~(k <= i)
    BY <1>0
  <2> QED
    BY <2>1
<1>6. ASSUME i > 0 PROVE Cardinality(upto(i)) = IF i \in kept THEN Cardinality(upto(i - 1)) + 1
                                               ELSE Cardinality(upto(i - 1))
  <2>1. i - 1 \in Nat /\ i \notin upto(i - 1)
    BY <1>6
  <2>2. IsFiniteSet(upto(i - 1))
    BY <1>1, FS_Subset
  <2>3. CASE i \in kept
    <3>1. upto(i) = upto(i - 1) \cup {i}
      <4>1. \A k \in kept : k <= i <=> k <= i - 1 \/ k = i
        BY <1>0, <1>6
      <4> QED
        BY <2>3, <4>1
    <3> QED
      BY <2>1, <2>2, <2>3, <3>1, FS_AddElement
  <2>4. CASE i \notin kept
    <3>1. upto(i) = upto(i - 1)
      <4>1. \A k \in kept : k <= i <=> k <= i - 1
        BY <1>0, <1>6, <2>4
      <4> QED
        BY <4>1
    <3> QED
      BY <2>4, <3>1
  <2> QED
    BY <2>3, <2>4
<1> QED
  BY <1>1, <1>2, <1>3, <1>4, <1>5, <1>6, FS_EmptySet DEF Rank

\* The j-th entry that is kept is one of them, and has that number.
LEMMA NthIs ==
    ASSUME NEW n \in Nat, NEW kept \in SUBSET (1 .. n), NEW j \in 1 .. Cardinality(kept)
    PROVE  Nth(kept, j) \in kept /\ Rank(kept, Nth(kept, j)) = j
<1> DEFINE T == {i \in Nat : Rank(kept, i) >= j}
<1>1. Cardinality(kept) \in Nat /\ j \in Nat /\ j > 0 /\ j <= Cardinality(kept)
  BY RankIs
<1>2. n \in T
  BY <1>1, RankIs
<1>3. PICK i \in T : \A y \in T : i <= y
  BY <1>2, LeastOne
<1>4. i \in Nat /\ Rank(kept, i) >= j /\ i # 0
  BY <1>1, <1>3, RankIs
<1>5. i - 1 \in Nat /\ i - 1 \notin T
  BY <1>3, <1>4
<1>6. Rank(kept, i - 1) \in Nat /\ Rank(kept, i - 1) < j
  BY <1>1, <1>5, RankIs
<1>7. i \in kept /\ Rank(kept, i) = j
  BY <1>1, <1>4, <1>6, RankIs
<1> QED
  BY <1>7 DEF Nth, Rank

\* Every entry that is kept is one of these.
LEMMA NthSurjective ==
    ASSUME NEW n \in Nat, NEW kept \in SUBSET (1 .. n), NEW i \in kept
    PROVE  \E j \in 1 .. Cardinality(kept) : Nth(kept, j) = i
<1> DEFINE upto(x) == {k \in kept : k <= x}
<1>0. \A k \in kept : k \in Nat /\ 1 <= k
  OBVIOUS
<1>1. i \in Nat /\ i > 0
  BY <1>0
<1>2. /\ Rank(kept, i) \in Nat /\ Rank(kept, i) <= Cardinality(kept) /\ Cardinality(kept) \in Nat
      /\ Rank(kept, i - 1) \in Nat /\ Rank(kept, i) = Rank(kept, i - 1) + 1
  <2>1. i - 1 \in Nat
    BY <1>1
  <2> QED
    BY <1>1, <2>1, RankIs
<1>3. PICK j \in 1 .. Cardinality(kept) : j = Rank(kept, i)
  BY <1>2
<1>4. PICK h \in kept : h = Nth(kept, j) /\ Rank(kept, h) = j
  BY NthIs
<1>5. IsFiniteSet(upto(i)) /\ IsFiniteSet(upto(h))
  BY RankIs, FS_Subset
<1>6. Cardinality(upto(i)) = Cardinality(upto(h))
  BY <1>3, <1>4 DEF Rank
<1>7. CASE i <= h
  <2>1. upto(i) \in SUBSET upto(h)
    <3>1. \A k \in kept : k <= i => k <= h
      BY <1>0, <1>7
    <3> QED
      BY <3>1
  <2>2. upto(i) = upto(h)
    BY <1>5, <1>6, <2>1, FS_Subset
  <2>3. h \in upto(i)
    BY <2>2
  <2> QED
    BY <1>4, <1>7, <2>3
<1>8. CASE h <= i
  <2>1. upto(h) \in SUBSET upto(i)
    <3>1. \A k \in kept : k <= h => k <= i
      BY <1>0, <1>8
    <3> QED
      BY <3>1
  <2>2. upto(h) = upto(i)
    BY <1>5, <1>6, <2>1, FS_Subset
  <2>3. i \in upto(h)
    BY <2>2
  <2> QED
    BY <1>4, <1>8, <2>3
<1> QED
  BY <1>7, <1>8

-----------------------------------------------------------------------------
(* A registry with room for the demand never drops a case at the first     *)
(* registration: every entry is the first or the second of its test.       *)

\* What an entry of the registry is.
LEMMA EntriesTyped ==
    ASSUME RegInv
    PROVE  /\ Len(entries) \in Nat /\ DOMAIN entries = 1 .. Len(entries)
           /\ \A k \in DOMAIN entries :
                /\ entries[k] \in Entry /\ entries[k].owner \in Modules /\ entries[k].run_case \in Tests
                /\ entries[k].run_case[2] \in Nat
                /\ entries[k].run_case = <<entries[k].owner, entries[k].run_case[2]>>
                /\ entries[k].run_case[2] \in 1 .. Len(Cases[entries[k].owner])
<1>1. entries \in Seq(Entry)
  BY DEF RegInv, TypeOK
<1>2. \A k \in DOMAIN entries : entries[k] \in Entry
  BY <1>1
<1>3. \A k \in DOMAIN entries : entries[k].owner \in Modules /\ entries[k].run_case \in Tests
  BY <1>2 DEF Entry
<1>4. \A k \in DOMAIN entries : entries[k].run_case[1] = entries[k].owner
  BY DEF RegInv, EntriesInv
<1>5. \A k \in DOMAIN entries :
        /\ entries[k].run_case[2] \in 1 .. Len(Cases[entries[k].owner])
        /\ entries[k].run_case = <<entries[k].owner, entries[k].run_case[2]>>
  BY <1>3, <1>4, TestsAre
<1>6. \A k \in DOMAIN entries : entries[k].run_case[2] \in Nat
  BY <1>3, <1>5, CasesTyped
<1> QED
  BY <1>1, <1>2, <1>3, <1>5, <1>6

Firsts == {k \in DOMAIN entries : \A j \in DOMAIN entries : j < k => ~SameTest(j, k)}
Seconds == DOMAIN entries \ Firsts

\* The first entries of their tests are no more than the tests.
LEMMA FirstsCounted ==
    ASSUME RegInv, NEW T \in SUBSET Tests, \A k \in DOMAIN entries : entries[k].run_case \in T
    PROVE  IsFiniteSet(Firsts) /\ Cardinality(Firsts) <= Cardinality(T)
<1> DEFINE f == [k \in Firsts |-> entries[k].run_case]
<1>1. IsFiniteSet(T)
  BY TestsFinite, FS_Subset
<1>2. \A j, k \in Firsts : f[j] = f[k] => j = k
  <2> SUFFICES ASSUME NEW j \in Firsts, NEW k \in Firsts, f[j] = f[k], j # k PROVE FALSE
    OBVIOUS
  <2>1. j \in DOMAIN entries /\ k \in DOMAIN entries /\ j \in Nat /\ k \in Nat
    BY EntriesTyped DEF Firsts
  <2>2. SameTest(j, k) /\ SameTest(k, j)
    BY DEF SameTest
  <2>3. j < k \/ k < j
    BY <2>1
  <2> QED
    BY <2>1, <2>2, <2>3 DEF Firsts
<1>3. f \in [Firsts -> T]
  BY DEF Firsts
<1>4. f \in Injection(Firsts, T)
  BY <1>2, <1>3 DEF Injection, IsInjective
<1> QED
  BY <1>1, <1>4, FS_Injection

\* A test has at most one second entry, so these are no more than the tests either.
LEMMA SecondsCounted ==
    ASSUME RegInv, NEW T \in SUBSET Tests, \A k \in Seconds : entries[k].run_case \in T
    PROVE  IsFiniteSet(Seconds) /\ Cardinality(Seconds) <= Cardinality(T)
<1> DEFINE f == [k \in Seconds |-> entries[k].run_case]
<1>1. IsFiniteSet(T)
  BY TestsFinite, FS_Subset
<1>2. ASSUME NEW j \in Seconds, NEW k \in Seconds, entries[j].run_case = entries[k].run_case, j < k
      PROVE  FALSE
  <2>1. j \in DOMAIN entries /\ k \in DOMAIN entries /\ j \in Nat /\ k \in Nat
    BY EntriesTyped DEF Seconds
  <2>2. PICK i \in DOMAIN entries : i < j /\ SameTest(i, j)
    BY <2>1 DEF Seconds, Firsts
  <2>3. i \in Nat
    BY EntriesTyped
  <2>4. SameTest(j, k) /\ SameTest(i, k)
    BY <1>2, <2>1, <2>2, <2>3 DEF SameTest
  <2> QED
    BY <2>1, <2>2, <2>4 DEF RegInv, TwiceInv
<1>3. \A j, k \in Seconds : f[j] = f[k] => j = k
  <2>1. \A j \in Seconds : j \in Nat
    BY EntriesTyped DEF Seconds
  <2> QED
    BY <1>2, <2>1
<1>4. f \in [Seconds -> T]
  OBVIOUS
<1>5. f \in Injection(Seconds, T)
  BY <1>3, <1>4 DEF Injection, IsInjective
<1> QED
  BY <1>1, <1>5, FS_Injection

\* The second of two entries repeats the first.
LEMMA SecondsRepeat ==
    ASSUME RegInv, NEW k \in Seconds
    PROVE  k \in DOMAIN entries /\ \E j \in DOMAIN entries : SameTest(j, k)
BY DEF Seconds, Firsts

\* Every entry is the first or the second of its test.
LEMMA LenIs ==
    ASSUME RegInv, NEW a \in Nat, NEW b \in Nat,
           IsFiniteSet(Firsts), Cardinality(Firsts) <= a,
           IsFiniteSet(Seconds), Cardinality(Seconds) <= b
    PROVE  Len(entries) <= a + b
<1>1. Len(entries) \in Nat /\ DOMAIN entries = 1 .. Len(entries)
  BY EntriesTyped
<1>2. IsFiniteSet(DOMAIN entries) /\ Cardinality(DOMAIN entries) = Len(entries)
  <2>1. PICK n \in Nat : n = Len(entries)
    BY <1>1
  <2>2. IsFiniteSet(1 .. n) /\ Cardinality(1 .. n) = n
    BY FS_Interval
  <2> QED
    BY <1>1, <2>1, <2>2
<1>3. DOMAIN entries = Firsts \cup Seconds
  BY DEF Firsts, Seconds
<1>4. Firsts \cap Seconds = {}
  BY DEF Seconds
<1>5. Cardinality(Firsts \cup Seconds) = Cardinality(Firsts) + Cardinality(Seconds) - Cardinality(Firsts \cap Seconds)
  BY FS_Union
<1>6. Cardinality(Firsts) \in Nat /\ Cardinality(Seconds) \in Nat
  BY FS_CardinalityType
<1> QED
  BY <1>2, <1>3, <1>4, <1>5, <1>6, FS_EmptySet

\* Demand: every test once, those of other modules twice, less what may be spared.
LEMMA DemandIs ==
    /\ Cardinality(Tests) \in Nat /\ Cardinality(LkmTests) \in Nat
    /\ Demand = Cardinality(Tests) + Cardinality(LkmTests) - Spare
<1>1. Cardinality(Tests) \in Nat /\ Cardinality(LkmTests) \in Nat
  BY TestsFinite, FS_CardinalityType
<1>2. {t \in Tests : t[1] # Self} = LkmTests
  BY DEF LkmTests
<1> QED
  BY <1>1, <1>2 DEF Demand

\* The first registration of a case finds the registry with room.
LEMMA RoomLeft ==
    ASSUME RegInv, Demand <= MaxCases, NEW m \in Modules, AtCase(m), FirstPass(m)
    PROVE  ~RegistryFull
<1> DEFINE t == <<m, idx[m]>>
           own == {<<m, i>> : i \in 1 .. Len(Cases[m])}
           T == Tests \ {t}
<1>1. /\ idx[m] \in Nat /\ idx[m] >= 1 /\ idx[m] <= Len(Cases[m]) /\ Len(Cases[m]) \in Nat
      /\ MaxCases \in Nat
  BY CasesTyped, ConfigTyped DEF RegInv, TypeOK, AtCase
<1>2. t \in Tests /\ own \subseteq Tests
  BY <1>1, TestsAre
<1>3. \A k \in DOMAIN entries : entries[k].run_case \in T
  <2> SUFFICES ASSUME NEW k \in DOMAIN entries, entries[k].run_case = t PROVE FALSE
    BY EntriesTyped
  <2>1. entries[k].owner = m /\ entries[k].run_case[2] = idx[m]
    BY EntriesTyped
  <2>2. entries[k].run_case[2] < idx[m]
    BY <2>1 DEF RegInv, TwiceInv
  <2> QED
    BY <1>1, <2>1, <2>2
<1>4. IsFiniteSet(Firsts) /\ Cardinality(Firsts) <= Cardinality(Tests) - 1
  <2>1. Cardinality(T) = Cardinality(Tests) - 1
    BY <1>2, TestsFinite, FS_RemoveElement
  <2> QED
    BY <1>3, <2>1, FirstsCounted
<1>5. Cardinality(Tests) \in Nat /\ Cardinality(Tests) - 1 \in Nat
  <2>1. Cardinality(Firsts) \in Nat
    BY <1>4, FS_CardinalityType
  <2> QED
    BY <1>4, <2>1, DemandIs
<1>6. CASE m = Self
  <2>1. \A j, k \in DOMAIN entries : ~SameTest(j, k)
    <3>1. mstate[Self] = "init"
      BY <1>6 DEF FirstPass, RegInv, StagesInv
    <3>2. \A k \in DOMAIN entries : entries[k].owner = Self
      BY <3>1, EntriesTyped DEF RegInv, StagesInv, EntriesInv, Lkms
    <3> QED
      BY <3>2 DEF RegInv, TwiceInv
  <2>2. Seconds = {}
    BY <2>1, SecondsRepeat
  <2>3. IsFiniteSet(Seconds) /\ Cardinality(Seconds) <= 0
    BY <2>2, FS_EmptySet
  <2>4. Len(entries) <= Cardinality(Tests) - 1 + 0
    BY <1>4, <1>5, <2>3, LenIs
  <2>5. Len(entries) \in Nat /\ Spare \in Nat /\ Spare <= Cardinality(LkmTests)
    BY EntriesTyped, SpareIs
  <2> QED
    BY <1>1, <1>5, <2>4, <2>5, DemandIs DEF RegistryFull
<1>7. CASE m # Self
  <2>1. mstate[m] = "coming"
    BY <1>7 DEF FirstPass
  <2> DEFINE S == LkmTests \ own
  <2>2. \A k \in Seconds : entries[k].run_case \in S
    <3> SUFFICES ASSUME NEW k \in Seconds PROVE entries[k].run_case \in LkmTests /\ entries[k].run_case \notin own
      OBVIOUS
    <3>1. k \in DOMAIN entries /\ \E j \in DOMAIN entries : SameTest(j, k)
      BY SecondsRepeat
    <3>2. entries[k].owner # Self /\ entries[k].owner # m
      BY <2>1, <3>1 DEF RegInv, TwiceInv
    <3>3. entries[k].run_case \in Tests /\ entries[k].run_case[1] = entries[k].owner
      BY <3>1, EntriesTyped DEF RegInv, EntriesInv
    <3> QED
      BY <3>2, <3>3 DEF LkmTests
  <2>3. own \subseteq LkmTests
    BY <1>2, <1>7 DEF LkmTests
  <2>4. IsFiniteSet(own) /\ Cardinality(own) = Len(Cases[m])
    BY OwnTests
  <2>5. Cardinality(S) = Cardinality(LkmTests) - Len(Cases[m]) /\ S \in SUBSET Tests
    <3>1. LkmTests \cap own = own
      BY <2>3
    <3>2. Cardinality(S) = Cardinality(LkmTests) - Cardinality(own)
      BY <3>1, TestsFinite, FS_Difference
    <3>3. S \in SUBSET Tests
      BY DEF LkmTests
    <3> QED
      BY <2>4, <3>2, <3>3
  <2>6. IsFiniteSet(Seconds) /\ Cardinality(Seconds) <= Cardinality(LkmTests) - Len(Cases[m])
    BY <2>2, <2>5, SecondsCounted
  <2>7. Cardinality(LkmTests) - Len(Cases[m]) \in Nat
    <3>1. Cardinality(Seconds) \in Nat
      BY <2>6, FS_CardinalityType
    <3> QED
      BY <1>1, <2>6, <3>1, DemandIs
  <2>8. Len(entries) <= (Cardinality(Tests) - 1) + (Cardinality(LkmTests) - Len(Cases[m]))
    BY <1>4, <1>5, <2>6, <2>7, LenIs
  <2>9. Len(entries) \in Nat /\ Spare \in Nat /\ Spare <= Len(Cases[m])
    BY <1>7, EntriesTyped, SpareIs DEF Lkms
  <2> QED
    BY <1>1, <1>5, <2>8, <2>9, DemandIs DEF RegistryFull
<1> QED
  BY <1>6, <1>7

-----------------------------------------------------------------------------
(* Steps that leave the entries alone.                                     *)

LEMMA RegInvInit == Init => RegInv
<1> SUFFICES ASSUME Init PROVE RegInv
  OBVIOUS
<1>1. /\ config \in Configs /\ mstate = [m \in Modules |-> IF m = Self THEN "init" ELSE "unloaded"]
      /\ idx = [m \in Modules |-> 1] /\ entries = <<>> /\ tpc = [m \in Modules |-> "next"]
      /\ fn = [m \in Modules |-> None] /\ current = None /\ asserted = {} /\ failed = {}
  BY DEF Init
<1>2. entries \in Seq(Entry) /\ Len(entries) = 0 /\ DOMAIN entries = {}
  BY <1>1
<1>3. idx \in [Modules -> Nat] /\ TypeOK
  BY <1>1, <1>2, CasesTyped, ConfigTyped DEF TypeOK
<1>4. StagesInv
  BY <1>1, ModulesAssumption DEF StagesInv, Lkms
<1>5. EntriesInv /\ TwiceInv
  BY <1>2 DEF EntriesInv, TwiceInv
<1>6. RegisteredInv
  <2>1. \A m \in Modules : \A i \in 1 .. Len(Cases[m]) : ~Expected(m, i)
    BY <1>1, CasesTyped, ModulesAssumption DEF Expected, FirstPass
  <2> QED
    BY <2>1 DEF RegisteredInv
<1> QED
  BY <1>3, <1>4, <1>5, <1>6 DEF RegInv

\* Module m goes on from one step of its load to the next, or one of its tests does.
LEMMA QuietStepInv ==
    ASSUME RegInv, NEW m \in Modules, TypeOK', StagesInv', idx' \in [Modules -> Nat],
           config' = config, entries' = entries,
           \A o \in Modules \ {m} : mstate'[o] = mstate[o] /\ idx'[o] = idx[o],
           mstate'[m] # "unloaded" \/ mstate[m] = "unloaded",
           mstate'[m] = "coming" => \/ mstate[m] = "unloaded"
                                    \/ mstate[m] = "coming" /\ idx'[m] >= idx[m],
           m = Self /\ mstate'[m] = "init" => mstate[m] = "init" /\ idx'[m] >= idx[m],
           mstate'[m] = "init" => mstate[m] = "coming" \/ (mstate[m] = "init" /\ idx'[m] >= idx[m]),
           Demand <= MaxCases => \A i \in 1 .. Len(Cases[m]) : Expected(m, i)' => Expected(m, i)
    PROVE  RegInv'
<1>1. EntriesInv'
  BY EntriesTyped DEF RegInv, EntriesInv
<1>2. TwiceInv'
  <2>1. \A j, k \in DOMAIN entries : SameTest(j, k)' <=> SameTest(j, k)
    BY DEF SameTest
  <2>2. \A i, j, k \in DOMAIN entries' : ~(SameTest(i, j)' /\ SameTest(j, k)' /\ SameTest(i, k)')
    BY <2>1 DEF RegInv, TwiceInv
  <2>3. ASSUME NEW j \in DOMAIN entries, NEW k \in DOMAIN entries, NEW o, o = entries[k].owner
        PROVE  /\ o = Self \/ mstate'[o] = "coming" => ~SameTest(j, k)
               /\ FirstPass(o)' => entries[k].run_case[2] < idx'[o]
               /\ mstate'[o] = "init" /\ entries[k].run_case[2] >= idx'[o] => ~SameTest(j, k)
    <3>1. /\ o = Self \/ mstate[o] = "coming" => ~SameTest(j, k)
          /\ FirstPass(o) => entries[k].run_case[2] < idx[o]
          /\ mstate[o] = "init" /\ entries[k].run_case[2] >= idx[o] => ~SameTest(j, k)
          /\ mstate[o] # "unloaded"
      BY <2>3 DEF RegInv, TwiceInv, EntriesInv
    <3>2. o \in Modules /\ entries[k].run_case[2] \in Nat /\ idx[o] \in Nat /\ idx'[o] \in Nat
      BY <2>3, EntriesTyped DEF RegInv
    <3>3. CASE o # m
      BY <3>1, <3>2, <3>3 DEF FirstPass
    <3>4. CASE o = m
      <4>1. o = Self \/ mstate'[o] = "coming" => ~SameTest(j, k)
        BY <3>1, <3>4
      <4>2. FirstPass(o)' => entries[k].run_case[2] < idx'[o]
        BY <3>1, <3>2, <3>4 DEF FirstPass
      <4>3. mstate'[o] = "init" /\ entries[k].run_case[2] >= idx'[o] => ~SameTest(j, k)
        BY <3>1, <3>2, <3>4
      <4> QED
        BY <4>1, <4>2, <4>3
    <3> QED
      BY <3>3, <3>4
  <2> QED
    BY <2>1, <2>2, <2>3 DEF TwiceInv
<1>3. RegisteredInv'
  <2> SUFFICES ASSUME Demand <= MaxCases, NEW o \in Modules, NEW i \in 1 .. Len(Cases[o]), Expected(o, i)'
               PROVE  \E k \in DOMAIN entries : entries[k].run_case = <<o, i>>
    BY DEF RegisteredInv, MaxCases
  <2>1. Expected(o, i)
    BY DEF Expected, FirstPass
  <2> QED
    BY <2>1 DEF RegInv, RegisteredInv
<1> QED
  BY <1>1, <1>2, <1>3 DEF RegInv

LoadStates == {"unloaded", "coming", "init", "driver", "live", "idle", "going"}

\* The load of m moves on and no test does.
LEMMA LoadMoves ==
    ASSUME RegInv, NEW m \in Modules, NEW s \in LoadStates, NEW n \in 1 .. (Len(Cases[m]) + 1),
           mstate' = [mstate EXCEPT ![m] = s], idx' = [idx EXCEPT ![m] = n],
           config' = config, entries' = entries, UNCHANGED testVars, tpc[m] = "next",
           m = Self => s \in {"init", "driver", "live", "idle"} /\ (s = "init" => mstate[Self] = "init"),
           m # Self => mstate[Self] # "init"
    PROVE  /\ TypeOK' /\ StagesInv' /\ idx' \in [Modules -> Nat] /\ mstate'[m] = s /\ idx'[m] = n
           /\ \A o \in Modules \ {m} : mstate'[o] = mstate[o] /\ idx'[o] = idx[o]
<1>1. mstate \in [Modules -> LoadStates] /\ idx \in [Modules -> Nat]
  BY DEF RegInv, TypeOK, LoadStates
<1>2. /\ mstate'[m] = s /\ idx'[m] = n /\ mstate' \in [Modules -> LoadStates]
      /\ \A o \in Modules \ {m} : mstate'[o] = mstate[o] /\ idx'[o] = idx[o]
  BY <1>1
<1>3. n \in Nat
  BY CasesTyped
<1>4. idx' \in [Modules -> Nat]
  BY <1>1, <1>3
<1>5. UNCHANGED <<tpc, fn, current, asserted, failed>>
  BY DEF testVars
<1>6. \A o \in Modules : idx'[o] \in 1 .. (Len(Cases[o]) + 1)
  BY <1>2 DEF RegInv, TypeOK
<1>7. TypeOK'
  BY <1>2, <1>5, <1>6 DEF RegInv, TypeOK, LoadStates, MaxCases
<1>8. StagesInv'
  <2>1. mstate'[Self] \in {"init", "driver", "live", "idle"}
    BY <1>2, ModulesAssumption DEF RegInv, StagesInv
  <2>2. mstate'[Self] = "init" => \A o \in Lkms : mstate'[o] = "unloaded"
    BY <1>2, ModulesAssumption DEF RegInv, StagesInv, Lkms
  <2>3. \A o \in Modules : tpc'[o] # "next" => mstate'[o] = "live" /\ idx'[o] <= Len(Cases[o])
    BY <1>2, <1>5 DEF RegInv, StagesInv
  <2> QED
    BY <2>1, <2>2, <2>3 DEF StagesInv
<1> QED
  BY <1>2, <1>4, <1>7, <1>8

\* What is known of m before its step.
LEMMA BeforeStep ==
    ASSUME RegInv, NEW m \in Modules
    PROVE  /\ idx \in [Modules -> Nat] /\ idx[m] \in 1 .. (Len(Cases[m]) + 1) /\ Len(Cases[m]) \in Nat
           /\ idx = [idx EXCEPT ![m] = idx[m]]
           /\ mstate \in [Modules -> LoadStates] /\ mstate = [mstate EXCEPT ![m] = mstate[m]]
           /\ mstate[m] # "live" => tpc[m] = "next"
           /\ m = Self => mstate[m] \in {"init", "driver", "live", "idle"}
           /\ m # Self /\ mstate[m] # "unloaded" => mstate[Self] # "init"
<1>1. idx \in [Modules -> Nat] /\ mstate \in [Modules -> LoadStates]
  BY DEF RegInv, TypeOK, LoadStates
<1>2. idx[m] \in 1 .. (Len(Cases[m]) + 1) /\ Len(Cases[m]) \in Nat
  BY CasesTyped DEF RegInv, TypeOK
<1> QED
  BY <1>1, <1>2 DEF RegInv, StagesInv, Lkms

LEMMA ComingInv == ASSUME RegInv, NEW m \in Modules, Coming(m), config' = config PROVE RegInv'
<1>1. /\ mstate[m] = "unloaded" /\ mstate[Self] \in {"live", "idle"}
      /\ mstate' = [mstate EXCEPT ![m] = "coming"] /\ idx' = [idx EXCEPT ![m] = 1]
      /\ entries' = entries /\ UNCHANGED testVars
  BY DEF Coming
<1>2. m # Self /\ tpc[m] = "next" /\ 1 \in 1 .. (Len(Cases[m]) + 1) /\ "coming" \in LoadStates
  BY <1>1, BeforeStep DEF LoadStates
<1>3. /\ TypeOK' /\ StagesInv' /\ idx' \in [Modules -> Nat] /\ mstate'[m] = "coming" /\ idx'[m] = 1
      /\ \A o \in Modules \ {m} : mstate'[o] = mstate[o] /\ idx'[o] = idx[o]
  BY <1>1, <1>2, LoadMoves
<1>4. \A i \in 1 .. Len(Cases[m]) : ~Expected(m, i)'
  BY <1>2, <1>3, BeforeStep DEF Expected, FirstPass
<1> QED
  BY <1>1, <1>2, <1>3, <1>4, QuietStepInv

LEMMA DropCaseInv == ASSUME RegInv, NEW m \in Modules, DropCase(m), config' = config PROVE RegInv'
<1>1. /\ AtCase(m) /\ RegistryFull /\ idx' = [idx EXCEPT ![m] = @ + 1] /\ mstate' = mstate
      /\ entries' = entries /\ UNCHANGED testVars
  BY DEF DropCase
<1>2. /\ mstate[m] \in {"coming", "init"} /\ idx[m] <= Len(Cases[m]) /\ idx[m] \in Nat
      /\ idx[m] + 1 \in 1 .. (Len(Cases[m]) + 1) /\ mstate[m] \in LoadStates
  BY <1>1, BeforeStep DEF AtCase, LoadStates
<1>3. PICK s \in LoadStates : s = mstate[m]
  BY <1>2
<1>4. PICK n \in 1 .. (Len(Cases[m]) + 1) : n = idx[m] + 1
  BY <1>2
<1>5. mstate' = [mstate EXCEPT ![m] = s] /\ idx' = [idx EXCEPT ![m] = n]
  BY <1>1, <1>3, <1>4, BeforeStep
<1>6. tpc[m] = "next" /\ (m = Self => s \in {"init", "driver", "live", "idle"})
      /\ (m = Self /\ s = "init" => mstate[Self] = "init")
      /\ (m # Self => mstate[Self] # "init")
  BY <1>2, <1>3, BeforeStep
<1>7. /\ TypeOK' /\ StagesInv' /\ idx' \in [Modules -> Nat] /\ mstate'[m] = s /\ idx'[m] = n
      /\ \A o \in Modules \ {m} : mstate'[o] = mstate[o] /\ idx'[o] = idx[o]
  BY <1>1, <1>5, <1>6, LoadMoves
<1>8. Demand <= MaxCases => m # Self /\ mstate[m] = "init"
  BY <1>1, <1>2, RoomLeft DEF FirstPass
<1>9. Demand <= MaxCases => \A i \in 1 .. Len(Cases[m]) : Expected(m, i)' => Expected(m, i)
  BY <1>8 DEF Expected
<1>10. idx'[m] >= idx[m]
  BY <1>2, <1>4, <1>7
<1> QED
  BY <1>1, <1>2, <1>3, <1>7, <1>9, <1>10, QuietStepInv

LEMMA SuitesDoneInv == ASSUME RegInv, NEW m \in Modules, SuitesDone(m), config' = config PROVE RegInv'
<1>1. /\ mstate[m] \in {"coming", "init"} /\ idx[m] = Len(Cases[m]) + 1
      /\ mstate' = [mstate EXCEPT ![m] = IF @ = "coming" THEN "init" ELSE "driver"]
      /\ idx' = [idx EXCEPT ![m] = 1] /\ entries' = entries /\ UNCHANGED testVars
  BY DEF SuitesDone
<1>2. PICK s \in LoadStates : s = IF mstate[m] = "coming" THEN "init" ELSE "driver"
  BY DEF LoadStates
<1>3. mstate' = [mstate EXCEPT ![m] = s]
  BY <1>1, <1>2, BeforeStep
<1>4. /\ tpc[m] = "next" /\ 1 \in 1 .. (Len(Cases[m]) + 1)
      /\ m = Self => mstate[m] = "init" /\ s = "driver"
      /\ m # Self => mstate[Self] # "init"
  BY <1>1, <1>2, BeforeStep
<1>5. /\ TypeOK' /\ StagesInv' /\ idx' \in [Modules -> Nat] /\ mstate'[m] = s /\ idx'[m] = 1
      /\ \A o \in Modules \ {m} : mstate'[o] = mstate[o] /\ idx'[o] = idx[o]
  BY <1>1, <1>3, <1>4, LoadMoves
<1>6. \A i \in 1 .. Len(Cases[m]) : Expected(m, i)
  BY <1>1, BeforeStep DEF Expected, FirstPass
<1> QED
  BY <1>1, <1>2, <1>4, <1>5, <1>6, QuietStepInv

\* The end of a load, and the start of an unload.
LEMMA LoadEndInv ==
    ASSUME RegInv, NEW m \in Modules, InitOk(m) \/ InitErr(m) \/ TestsDone(m) \/ Unload(m), config' = config
    PROVE  RegInv'
<1>1. /\ idx' = idx /\ entries' = entries /\ UNCHANGED testVars /\ tpc[m] = "next"
      /\ mstate[m] \in {"driver", "live", "idle"}
  BY BeforeStep DEF InitOk, InitErr, TestsDone, Unload
<1>2. PICK s \in {"live", "idle", "going"} :
        /\ mstate' = [mstate EXCEPT ![m] = s] /\ (s = "going" => m # Self)
        /\ s = "live" => mstate[m] = "driver"
  BY DEF InitOk, InitErr, TestsDone, Unload
<1>3. s \in LoadStates
  BY DEF LoadStates
<1>4. PICK n \in 1 .. (Len(Cases[m]) + 1) : n = idx[m]
  BY BeforeStep
<1>5. idx' = [idx EXCEPT ![m] = n]
  BY <1>1, <1>4, BeforeStep
<1>6. /\ m = Self => s \in {"init", "driver", "live", "idle"} /\ (s = "init" => mstate[Self] = "init")
      /\ m # Self => mstate[Self] # "init"
  BY <1>1, <1>2, BeforeStep
<1>7. /\ TypeOK' /\ StagesInv' /\ idx' \in [Modules -> Nat] /\ mstate'[m] = s /\ idx'[m] = n
      /\ \A o \in Modules \ {m} : mstate'[o] = mstate[o] /\ idx'[o] = idx[o]
  BY <1>1, <1>2, <1>3, <1>5, <1>6, LoadMoves
<1>8. \A i \in 1 .. Len(Cases[m]) : Expected(m, i)' => Expected(m, i)
  BY <1>2, <1>7 DEF Expected, FirstPass
<1> QED
  BY <1>1, <1>2, <1>7, <1>8, QuietStepInv

-----------------------------------------------------------------------------
(* Steps of a test: the registry is only read.                             *)

\* A lookup returns the function of an entry of that name, or none.
LEMMA LookupIs ==
    ASSUME RegInv, NEW name
    PROVE  /\ Lookup(name) \in Tests \cup {None}
           /\ Lookup(name) # None =>
                \E k \in DOMAIN entries : entries[k].name = name /\ Lookup(name) = entries[k].run_case
<1>1. CASE Matches(name) = {}
  BY <1>1 DEF Lookup
<1>2. CASE Matches(name) # {}
  <2>1. Matches(name) \in SUBSET Nat
    BY EntriesTyped DEF Matches
  <2>2. Min(Matches(name)) \in Matches(name)
    BY <1>2, <2>1, MinIs
  <2>3. PICK k \in DOMAIN entries : k = Min(Matches(name)) /\ entries[k].name = name
    BY <2>2 DEF Matches
  <2>4. Lookup(name) = entries[k].run_case
    BY <1>2, <2>3 DEF Lookup
  <2> QED
    BY <2>3, <2>4, EntriesTyped
<1> QED
  BY <1>1, <1>2

\* A test moves on and m stays live.
LEMMA TestMoves ==
    ASSUME RegInv, NEW m \in Modules, mstate[m] = "live", mstate' = mstate, config' = config, entries' = entries,
           NEW n \in 1 .. (Len(Cases[m]) + 1), idx' = [idx EXCEPT ![m] = n],
           NEW p \in {"next", "found", "running"}, tpc' = [tpc EXCEPT ![m] = p],
           p # "next" => n <= Len(Cases[m]),
           fn' \in [Modules -> Tests \cup {None}], current' \in Tests \cup {None},
           asserted' \subseteq Tests, failed' \subseteq Tests
    PROVE  RegInv'
<1>1. /\ mstate \in [Modules -> LoadStates] /\ idx \in [Modules -> Nat]
      /\ tpc \in [Modules -> {"next", "found", "running"}]
  BY DEF RegInv, TypeOK, LoadStates
<1>2. /\ idx'[m] = n /\ tpc'[m] = p /\ n \in Nat
      /\ \A o \in Modules \ {m} : idx'[o] = idx[o] /\ tpc'[o] = tpc[o]
  BY <1>1, CasesTyped
<1>3. idx' \in [Modules -> Nat] /\ tpc' \in [Modules -> {"next", "found", "running"}]
  BY <1>1, <1>2
<1>4. \A o \in Modules : idx'[o] \in 1 .. (Len(Cases[o]) + 1)
  BY <1>2 DEF RegInv, TypeOK
<1>5. TypeOK'
  BY <1>3, <1>4 DEF RegInv, TypeOK, MaxCases
<1>6. StagesInv'
  BY <1>2 DEF RegInv, StagesInv
<1>7. \A i \in 1 .. Len(Cases[m]) : Expected(m, i)' => Expected(m, i)
  BY DEF Expected
<1> QED
  BY <1>2, <1>3, <1>5, <1>6, <1>7, QuietStepInv

\* Running tests leaves the registry alone.
LEMMA RunCaseInv ==
    ASSUME RegInv, NEW m \in Modules, config' = config,
           \/ RunCaseFind(m) \/ RunCaseMissing(m) \/ RunCaseCall(m) \/ RunCaseReturn(m)
           \/ AssertFails(m) \/ AssertUnreported(m)
    PROVE  RegInv'
<1>1. /\ mstate[m] = "live" /\ idx[m] <= Len(Cases[m]) /\ mstate' = mstate /\ entries' = entries
  BY DEF RegInv, StagesInv, RunCaseFind, RunCaseMissing, RunCaseCall, RunCaseReturn,
         AssertFails, AssertUnreported, Due, testVars
<1>2. /\ idx[m] \in Nat /\ idx[m] \in 1 .. (Len(Cases[m]) + 1) /\ idx[m] + 1 \in 1 .. (Len(Cases[m]) + 1)
      /\ <<m, idx[m]>> \in Tests
  BY <1>1, BeforeStep, TestsAre
<1>3. PICK n0 \in 1 .. (Len(Cases[m]) + 1), n1 \in 1 .. (Len(Cases[m]) + 1) : n0 = idx[m] /\ n1 = idx[m] + 1
  BY <1>2
<1>4. /\ fn \in [Modules -> Tests \cup {None}] /\ current \in Tests \cup {None}
      /\ asserted \subseteq Tests /\ failed \subseteq Tests
      /\ tpc \in [Modules -> {"next", "found", "running"}]
  BY DEF RegInv, TypeOK
<1>5. idx = [idx EXCEPT ![m] = n0] /\ tpc = [tpc EXCEPT ![m] = tpc[m]]
  BY <1>3, <1>4, BeforeStep
<1>6. CASE RunCaseFind(m)
  <2>1. /\ fn' = [fn EXCEPT ![m] = Lookup(Cases[m][idx[m]])] /\ tpc' = [tpc EXCEPT ![m] = "found"]
        /\ UNCHANGED <<idx, current, asserted, failed>>
    BY <1>6 DEF RunCaseFind
  <2>2. PICK t \in Tests \cup {None} : t = Lookup(Cases[m][idx[m]])
    BY LookupIs
  <2>3. fn' \in [Modules -> Tests \cup {None}]
    BY <1>4, <2>1, <2>2
  <2> QED
    BY <1>1, <1>3, <1>4, <1>5, <2>1, <2>3, TestMoves
<1>7. CASE RunCaseMissing(m)
  <2>1. idx' = [idx EXCEPT ![m] = @ + 1] /\ UNCHANGED testVars /\ tpc[m] = "next"
    BY <1>7 DEF RunCaseMissing, Due
  <2>2. idx' = [idx EXCEPT ![m] = n1] /\ UNCHANGED <<tpc, fn, current, asserted, failed>>
    BY <1>3, <2>1 DEF testVars
  <2>3. tpc' = [tpc EXCEPT ![m] = "next"]
    BY <1>5, <2>1, <2>2
  <2> QED
    BY <1>1, <1>4, <2>2, <2>3, TestMoves
<1>8. CASE RunCaseCall(m)
  <2>1. /\ current' = <<m, idx[m]>> /\ tpc' = [tpc EXCEPT ![m] = "running"]
        /\ UNCHANGED <<idx, fn, asserted, failed>>
    BY <1>8 DEF RunCaseCall
  <2> QED
    BY <1>1, <1>2, <1>3, <1>4, <1>5, <2>1, TestMoves
<1>9. CASE RunCaseReturn(m)
  <2>1. /\ current' = None /\ tpc' = [tpc EXCEPT ![m] = "next"] /\ fn' = [fn EXCEPT ![m] = None]
        /\ idx' = [idx EXCEPT ![m] = n1] /\ UNCHANGED <<asserted, failed>>
    BY <1>3, <1>9 DEF RunCaseReturn
  <2>2. fn' \in [Modules -> Tests \cup {None}]
    BY <1>4, <2>1
  <2> QED
    BY <1>1, <1>4, <2>1, <2>2, TestMoves
<1>10. CASE AssertFails(m)
  <2>1. /\ current # None /\ asserted' = asserted \cup {<<m, idx[m]>>} /\ failed' = failed \cup {current}
        /\ tpc' = [tpc EXCEPT ![m] = "next"] /\ fn' = [fn EXCEPT ![m] = None]
        /\ idx' = [idx EXCEPT ![m] = n1] /\ UNCHANGED current
    BY <1>3, <1>10 DEF AssertFails, CurrentTest
  <2>2. fn' \in [Modules -> Tests \cup {None}] /\ asserted' \subseteq Tests /\ failed' \subseteq Tests
    BY <1>2, <1>4, <2>1
  <2> QED
    BY <1>1, <1>4, <2>1, <2>2, TestMoves
<1>11. CASE AssertUnreported(m)
  <2>1. /\ asserted' = asserted \cup {<<m, idx[m]>>} /\ UNCHANGED <<idx, tpc, fn, current, failed>>
        /\ tpc[m] = "running"
    BY <1>11 DEF AssertUnreported
  <2>2. tpc' = [tpc EXCEPT ![m] = "running"] /\ idx' = [idx EXCEPT ![m] = n0] /\ n0 <= Len(Cases[m])
    BY <1>1, <1>3, <1>5, <2>1
  <2>3. asserted' \subseteq Tests
    BY <1>2, <1>4, <2>1
  <2> QED
    BY <1>1, <1>4, <2>1, <2>2, <2>3, TestMoves
<1> QED
  BY <1>6, <1>7, <1>8, <1>9, <1>10, <1>11

-----------------------------------------------------------------------------
(* A case is registered.                                                   *)

LEMMA RegisterCaseInv == ASSUME RegInv, NEW m \in Modules, RegisterCase(m), config' = config PROVE RegInv'
<1> DEFINE e == [owner |-> m, name |-> Cases[m][idx[m]], run_case |-> <<m, idx[m]>>]
<1>1. /\ AtCase(m) /\ ~RegistryFull /\ entries' = Append(entries, e)
      /\ idx' = [idx EXCEPT ![m] = @ + 1] /\ mstate' = mstate /\ UNCHANGED testVars
  BY DEF RegisterCase
<1>2. /\ mstate[m] \in {"coming", "init"} /\ idx[m] <= Len(Cases[m]) /\ idx[m] \in Nat /\ idx[m] >= 1
      /\ Len(Cases[m]) \in Nat
  BY <1>1, BeforeStep DEF AtCase
<1>3. PICK i0 \in Nat : i0 = idx[m]
  BY <1>2
<1>4. e \in Entry /\ e.owner = m /\ e.run_case = <<m, i0>> /\ e.run_case[2] = i0
      /\ e.run_case[1] = m /\ e.name = Cases[m][i0]
  BY <1>2, <1>3, TestsAre, CasesTyped DEF Entry
<1>5. /\ idx \in [Modules -> Nat] /\ idx' \in [Modules -> Nat] /\ idx'[m] = i0 + 1
      /\ \A o \in Modules \ {m} : idx'[o] = idx[o]
  BY <1>1, <1>3, BeforeStep
<1> HIDE DEF e
<1>6. PICK n \in Nat : n = Len(entries)
  BY EntriesTyped
<1>7. DOMAIN entries = 1 .. n /\ entries \in Seq(Entry)
  BY <1>6, EntriesTyped DEF RegInv, TypeOK
<1>8. /\ entries' \in Seq(Entry) /\ Len(entries') = n + 1 /\ DOMAIN entries' = 1 .. n + 1
      /\ \A k \in 1 .. n : entries'[k] = entries[k]
      /\ entries'[n + 1] = e
  BY <1>1, <1>4, <1>6, <1>7
<1>9. TypeOK'
  <2>1. n + 1 <= MaxCases /\ MaxCases' = MaxCases
    BY <1>1, <1>6, ConfigTyped DEF RegistryFull, RegInv, TypeOK, MaxCases
  <2>2. UNCHANGED <<mstate, tpc, fn, current, asserted, failed>>
    BY <1>1 DEF testVars
  <2>3. \A o \in Modules : idx'[o] \in 1 .. (Len(Cases[o]) + 1)
    <3>1. i0 + 1 \in 1 .. (Len(Cases[m]) + 1)
      BY <1>2, <1>3
    <3>2. \A o \in Modules : idx[o] \in 1 .. (Len(Cases[o]) + 1)
      BY DEF RegInv, TypeOK
    <3> QED
      BY <1>5, <3>1, <3>2
  <2> QED
    BY <1>8, <2>1, <2>2, <2>3 DEF RegInv, TypeOK
<1>10. StagesInv'
  <2>1. tpc' = tpc /\ mstate' = mstate /\ mstate[m] # "live"
    BY <1>1, <1>2 DEF testVars
  <2> QED
    BY <1>5, <2>1 DEF RegInv, StagesInv
<1>11. EntriesInv'
  <2> SUFFICES ASSUME NEW k \in 1 .. n + 1
               PROVE  /\ entries'[k].run_case[1] = entries'[k].owner
                      /\ entries'[k].name = Cases[entries'[k].owner][entries'[k].run_case[2]]
                      /\ mstate[entries'[k].owner] # "unloaded"
    BY <1>1, <1>8 DEF EntriesInv
  <2>1. CASE k \in 1 .. n
    BY <1>7, <1>8, <2>1 DEF RegInv, EntriesInv
  <2>2. CASE k = n + 1
    BY <1>2, <1>4, <1>8, <2>2
  <2> QED
    BY <2>1, <2>2
<1>12. \A j, k \in 1 .. n : SameTest(j, k)' <=> SameTest(j, k)
  BY <1>8 DEF SameTest
\* Entries of the test before: none at the first pass, at most one at the second.
<1>13. ASSUME NEW k \in 1 .. n, entries[k].run_case = <<m, i0>>
       PROVE  /\ m # Self /\ mstate[m] = "init"
              /\ \A j \in 1 .. n : ~SameTest(j, k)
  <2>1. entries[k].owner = m /\ entries[k].run_case[2] = i0
    BY <1>7, <1>13, EntriesTyped
  <2>2. ~FirstPass(m)
    BY <1>3, <1>7, <2>1 DEF RegInv, TwiceInv
  <2>3. m # Self /\ mstate[m] = "init"
    BY <1>2, <2>2, BeforeStep DEF FirstPass
  <2>4. ~(i0 < idx[m]) /\ i0 >= idx[m]
    BY <1>3
  <2>5. \A j \in 1 .. n : mstate[m] = "init" /\ i0 >= idx[m] => ~SameTest(j, k)
    BY <1>7, <2>1 DEF RegInv, TwiceInv
  <2> QED
    BY <2>3, <2>4, <2>5
<1>14. TwiceInv'
  <2>1. ASSUME NEW i \in 1 .. n + 1, NEW j \in 1 .. n + 1, NEW k \in 1 .. n + 1,
               SameTest(i, j)', SameTest(j, k)', SameTest(i, k)'
        PROVE  FALSE
    <3>1. /\ i # j /\ j # k /\ i # k /\ entries'[i].run_case = entries'[j].run_case
          /\ entries'[j].run_case = entries'[k].run_case
      BY <2>1 DEF SameTest
    <3>2. CASE i \in 1 .. n /\ j \in 1 .. n /\ k \in 1 .. n
      BY <1>7, <1>12, <2>1, <3>2 DEF RegInv, TwiceInv
    <3>3. CASE i = n + 1
      <4>1. j \in 1 .. n /\ k \in 1 .. n
        BY <3>1, <3>3
      <4>2. entries[k].run_case = <<m, i0>> /\ SameTest(j, k)
        BY <1>4, <1>8, <1>12, <2>1, <3>1, <3>3, <4>1
      <4> QED
        BY <1>13, <4>1, <4>2
    <3>4. CASE j = n + 1
      <4>1. i \in 1 .. n /\ k \in 1 .. n
        BY <3>1, <3>4
      <4>2. entries[k].run_case = <<m, i0>> /\ SameTest(i, k)
        BY <1>4, <1>8, <1>12, <2>1, <3>1, <3>4, <4>1
      <4> QED
        BY <1>13, <4>1, <4>2
    <3>5. CASE k = n + 1
      <4>1. i \in 1 .. n /\ j \in 1 .. n
        BY <3>1, <3>5
      <4>2. entries[j].run_case = <<m, i0>> /\ SameTest(i, j)
        BY <1>4, <1>8, <1>12, <2>1, <3>1, <3>5, <4>1
      <4> QED
        BY <1>13, <4>1, <4>2
    <3> QED
      BY <3>2, <3>3, <3>4, <3>5
  <2>2. ASSUME NEW j \in 1 .. n + 1, NEW k \in 1 .. n + 1, NEW o, o = entries'[k].owner
        PROVE  /\ o = Self \/ mstate[o] = "coming" => ~SameTest(j, k)'
               /\ FirstPass(o) => entries'[k].run_case[2] < idx'[o]
               /\ mstate[o] = "init" /\ entries'[k].run_case[2] >= idx'[o] => ~SameTest(j, k)'
    <3>1. CASE k = n + 1
      <4>1. o = m /\ entries'[k].run_case = <<m, i0>> /\ entries'[k].run_case[2] = i0
        BY <1>4, <1>8, <2>2, <3>1
      <4>2. o = Self \/ mstate[o] = "coming" => ~SameTest(j, k)'
        <5>1. ASSUME SameTest(j, k)' PROVE m # Self /\ mstate[m] = "init"
          <6>1. j \in 1 .. n /\ entries[j].run_case = <<m, i0>>
            BY <1>8, <3>1, <4>1, <5>1 DEF SameTest
          <6> QED
            BY <1>13, <6>1
        <5> QED
          BY <4>1, <5>1
      <4>3. i0 < i0 + 1 /\ ~(i0 >= i0 + 1)
        OBVIOUS
      <4> QED
        BY <1>5, <4>1, <4>2, <4>3
    <3>2. CASE k \in 1 .. n
      <4>1. entries'[k] = entries[k] /\ o = entries[k].owner /\ entries[k].run_case[2] \in Nat
            /\ o \in Modules /\ entries[k].run_case = <<o, entries[k].run_case[2]>>
        BY <1>7, <1>8, <2>2, <3>2, EntriesTyped
      <4>2. idx'[o] \in Nat /\ idx[o] \in Nat /\ idx'[o] >= idx[o] /\ (o = m => idx'[o] = idx[o] + 1)
        BY <1>3, <1>5, <4>1
      <4>3. \A i \in 1 .. n : /\ o = Self \/ mstate[o] = "coming" => ~SameTest(i, k)
                              /\ FirstPass(o) => entries[k].run_case[2] < idx[o]
                              /\ mstate[o] = "init" /\ entries[k].run_case[2] >= idx[o] => ~SameTest(i, k)
        BY <1>7, <3>2, <4>1 DEF RegInv, TwiceInv
      <4>4. FirstPass(o) => entries[k].run_case[2] < idx'[o]
        BY <3>2, <4>1, <4>2, <4>3
      <4>5. CASE j \in 1 .. n
        BY <1>12, <3>2, <4>1, <4>2, <4>3, <4>4, <4>5
      <4>6. CASE j = n + 1
        <5>1. ASSUME SameTest(j, k)'
              PROVE  o # Self /\ mstate[o] = "init" /\ entries[k].run_case[2] < idx'[o]
          <6>1. entries[k].run_case = <<m, i0>>
            BY <1>4, <1>8, <4>1, <4>6, <5>1 DEF SameTest
          <6>2. o = m /\ entries[k].run_case[2] = i0
            BY <4>1, <6>1
          <6> QED
            BY <1>5, <1>13, <3>2, <6>1, <6>2
        <5>2. idx'[o] \in Nat /\ entries[k].run_case[2] \in Nat
          BY <4>1, <4>2
        <5> QED
          BY <4>1, <4>4, <5>1, <5>2
      <4> QED
        BY <4>5, <4>6
    <3> QED
      BY <3>1, <3>2
  <2>3. \A o : FirstPass(o)' <=> FirstPass(o)
    BY <1>1 DEF FirstPass
  <2> QED
    BY <1>1, <1>8, <2>1, <2>2, <2>3 DEF TwiceInv
<1>15. RegisteredInv'
  <2> SUFFICES ASSUME Demand <= MaxCases, NEW o \in Modules, NEW i \in 1 .. Len(Cases[o]), Expected(o, i)'
               PROVE  \E k \in 1 .. n + 1 : entries'[k].run_case = <<o, i>>
    BY <1>8 DEF RegisteredInv, MaxCases
  <2>1. CASE o = m /\ i = i0
    BY <1>4, <1>8, <2>1
  <2>2. CASE ~(o = m /\ i = i0)
    <3>1. Expected(o, i)
      <4>1. i \in Nat
        BY CasesTyped
      <4>2. o = m => (i < i0 + 1 => i < i0)
        BY <2>2, <4>1
      <4> QED
        BY <1>1, <1>3, <1>5, <4>1, <4>2 DEF Expected, FirstPass
    <3>2. PICK k \in DOMAIN entries : entries[k].run_case = <<o, i>>
      BY <3>1 DEF RegInv, RegisteredInv
    <3> QED
      BY <1>7, <1>8, <3>2
  <2> QED
    BY <2>1, <2>2
<1> QED
  BY <1>5, <1>9, <1>10, <1>11, <1>14, <1>15 DEF RegInv

-----------------------------------------------------------------------------
(* The entries of a module are taken out.                                  *)

LEMMA UnregisterModuleInv == ASSUME RegInv, NEW m \in Modules, UnregisterModule(m), config' = config PROVE RegInv'
<1>1. /\ mstate[m] = "going" /\ mstate' = [mstate EXCEPT ![m] = "unloaded"]
      /\ entries' = [j \in 1 .. Cardinality(Kept(m)) |-> entries[Nth(Kept(m), j)]]
      /\ idx' = idx /\ UNCHANGED testVars
  BY DEF UnregisterModule
<1>2. m # Self /\ tpc[m] = "next" /\ mstate[Self] # "init"
  BY <1>1, BeforeStep
<1>3. PICK n \in Nat : n = Len(entries)
  BY EntriesTyped
<1>4. DOMAIN entries = 1 .. n /\ entries \in Seq(Entry)
  BY <1>3, EntriesTyped DEF RegInv, TypeOK
<1>5. PICK kept \in SUBSET (1 .. n) : kept = {i \in 1 .. n : entries[i].owner # m}
  OBVIOUS
<1>6. Kept(m) = kept
  BY <1>4, <1>5 DEF Kept
<1>7. PICK c \in Nat : c = Cardinality(kept)
  BY RankIs
<1> DEFINE at(j) == Nth(kept, j)
<1>8. \A j \in 1 .. c : at(j) \in kept /\ Rank(kept, at(j)) = j
  BY <1>7, NthIs
<1>9. \A j, k \in 1 .. c : j # k => at(j) # at(k)
  BY <1>8
<1>10. \A i \in kept : \E j \in 1 .. c : at(j) = i
  BY <1>7, NthSurjective
<1>11. c <= n
  <2>1. IsFiniteSet(1 .. n) /\ Cardinality(1 .. n) = n
    BY FS_Interval
  <2> QED
    BY <1>7, <2>1, FS_Subset
<1> HIDE DEF at
<1>12. entries' = [j \in 1 .. c |-> entries[at(j)]]
  BY <1>1, <1>6, <1>7 DEF at
<1>13. \A j \in 1 .. c : /\ entries'[j] = entries[at(j)] /\ at(j) \in 1 .. n
                         /\ entries[at(j)].owner # m /\ entries[at(j)] \in Entry
  <2> SUFFICES ASSUME NEW j \in 1 .. c
               PROVE  /\ entries'[j] = entries[at(j)] /\ at(j) \in 1 .. n
                      /\ entries[at(j)].owner # m /\ entries[at(j)] \in Entry
    OBVIOUS
  <2>1. entries'[j] = entries[at(j)]
    BY <1>12
  <2>2. PICK i \in kept : i = at(j)
    BY <1>8
  <2>3. i \in 1 .. n /\ entries[i].owner # m
    BY <1>5
  <2>4. entries[i] \in Entry
    BY <1>4, <2>3, EntriesTyped
  <2> QED
    BY <2>1, <2>2, <2>3, <2>4
<1>14. entries' \in Seq(Entry) /\ Len(entries') = c /\ DOMAIN entries' = 1 .. c
  BY <1>12, <1>13
<1>15. /\ mstate \in [Modules -> LoadStates] /\ mstate'[m] = "unloaded"
       /\ mstate' \in [Modules -> LoadStates]
       /\ \A o \in Modules \ {m} : mstate'[o] = mstate[o]
  BY <1>1, BeforeStep DEF LoadStates
<1>16. UNCHANGED <<tpc, fn, current, asserted, failed>>
  BY <1>1 DEF testVars
<1>17. TypeOK' /\ idx' \in [Modules -> Nat]
  <2>1. n <= MaxCases /\ MaxCases' = MaxCases /\ MaxCases \in Nat
    BY <1>3, ConfigTyped DEF RegInv, TypeOK, MaxCases
  <2>2. c <= MaxCases
    BY <1>11, <2>1
  <2> QED
    BY <1>1, <1>14, <1>15, <1>16, <2>1, <2>2 DEF RegInv, TypeOK, LoadStates
<1>18. StagesInv'
  BY <1>1, <1>2, <1>15, <1>16, ModulesAssumption DEF RegInv, StagesInv, Lkms
<1>19. \A j \in 1 .. c : entries'[j].owner \in Modules \ {m} /\ mstate'[entries'[j].owner] = mstate[entries'[j].owner]
  BY <1>4, <1>13, <1>15, EntriesTyped
<1>20. EntriesInv'
  <2> SUFFICES ASSUME NEW j \in 1 .. c
               PROVE  /\ entries'[j].run_case[1] = entries'[j].owner
                      /\ entries'[j].name = Cases[entries'[j].owner][entries'[j].run_case[2]]
                      /\ mstate'[entries'[j].owner] # "unloaded"
    BY <1>14 DEF EntriesInv
  <2>1. PICK i \in 1 .. n : i = at(j) /\ entries'[j] = entries[i]
    BY <1>13
  <2>2. /\ entries[i].run_case[1] = entries[i].owner
        /\ entries[i].name = Cases[entries[i].owner][entries[i].run_case[2]]
        /\ mstate[entries[i].owner] # "unloaded"
    BY <1>4 DEF RegInv, EntriesInv
  <2> QED
    BY <1>19, <2>1, <2>2
<1>21. \A j, k \in 1 .. c : SameTest(j, k)' => SameTest(at(j), at(k))
  BY <1>9, <1>13 DEF SameTest
<1>22. TwiceInv'
  <2>1. ASSUME NEW i \in 1 .. c, NEW j \in 1 .. c, NEW k \in 1 .. c,
               SameTest(i, j)', SameTest(j, k)', SameTest(i, k)'
        PROVE  FALSE
    <3>1. SameTest(at(i), at(j)) /\ SameTest(at(j), at(k)) /\ SameTest(at(i), at(k))
      BY <1>21, <2>1
    <3> QED
      BY <1>4, <1>13, <3>1 DEF RegInv, TwiceInv
  <2>2. ASSUME NEW j \in 1 .. c, NEW k \in 1 .. c, NEW o, o = entries'[k].owner
        PROVE  /\ o = Self \/ mstate'[o] = "coming" => ~SameTest(j, k)'
               /\ FirstPass(o)' => entries'[k].run_case[2] < idx'[o]
               /\ mstate'[o] = "init" /\ entries'[k].run_case[2] >= idx'[o] => ~SameTest(j, k)'
    <3>1. o = entries[at(k)].owner /\ mstate'[o] = mstate[o] /\ entries'[k] = entries[at(k)]
      BY <1>13, <1>19, <2>2
    <3>2. /\ o = Self \/ mstate[o] = "coming" => ~SameTest(at(j), at(k))
          /\ FirstPass(o) => entries[at(k)].run_case[2] < idx[o]
          /\ mstate[o] = "init" /\ entries[at(k)].run_case[2] >= idx[o] => ~SameTest(at(j), at(k))
      BY <1>4, <1>13, <3>1 DEF RegInv, TwiceInv
    <3>3. FirstPass(o)' <=> FirstPass(o)
      BY <3>1 DEF FirstPass
    <3> QED
      BY <1>1, <1>21, <3>1, <3>2, <3>3
  <2> QED
    BY <1>14, <2>1, <2>2 DEF TwiceInv
<1>23. RegisteredInv'
  <2> SUFFICES ASSUME Demand <= MaxCases, NEW o \in Modules, NEW i \in 1 .. Len(Cases[o]), Expected(o, i)'
               PROVE  \E k \in 1 .. c : entries'[k].run_case = <<o, i>>
    BY <1>14 DEF RegisteredInv, MaxCases
  <2>1. o # m
    BY <1>2, <1>15 DEF Expected, FirstPass
  <2>2. Expected(o, i)
    BY <1>1, <1>15, <2>1 DEF Expected, FirstPass
  <2>3. PICK k \in DOMAIN entries : entries[k].run_case = <<o, i>>
    BY <2>2 DEF RegInv, RegisteredInv
  <2>4. entries[k].owner = o
    BY <2>3, EntriesTyped
  <2>5. k \in kept
    BY <1>4, <1>5, <2>1, <2>4
  <2>6. PICK j \in 1 .. c : at(j) = k
    BY <1>10, <2>5
  <2> QED
    BY <1>13, <2>3, <2>6
<1> QED
  BY <1>17, <1>18, <1>20, <1>22, <1>23 DEF RegInv

LEMMA RegInvNext == ASSUME RegInv, [Next]_vars PROVE RegInv'
<1>1. CASE Next
  <2>1. PICK m \in Modules :
          \/ Coming(m) \/ RegisterCase(m) \/ DropCase(m) \/ SuitesDone(m)
          \/ InitOk(m) \/ InitErr(m) \/ TestsDone(m) \/ Unload(m)
          \/ UnregisterModule(m)
          \/ RunCaseFind(m) \/ RunCaseMissing(m) \/ RunCaseCall(m)
          \/ RunCaseReturn(m) \/ AssertFails(m) \/ AssertUnreported(m)
    BY <1>1 DEF Next
  <2>2. config' = config
    BY <1>1 DEF Next
  <2> QED
    BY <2>1, <2>2, ComingInv, RegisterCaseInv, DropCaseInv, SuitesDoneInv, LoadEndInv, UnregisterModuleInv, RunCaseInv
<1>2. CASE UNCHANGED vars
  <2>1. UNCHANGED <<config, mstate, idx, entries, tpc, fn, current, asserted, failed>>
    BY <1>2 DEF vars
  <2>2. TypeOK' /\ StagesInv' /\ EntriesInv' /\ idx' \in [Modules -> Nat]
    BY <2>1 DEF RegInv, TypeOK, StagesInv, EntriesInv, MaxCases
  <2>3. \A m \in Modules : \A i \in 1 .. Len(Cases[m]) : Expected(m, i)' => Expected(m, i)
    BY <2>1 DEF Expected, FirstPass
  <2> QED
    BY <2>1, <2>2, <2>3, ModulesAssumption, BeforeStep, QuietStepInv
<1> QED
  BY <1>1, <1>2

-----------------------------------------------------------------------------
(* What a test runs and where its failure goes.                            *)

\* The dispatcher finds a test by its name: they must differ.
DistinctNames == \A s, t \in Tests : Cases[s[1]][s[2]] = Cases[t[1]][t[2]] => s = t

RunsInv ==
    /\ \A m \in Modules : tpc[m] # "next" => fn[m] = <<m, idx[m]>>
    /\ Serial => /\ \A m, o \in Modules : tpc[m] # "next" /\ tpc[o] # "next" => m = o
                 /\ \A m \in Modules : tpc[m] = "running" => current = <<m, idx[m]>>
                 /\ failed = asserted

LEMMA RunsInvInit == Init => RunsInv
BY DEF Init, RunsInv

\* The load or unload of m.
LEMMA RunsInvQuiet ==
    ASSUME RegInv, RunsInv, NEW m \in Modules, tpc[m] = "next", UNCHANGED testVars, config' = config,
           \A o \in Modules \ {m} : idx'[o] = idx[o]
    PROVE  RunsInv'
<1>1. UNCHANGED <<tpc, fn, current, asserted, failed, config>>
  BY DEF testVars
<1> QED
  BY <1>1 DEF RunsInv, Serial

\* With names of their own, the first match is the test itself.
LEMMA LookupOwn ==
    ASSUME RegInv, DistinctNames, NEW m \in Modules, idx[m] \in 1 .. Len(Cases[m]),
           Lookup(Cases[m][idx[m]]) # None
    PROVE  Lookup(Cases[m][idx[m]]) = <<m, idx[m]>>
<1>1. PICK i \in 1 .. Len(Cases[m]) : i = idx[m]
  OBVIOUS
<1>2. PICK k \in DOMAIN entries : entries[k].name = Cases[m][i] /\ Lookup(Cases[m][i]) = entries[k].run_case
  BY <1>1, LookupIs
<1>3. PICK s \in Tests : s = entries[k].run_case
  BY EntriesTyped
<1>4. Cases[s[1]][s[2]] = Cases[m][i]
  BY <1>2, <1>3 DEF RegInv, EntriesInv
<1>5. PICK t \in Tests : t = <<m, i>>
  BY TestsAre
<1>6. Cases[t[1]][t[2]] = Cases[m][i]
  BY <1>5
<1>7. s = t
  BY <1>4, <1>6 DEF DistinctNames
<1> QED
  BY <1>1, <1>2, <1>3, <1>5, <1>7

LEMMA RunsInvNext ==
    ASSUME DistinctNames, RegInv, RunsInv, [Next]_vars
    PROVE  RunsInv'
<1>1. CASE UNCHANGED vars
  BY <1>1 DEF vars, RunsInv, Serial
<1>2. ASSUME NEW m \in Modules, config' = config,
             \/ Coming(m) \/ RegisterCase(m) \/ DropCase(m) \/ SuitesDone(m)
             \/ InitOk(m) \/ InitErr(m) \/ TestsDone(m) \/ Unload(m)
             \/ UnregisterModule(m) \/ RunCaseMissing(m)
      PROVE  RunsInv'
  <2>1. tpc[m] = "next" /\ UNCHANGED testVars
    <3>1. UNCHANGED testVars
      BY <1>2 DEF Coming, RegisterCase, DropCase, SuitesDone, InitOk, InitErr, TestsDone, Unload,
                  UnregisterModule, RunCaseMissing
    <3>2. mstate[m] # "live" \/ tpc[m] = "next"
      BY <1>2 DEF Coming, RegisterCase, DropCase, SuitesDone, InitOk, InitErr, TestsDone, Unload,
                  UnregisterModule, RunCaseMissing, AtCase, Due
    <3> QED
      BY <3>1, <3>2, BeforeStep
  <2>2. \A o \in Modules \ {m} : idx'[o] = idx[o]
    BY <1>2, BeforeStep DEF Coming, RegisterCase, DropCase, SuitesDone, InitOk, InitErr, TestsDone, Unload,
                UnregisterModule, RunCaseMissing
  <2> QED
    BY <1>2, <2>1, <2>2, RunsInvQuiet
<1>3. ASSUME NEW m \in Modules, config' = config, RunCaseFind(m) PROVE RunsInv'
  <2>1. /\ tpc[m] = "next" /\ idx[m] <= Len(Cases[m]) /\ (Serial => \A o \in Modules : tpc[o] = "next")
        /\ Lookup(Cases[m][idx[m]]) # None
        /\ fn' = [fn EXCEPT ![m] = Lookup(Cases[m][idx[m]])] /\ tpc' = [tpc EXCEPT ![m] = "found"]
        /\ UNCHANGED <<idx, current, asserted, failed>>
    BY <1>3 DEF RunCaseFind, Due
  <2>2. Lookup(Cases[m][idx[m]]) = <<m, idx[m]>>
    BY <2>1, BeforeStep, LookupOwn
  <2>3. fn \in [Modules -> Tests \cup {None}] /\ tpc \in [Modules -> {"next", "found", "running"}]
    BY DEF RegInv, TypeOK
  <2>4. /\ fn'[m] = <<m, idx[m]>> /\ tpc'[m] = "found"
        /\ \A o \in Modules \ {m} : fn'[o] = fn[o] /\ tpc'[o] = tpc[o]
    BY <2>1, <2>2, <2>3
  <2>5. \A o \in Modules : tpc'[o] # "next" => fn'[o] = <<o, idx'[o]>>
    BY <2>1, <2>4 DEF RunsInv
  <2>6. Serial => /\ \A q, o \in Modules : tpc'[q] # "next" /\ tpc'[o] # "next" => q = o
                  /\ \A q \in Modules : tpc'[q] = "running" => current' = <<q, idx'[q]>>
                  /\ failed' = asserted'
    BY <2>1, <2>4 DEF RunsInv
  <2> QED
    BY <1>3, <2>5, <2>6 DEF RunsInv, Serial
<1>4. ASSUME NEW m \in Modules, config' = config, RunCaseCall(m) PROVE RunsInv'
  <2>1. /\ tpc[m] = "found" /\ current' = <<m, idx[m]>> /\ tpc' = [tpc EXCEPT ![m] = "running"]
        /\ UNCHANGED <<idx, fn, asserted, failed>>
    BY <1>4 DEF RunCaseCall
  <2>2. tpc'[m] = "running" /\ \A o \in Modules \ {m} : tpc'[o] = tpc[o]
    BY <2>1 DEF RegInv, TypeOK
  <2>3. \A o \in Modules : tpc'[o] # "next" => fn'[o] = <<o, idx'[o]>>
    BY <2>1, <2>2 DEF RunsInv
  <2>4. Serial => /\ \A q, o \in Modules : tpc'[q] # "next" /\ tpc'[o] # "next" => q = o
                  /\ \A q \in Modules : tpc'[q] = "running" => current' = <<q, idx'[q]>>
                  /\ failed' = asserted'
    BY <2>1, <2>2 DEF RunsInv
  <2> QED
    BY <1>4, <2>3, <2>4 DEF RunsInv, Serial
<1>5. ASSUME NEW m \in Modules, config' = config, RunCaseReturn(m) \/ AssertFails(m) PROVE RunsInv'
  <2>1. /\ tpc[m] = "running" /\ tpc' = [tpc EXCEPT ![m] = "next"] /\ fn' = [fn EXCEPT ![m] = None]
        /\ idx' = [idx EXCEPT ![m] = @ + 1]
        /\ \/ failed' = failed /\ asserted' = asserted
           \/ failed' = failed \cup {current} /\ asserted' = asserted \cup {<<m, idx[m]>>}
    BY <1>5 DEF RunCaseReturn, AssertFails, CurrentTest
  <2>2. /\ fn \in [Modules -> Tests \cup {None}] /\ tpc \in [Modules -> {"next", "found", "running"}]
        /\ idx \in [Modules -> Nat]
    BY DEF RegInv, TypeOK
  <2>3. tpc'[m] = "next" /\ \A o \in Modules \ {m} : tpc'[o] = tpc[o] /\ fn'[o] = fn[o] /\ idx'[o] = idx[o]
    BY <2>1, <2>2
  <2>4. \A o \in Modules : tpc'[o] # "next" => fn'[o] = <<o, idx'[o]>>
    BY <2>3 DEF RunsInv
  <2>5. ASSUME Serial
        PROVE  /\ \A q \in Modules : tpc'[q] = "next"
               /\ failed' = asserted'
    <3>1. \A q \in Modules \ {m} : tpc[q] = "next"
      BY <2>1, <2>5 DEF RunsInv
    <3>2. current = <<m, idx[m]>> /\ failed = asserted
      BY <2>1, <2>5 DEF RunsInv
    <3> QED
      BY <2>1, <2>3, <3>1, <3>2
  <2> QED
    BY <1>5, <2>4, <2>5 DEF RunsInv, Serial
<1>6. ASSUME NEW m \in Modules, config' = config, AssertUnreported(m) PROVE RunsInv'
  <2>1. tpc[m] = "running" /\ current = None /\ UNCHANGED <<idx, tpc, fn, current, failed>>
    BY <1>6 DEF AssertUnreported, CurrentTest
  <2>2. <<m, idx[m]>> # None
    <3>1. idx[m] <= Len(Cases[m])
      BY <2>1 DEF RegInv, StagesInv
    <3>2. <<m, idx[m]>> \in Tests
      BY <3>1, BeforeStep, TestsAre
    <3> QED
      BY <3>2, NoneAssumption
  <2>3. ~Serial
    BY <2>1, <2>2 DEF RunsInv
  <2> QED
    BY <1>6, <2>1, <2>3 DEF RunsInv, Serial
<1>7. CASE Next
  <2>1. PICK m \in Modules :
          \/ Coming(m) \/ RegisterCase(m) \/ DropCase(m) \/ SuitesDone(m)
          \/ InitOk(m) \/ InitErr(m) \/ TestsDone(m) \/ Unload(m)
          \/ UnregisterModule(m)
          \/ RunCaseFind(m) \/ RunCaseMissing(m) \/ RunCaseCall(m)
          \/ RunCaseReturn(m) \/ AssertFails(m) \/ AssertUnreported(m)
    BY <1>7 DEF Next
  <2>2. config' = config
    BY <1>7 DEF Next
  <2> QED
    BY <1>2, <1>3, <1>4, <1>5, <1>6, <2>1, <2>2
<1> QED
  BY <1>1, <1>7

\* The registry of shim_kunit.c is as loads and unloads of any number of modules leave
\* it: entries are whole, a test has at most two, and none is missing while there is room.
THEOREM RegInvAlways == Spec => []RegInv
<1>1. RegInv /\ [Next]_vars => RegInv'
  BY RegInvNext
<1> QED
  BY <1>1, RegInvInit, PTL DEF Spec

\* For any modules and tests and any size of the registry: no entry outlives its module,
\* and with room for the demand every test of a live module has its entry, however loads,
\* failed loads and unloads interleave (rs_kunit_register_case, rs_kunit_unregister_module).
THEOREM RegistryIsSound == Spec => []RegistryInv
<1>1. RegInv => RegistryInv
  <2> SUFFICES ASSUME RegInv PROVE RegistryInv
    OBVIOUS
  <2>1. TypeOK /\ NoDanglingEntry
    BY DEF RegInv, EntriesInv, NoDanglingEntry
  <2>2. ASSUME Demand <= MaxCases, NEW m \in Modules, mstate[m] = "live", NEW i \in 1 .. Len(Cases[m])
        PROVE  Matches(Cases[m][i]) # {}
    <3>1. Expected(m, i)
      BY <2>2 DEF Expected
    <3>2. PICK k \in DOMAIN entries : entries[k].run_case = <<m, i>>
      BY <2>2, <3>1 DEF RegInv, RegisteredInv
    <3>3. entries[k].owner = m /\ entries[k].run_case[2] = i
      BY <3>2, EntriesTyped
    <3>4. entries[k].name = Cases[m][i]
      BY <3>3 DEF RegInv, EntriesInv
    <3> QED
      BY <3>4 DEF Matches
  <2> QED
    BY <2>1, <2>2 DEF RegistryInv, NoTestDropped
<1> QED
  BY <1>1, RegInvAlways, PTL

\* When no two tests share a name, the dispatcher calls the function of the case KUnit
\* runs, and if KUnit runs one test at a time a failed assertion fails that very test,
\* also after a test that ended its thread (rs_kunit_run_case, kunit_assert!).
THEOREM TestsAreAttributed ==
    ASSUME DistinctNames
    PROVE  Spec => []TestsAttributed
<1>1. RegInv /\ RunsInv /\ [Next]_vars => RunsInv'
  BY RunsInvNext
<1>2. RunsInv => TestsAttributed
  BY DEF RunsInv, TestsAttributed, DispatchesOwnTest, FailureAttributed
<1> QED
  BY <1>1, <1>2, RunsInvInit, RegInvAlways, PTL DEF Spec
=============================================================================

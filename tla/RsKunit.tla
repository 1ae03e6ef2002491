------------------------------- MODULE RsKunit -------------------------------
(***************************************************************************)
(* KUnit for Rust modules: the registry and dispatcher of shim_kunit.c,    *)
(* the module notifier of main.c, init_test_suites of kunit.rs and the     *)
(* calls the module! and kunit_tests! macros generate.                     *)
(*                                                                         *)
(* Each module is loaded, tested and unloaded by a process of its own; the *)
(* notifier chain is only read-locked, so loads overlap.  The module       *)
(* loader and KUnit themselves are external.                               *)
(***************************************************************************)
EXTENDS Integers, Sequences, FiniteSetsExt

CONSTANTS
    Modules,        \* modules with a .kunit_test_suites section
    Self,           \* rust_support itself
    Names,          \* names of #[test] functions
    Cases,          \* per module: the names of its tests, in order
    Configs,        \* sizes of the registry and kinds of kernels considered
    None            \* a null pointer

ASSUME ModulesAssumption == Self \in Modules /\ IsFiniteSet(Modules)
ASSUME CasesAssumption == Cases \in [Modules -> Seq(Names)]
ASSUME ConfigsAssumption == Configs \subseteq [maxCases: Nat, serial: BOOLEAN]

VARIABLES
    config,     \* the registry and the kernel of this behaviour
    mstate,     \* per module: the step of its load
    idx,        \* per module: the case it is at
    entries,    \* rs_kunit_test_entries, rs_kunit_test_count of them
    tpc,        \* per module: where rs_kunit_run_case is
    fn,         \* per module: the local variable run_case
    current,    \* rs_kunit_current_test
    asserted,   \* tests one of whose assertions has failed
    failed      \* tests KUnit was told have failed

vars == <<config, mstate, idx, entries, tpc, fn, current, asserted, failed>>

\* RS_KUNIT_MAX_TEST_CASES, and whether KUnit runs one test at a time.
MaxCases == config.maxCases
Serial == config.serial

\* A test function, and the struct kunit of its run.
Tests == UNION {{<<m, i>> : i \in 1..Len(Cases[m])} : m \in Modules}

ASSUME NoneAssumption == None \notin Tests

Entry == [owner: Modules, name: Names, run_case: Tests]

TypeOK ==
    /\ config \in Configs
    /\ mstate \in [Modules -> {"unloaded", "coming", "init", "driver",
                               "live", "idle", "going"}]
    /\ \A m \in Modules : idx[m] \in 1..(Len(Cases[m]) + 1)
    /\ entries \in Seq(Entry) /\ Len(entries) <= MaxCases
    /\ tpc \in [Modules -> {"next", "found", "running"}]
    /\ fn \in [Modules -> Tests \cup {None}]
    /\ current \in Tests \cup {None}
    /\ asserted \subseteq Tests
    /\ failed \subseteq Tests

\* rust_support_init has come to rs_kunit_init_rust(&__this_module).
Init ==
    /\ config \in Configs
    /\ mstate = [m \in Modules |-> IF m = Self THEN "init" ELSE "unloaded"]
    /\ idx = [m \in Modules |-> 1]
    /\ entries = <<>>
    /\ tpc = [m \in Modules |-> "next"]
    /\ fn = [m \in Modules |-> None]
    /\ current = None
    /\ asserted = {}
    /\ failed = {}

testVars == <<tpc, fn, current, asserted, failed>>

-----------------------------------------------------------------------------
(* Loading and unloading.                                                  *)

\* MODULE_STATE_COMING: rs_kunit_module_notify enters init_test_suites.
Coming(m) ==
    /\ mstate[m] = "unloaded"
    /\ mstate[Self] \in {"live", "idle"}
    /\ mstate' = [mstate EXCEPT ![m] = "coming"]
    /\ idx' = [idx EXCEPT ![m] = 1]
    /\ UNCHANGED <<entries, testVars>>

\* The loop of init_test_suites is at a real test of m.
AtCase(m) == mstate[m] \in {"coming", "init"} /\ idx[m] <= Len(Cases[m])

RegistryFull == Len(entries) >= MaxCases

\* rs_kunit_case_array_init, then rs_kunit_register_case finds room.
RegisterCase(m) ==
    /\ AtCase(m)
    /\ ~RegistryFull
    /\ entries' = Append(entries, [owner |-> m, name |-> Cases[m][idx[m]],
                                   run_case |-> <<m, idx[m]>>])
    /\ idx' = [idx EXCEPT ![m] = @ + 1]
    /\ UNCHANGED <<mstate, testVars>>

\* rs_kunit_register_case: "test case registry full, dropping".
DropCase(m) ==
    /\ AtCase(m)
    /\ RegistryFull
    /\ idx' = [idx EXCEPT ![m] = @ + 1]
    /\ UNCHANGED <<mstate, entries, testVars>>

\* The null case and rs_kunit_suite_init_rust end init_test_suites.  After the
\* notifier the loader calls init_module, whose __init calls it once more.
SuitesDone(m) ==
    /\ mstate[m] \in {"coming", "init"}
    /\ idx[m] = Len(Cases[m]) + 1
    /\ mstate' = [mstate EXCEPT ![m] =
                     IF @ = "coming" THEN "init" ELSE "driver"]
    /\ idx' = [idx EXCEPT ![m] = 1]
    /\ UNCHANGED <<entries, testVars>>

\* Module::init returned Ok: MODULE_STATE_LIVE, KUnit starts on the suites.
InitOk(m) ==
    /\ mstate[m] = "driver"
    /\ mstate' = [mstate EXCEPT ![m] = "live"]
    /\ UNCHANGED <<idx, entries, testVars>>

\* Module::init returned Err: __init returns the errno and the load fails.
InitErr(m) ==
    /\ mstate[m] = "driver"
    /\ m # Self
    /\ mstate' = [mstate EXCEPT ![m] = "going"]
    /\ UNCHANGED <<idx, entries, testVars>>

\* KUnit is through with m's suites.
TestsDone(m) ==
    /\ mstate[m] = "live"
    /\ tpc[m] = "next"
    /\ idx[m] = Len(Cases[m]) + 1
    /\ mstate' = [mstate EXCEPT ![m] = "idle"]
    /\ UNCHANGED <<idx, entries, testVars>>

\* delete_module calls cleanup_module: __exit.
Unload(m) ==
    /\ mstate[m] = "idle"
    /\ m # Self
    /\ mstate' = [mstate EXCEPT ![m] = "going"]
    /\ UNCHANGED <<idx, entries, testVars>>

\* Mutant: only the first of m's entries is removed.
UnregisterModule_First(m) ==
    LET own == {k \in DOMAIN entries : entries[k].owner = m}
        drop == IF own = {} THEN {} ELSE {Min(own)}
    IN  /\ mstate[m] = "going"
        /\ entries' = [k \in 1..(Len(entries) - Cardinality(drop)) |->
                          IF \E d \in drop : d <= k THEN entries[k + 1] ELSE entries[k]]
        /\ mstate' = [mstate EXCEPT ![m] = "unloaded"]
        /\ UNCHANGED <<idx, testVars>>

\* The loop of rs_kunit_unregister_module: the entries of the others keep their
\* order, and j counts those that have been met.
Kept(m) == {i \in DOMAIN entries : entries[i].owner # m}
Nth(kept, j) == CHOOSE i \in kept : Cardinality({k \in kept : k <= i}) = j

\* MODULE_STATE_GOING: rs_kunit_unregister_module compacts the registry.
UnregisterModule(m) ==
    /\ mstate[m] = "going"
    /\ entries' = [j \in 1..Cardinality(Kept(m)) |-> entries[Nth(Kept(m), j)]]
    /\ mstate' = [mstate EXCEPT ![m] = "unloaded"]
    /\ UNCHANGED <<idx, testVars>>

-----------------------------------------------------------------------------
(* rs_kunit_run_case, which KUnit calls for each case of a live module.    *)

\* strcmp of every entry with test->name: the first match wins.
Matches(name) == {k \in DOMAIN entries : entries[k].name = name}
Lookup(name) == IF Matches(name) = {} THEN None ELSE entries[Min(Matches(name))].run_case

\* kunit_get_current_test, on kernels before 6.6.
CurrentTest == current

\* KUnit is about to run case idx[m] of m.
Due(m) ==
    /\ mstate[m] = "live"
    /\ tpc[m] = "next"
    /\ idx[m] <= Len(Cases[m])
    /\ Serial => \A o \in Modules : tpc[o] = "next"

\* The search under rs_kunit_test_lock; the pointer is used after the unlock.
RunCaseFind(m) ==
    /\ Due(m)
    /\ Lookup(Cases[m][idx[m]]) # None
    /\ fn' = [fn EXCEPT ![m] = Lookup(Cases[m][idx[m]])]
    /\ tpc' = [tpc EXCEPT ![m] = "found"]
    /\ UNCHANGED <<mstate, idx, entries, current, asserted, failed>>

\* "no Rust test registered": the case is skipped and counts as passed.
RunCaseMissing(m) ==
    /\ Due(m)
    /\ Lookup(Cases[m][idx[m]]) = None
    /\ idx' = [idx EXCEPT ![m] = @ + 1]
    /\ UNCHANGED <<mstate, entries, testVars>>

\* Mutant: rs_kunit_current_test is not set.
RunCaseCall_NotSet(m) ==
    /\ tpc[m] = "found"
    /\ tpc' = [tpc EXCEPT ![m] = "running"]
    /\ UNCHANGED <<mstate, idx, entries, fn, current, asserted, failed>>

\* rs_kunit_current_test = test; run_case(test) starts.
RunCaseCall(m) ==
    /\ tpc[m] = "found"
    /\ current' = <<m, idx[m]>>
    /\ tpc' = [tpc EXCEPT ![m] = "running"]
    /\ UNCHANGED <<mstate, idx, entries, fn, asserted, failed>>

\* run_case(test) returned; rs_kunit_current_test = NULL.
RunCaseReturn(m) ==
    /\ tpc[m] = "running"
    /\ current' = None
    /\ tpc' = [tpc EXCEPT ![m] = "next"]
    /\ fn' = [fn EXCEPT ![m] = None]
    /\ idx' = [idx EXCEPT ![m] = @ + 1]
    /\ UNCHANGED <<mstate, entries, asserted, failed>>

\* kunit_assert! finds a current test: it fails that test and ends the thread,
\* so rs_kunit_run_case never returns.
AssertFails(m) ==
    /\ tpc[m] = "running"
    /\ CurrentTest # None
    /\ asserted' = asserted \cup {<<m, idx[m]>>}
    /\ failed' = failed \cup {CurrentTest}
    /\ tpc' = [tpc EXCEPT ![m] = "next"]
    /\ fn' = [fn EXCEPT ![m] = None]
    /\ idx' = [idx EXCEPT ![m] = @ + 1]
    /\ UNCHANGED <<mstate, entries, current>>

\* kunit_assert! finds none: it prints "Failure not reported to KUnit since
\* this is a non-KUnit task" and the test goes on.
AssertUnreported(m) ==
    /\ tpc[m] = "running"
    /\ CurrentTest = None
    /\ asserted' = asserted \cup {<<m, idx[m]>>}
    /\ UNCHANGED <<mstate, idx, entries, tpc, fn, current, failed>>

-----------------------------------------------------------------------------
Next ==
    /\ UNCHANGED config
    /\ \E m \in Modules :
        \/ Coming(m) \/ RegisterCase(m) \/ DropCase(m) \/ SuitesDone(m)
        \/ InitOk(m) \/ InitErr(m) \/ TestsDone(m) \/ Unload(m)
        \/ UnregisterModule(m)
        \/ RunCaseFind(m) \/ RunCaseMissing(m) \/ RunCaseCall(m)
        \/ RunCaseReturn(m) \/ AssertFails(m) \/ AssertUnreported(m)

Spec == Init /\ [][Next]_vars

-----------------------------------------------------------------------------
(* Properties.                                                             *)

\* No entry of the registry outlives its module: names and functions of
\* unloaded modules are never compared or called, however loads interleave.
NoDanglingEntry == \A k \in DOMAIN entries : mstate[entries[k].owner] # "unloaded"

\* The function the dispatcher calls is the one of the case KUnit is running.
\* "The actual Rust test function is registered in `rs_kunit_test_entries` and
\* invoked from the C dispatcher" (rs_kunit_case_array_init).
DispatchesOwnTest ==
    \A m \in Modules : tpc[m] # "next" => fn[m] = <<m, idx[m]>>

\* The entries needed to have all modules loaded: the notifier and __init both
\* register every case, rust_support only once, and the last module may lose its
\* second entries.
Lkms == Modules \ {Self}
Spare == IF Lkms = {} THEN 0 ELSE Min({Len(Cases[m]) : m \in Lkms})
Demand == Cardinality(Tests) + Cardinality({t \in Tests : t[1] # Self}) - Spare

\* A registry with that much room never loses a test of a live module, however
\* loads, failed loads and unloads interleave: unloading gives the room back.
NoTestDropped ==
    Demand <= MaxCases =>
        \A m \in Modules : mstate[m] = "live" =>
            \A i \in 1..Len(Cases[m]) : Matches(Cases[m][i]) # {}

\* KUnit fails exactly the tests one of whose assertions failed, if it runs one
\* test at a time: rs_kunit_current_test is a single global.
FailureAttributed == Serial => failed = asserted

\* The registry of shim_kunit.c is sound through loads, failed loads and unloads:
\* it points only into loaded modules and forgets nothing while there is room.
RegistryInv == TypeOK /\ NoDanglingEntry /\ NoTestDropped

\* The dispatcher runs the function of the case KUnit runs, and a failure is
\* reported for the test whose assertion failed.
TestsAttributed == DispatchesOwnTest /\ FailureAttributed
=============================================================================

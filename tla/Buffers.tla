------------------------------ MODULE Buffers ------------------------------
(***************************************************************************)
(* A driver that moves bytes: it reads and writes user memory and formats  *)
(* strings, one call at a time, while the process changes its mappings and *)
(* the formatted values change; results of calls are converted on the way, *)
(* and IDs are handed out from a bitmap that is moved while it is in use.  *)
(***************************************************************************)
EXTENDS Strings, UserSlice, Conversions, IdPool

vars == <<strVars, userVars, convVars, poolVars>>

TypeOK == StrTypeOK /\ UserTypeOK /\ ConvTypeOK /\ PoolTypeOK

Init == StrInit /\ UserInit /\ ConvInit /\ PoolInit

(* A slice lasts for one system call; strings are formatted between them.  *)
Between == slice = Empty /\ mapped = 0 .. TaskSize - 1

SyscallReturns ==
  /\ slice # Empty
  /\ slice' = Empty /\ reader' = Empty /\ writer' = Empty
  /\ mapped' = 0 .. TaskSize - 1
  /\ read' = {} /\ again' = FALSE /\ touched' = {}
  /\ vec' = [len |-> 0, filled |-> 0] /\ page' = {} /\ strbuf' = 0

Next ==
  \/ /\ Between /\ ConvIdle /\ PoolIdle /\ StrStep
     /\ UNCHANGED <<userVars, convVars, poolVars>>
  \/ /\ ConvIdle /\ PoolIdle /\ call = "idle" /\ (UserStep \/ SyscallReturns)
     /\ UNCHANGED <<strVars, convVars, poolVars>>
  \/ /\ Between /\ PoolIdle /\ call = "idle" /\ ConvStep
     /\ UNCHANGED <<strVars, userVars, poolVars>>
  \/ /\ Between /\ ConvIdle /\ call = "idle" /\ PoolStep
     /\ UNCHANGED <<strVars, userVars, convVars>>

Spec == Init /\ [][Next]_vars

\* No access of uaccess.rs, page.rs and str.rs leaves its slice, page or buffer.
AccessInside == TypeOK /\ WritesInside /\ SliceRespected /\ PageRespected

\* What callers get is what was copied: no byte of a slice twice, none that was
\* never written, and no CString with a NUL inside it or without one at its end.
BytesExact == NoDoubleFetch /\ NoUninitBytes /\ CStringValid

\* Errors and ioctl numbers survive their conversions (error.rs, ioctl.rs).
ConversionsExact == ErrnoPreserved /\ IoctlDecodes

\* The IDs in use are the bits that are set, whoever resizes the pool meanwhile,
\* and every array is freed once (id_pool.rs, bitmap.rs).
PoolExact == IdsExact /\ ArraysExact
=============================================================================

----------------------------- MODULE UserSlice -----------------------------
(***************************************************************************)
(* Reading and writing user memory (uaccess.rs) and copying it into a page *)
(* (page.rs).  A UserSlice is any pointer and length a process passes in;  *)
(* its reader and its writer move on by what they have copied.  While the  *)
(* driver works, other threads of the process unmap and map pages again,   *)
(* so that a copy may stop anywhere.                                       *)
(*                                                                         *)
(* Addresses are 0 .. Words - 1; pointers wrap as usize does.              *)
(***************************************************************************)
EXTENDS Naturals, FiniteSetsExt

CONSTANTS
  Words,      \* 2^64
  TaskSize,   \* user addresses lie below
  PageSize,   \* bytes in a page of the kernel
  BufLen      \* length of the buffer passed to strncpy_from_user

ASSUME UserSliceAssumption ==
  /\ Words \in Nat \ {0} /\ TaskSize \in 1 .. Words - 1
  /\ PageSize \in Nat \ {0} /\ 2 * PageSize < Words /\ BufLen \in Nat

Lens == 0 .. Words - 1

VARIABLES
  slice,     \* pointer and length of the UserSlice
  reader,    \* pointer and remaining length of its reader
  writer,    \* and of its writer
  mapped,    \* user addresses that do not fault
  read,      \* addresses whose bytes the reader has handed out
  again,     \* it has handed out some byte twice
  touched,   \* addresses the kernel has been asked to access
  vec,       \* len, and the bytes written, of the Vec read_all appends to
  page,      \* offsets of the page that were written
  strbuf     \* bytes of buf that strncpy_from_user said it filled

userVars == <<slice, reader, writer, mapped, read, again, touched, vec, page, strbuf>>

Cursor == [ptr : Lens, length : Lens]

UserTypeOK ==
  /\ slice \in Cursor /\ reader \in Cursor /\ writer \in Cursor
  /\ mapped \subseteq 0 .. TaskSize - 1
  /\ read \subseteq Lens /\ again \in BOOLEAN /\ touched \subseteq Lens
  /\ vec \in [len : Lens, filled : Lens]
  /\ page \subseteq 0 .. 2 * Words
  /\ strbuf \in Nat

Empty == [ptr |-> 0, length |-> 0]

UserInit ==
  /\ slice = Empty /\ reader = Empty /\ writer = Empty
  /\ mapped = 0 .. TaskSize - 1
  /\ read = {} /\ again = FALSE /\ touched = {}
  /\ vec = [len |-> 0, filled |-> 0] /\ page = {} /\ strbuf = 0

(* The n addresses from ptr on. *)
Span(ptr, n) == {(ptr + i) % Words : i \in {j \in Lens : j < n}}

(* UserSlice::new(ptr, length).reader_writer() *)
ReaderWriter(ptr, n) ==
  /\ slice' = [ptr |-> ptr, length |-> n]
  /\ reader' = slice' /\ writer' = slice'
  /\ read' = {} /\ again' = FALSE /\ touched' = {}
  /\ \E old \in {0, 1} : vec' = [len |-> old, filled |-> old]
  /\ page' = {} /\ strbuf' = 0
  /\ UNCHANGED mapped

(* External: copy_from_user and copy_to_user.  access_ok refuses a range   *)
(* that is not all user memory; otherwise the bytes before the first fault *)
(* are copied.  The answer is how many are.                                *)
access_ok(ptr, n) == ptr + n <= TaskSize
Copied(ptr, n) ==
  IF ~access_ok(ptr, n) THEN 0
  ELSE Max({k \in 0 .. n : \A i \in 0 .. n : i < k => ptr + i \in mapped})

(* The process maps or unmaps a page between two calls of the driver. *)
Remap(a) ==
  /\ mapped' = IF a \in mapped THEN mapped \ {a} ELSE mapped \cup {a}
  /\ UNCHANGED <<slice, reader, writer, read, again, touched, vec, page, strbuf>>

(* Mutant: the length is used up but the pointer stays. *)
Advance_StaysPut(c, n) == [c EXCEPT !.length = @ - n]

Advance(c, n) == [ptr |-> (c.ptr + n) % Words, length |-> c.length - n]

(* UserSliceReader::skip: EFAULT, and no change, past the end. *)
Skip(n) ==
  /\ n <= reader.length
  /\ reader' = Advance(reader, n)
  /\ UNCHANGED <<slice, writer, mapped, read, again, touched, vec, page, strbuf>>

(* The part of a read that read_raw, read_slice and read have in common:   *)
(* the reader moves on only when every byte came; n bytes are handed out.  *)
(* A reader passed by value is gone, as one with nothing left, either way. *)
Fetch(n, byValue) ==
  /\ touched' = touched \cup (IF access_ok(reader.ptr, n) THEN Span(reader.ptr, n) ELSE {})
  /\ IF Copied(reader.ptr, n) = n
     THEN /\ reader' = Advance(reader, n)
          /\ again' = (again \/ Span(reader.ptr, n) \cap read # {})
          /\ read' = read \cup Span(reader.ptr, n)
     ELSE /\ reader' = IF byValue THEN [reader EXCEPT !.length = 0] ELSE reader
          /\ UNCHANGED <<again, read>>

read_raw(n) == n <= reader.length /\ Fetch(n, FALSE)

(* UserSliceReader::read::<T>() with size_of::<T>() = n. *)
ReadValue(n) ==
  /\ n <= reader.length /\ Fetch(n, FALSE)
  /\ UNCHANGED <<slice, writer, mapped, vec, page, strbuf>>

ReadSlice(n) ==
  /\ read_raw(n)
  /\ UNCHANGED <<slice, writer, mapped, vec, page, strbuf>>

(* read_all: reserve, copy the rest of the slice into the spare capacity,  *)
(* and only then inc_len.  If reserve fails nothing but the reader is gone. *)
ReadAll ==
  /\ reader.length > 0 /\ vec.len + reader.length < Words
  /\ Fetch(reader.length, TRUE)
  /\ LET n == Copied(reader.ptr, reader.length)
     IN  vec' = [len |-> IF n = reader.length THEN vec.len + n ELSE vec.len,
                 filled |-> vec.len + n]
  /\ UNCHANGED <<slice, writer, mapped, page, strbuf>>

(* strncpy_from_user: at most min(length, buf.len()) bytes, by value: the  *)
(* reader is gone.  The kernel stops at a NUL, at the limit or at a fault. *)
StrncpyFromUser ==
  LET max == Min({reader.length, BufLen})
  IN  /\ reader.length > 0
      /\ touched' = touched \cup (IF reader.ptr < TaskSize THEN Span(reader.ptr, max) ELSE {})
      /\ \/ strbuf' \in 0 .. Copied(reader.ptr, Min({max, TaskSize - Min({reader.ptr, TaskSize})}))
         \/ UNCHANGED strbuf                \* EFAULT
      /\ reader' = [reader EXCEPT !.length = 0]
      /\ UNCHANGED <<slice, writer, mapped, read, again, vec, page>>

(* UserSliceWriter::write_slice, and write::<T> with size_of::<T>() = n. *)
WriteSlice(n) ==
  /\ n <= writer.length
  /\ touched' = touched \cup (IF access_ok(writer.ptr, n) THEN Span(writer.ptr, n) ELSE {})
  /\ writer' = IF Copied(writer.ptr, n) = n THEN Advance(writer, n) ELSE writer
  /\ UNCHANGED <<slice, reader, mapped, read, again, vec, page, strbuf>>

(* The check of with_pointer_into_page: the sum cannot overflow. *)
bounds_ok(off, n) ==
  off <= PageSize /\ n <= PageSize /\ (off + n) % Words <= PageSize

(* Page::copy_from_user_slice_raw: EINVAL outside the page, otherwise      *)
(* read_raw into it.                                                       *)
CopyIntoPage(off, n) ==
  /\ bounds_ok(off, n) /\ read_raw(n)
  /\ page' = page \cup {off + i : i \in {j \in Lens : j < Copied(reader.ptr, n)}}
  /\ UNCHANGED <<slice, writer, mapped, vec, strbuf>>

(* Page::write_raw, fill_zero_raw and, of the same bytes, read_raw. *)
PageRaw(off, n) ==
  /\ bounds_ok(off, n)
  /\ page' = page \cup {off + i : i \in {j \in Lens : j < n}}
  /\ UNCHANGED <<slice, reader, writer, mapped, read, again, touched, vec, strbuf>>

UserStep ==
  \/ \E ptr \in Lens, n \in Lens : ReaderWriter(ptr, n)
  \/ \E a \in 0 .. TaskSize - 1 : Remap(a)
  \/ \E n \in Lens \ {0} : Skip(n) \/ ReadSlice(n) \/ ReadValue(n) \/ WriteSlice(n)
  \/ ReadAll \/ StrncpyFromUser
  \/ \E off \in Lens, n \in Lens \ {0} : CopyIntoPage(off, n) \/ PageRaw(off, n)

-----------------------------------------------------------------------------
(* Nothing outside the slice the process passed in is ever accessed, and   *)
(* what is left of the reader and of the writer is the end of the slice.   *)
SliceRespected ==
  /\ touched \subseteq Span(slice.ptr, slice.length)
  /\ \A c \in {reader, writer} :
       Span(c.ptr, c.length) \subseteq Span(slice.ptr, slice.length)

(* A reader hands out each byte of user memory at most once: what was      *)
(* checked is what is used, also after a read that failed half way.        *)
NoDoubleFetch == ~again /\ read \cap Span(reader.ptr, reader.length) = {}

(* Every byte that belongs to the Vec was written, also when the copy of   *)
(* read_all stopped at a fault; strncpy_from_user stays inside its buffer. *)
NoUninitBytes == vec.len <= vec.filled /\ strbuf <= BufLen

(* No offset and length makes a copy leave the page. *)
PageRespected == page \subseteq 0 .. PageSize - 1
=============================================================================

SPECIFICATION Spec
CONSTANTS
  Usize = 10
  MaxAlloc = 5
  Base = 3
  Texts <- MCTexts
  Slices <- MCSlices
  Words = 5
  TaskSize = 4
  PageSize = 2
  BufLen = 2
  IntValues = 32
  ShortValues = 16
  PtrValues = 64
  MaxErrno = 7
  EINVAL = 3
  ENOMEM = 2
  NrValues = 4
  TypeValues = 4
  SizeValues = 8
  Users = {u1, u2}
  InlineLen = 2
  MaxLen = 16
  Capacities = {0, 5, 16}
  Offsets = {0, 3, 9}
  MaxIds = 2
INVARIANTS AccessInside BytesExact ConversionsExact PoolExact

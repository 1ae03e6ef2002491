--------------------------- MODULE Driver_proofs ---------------------------
(***************************************************************************)
(* What holds of the parts of a character driver that its callers and its  *)
(* own threads meet.                                                       *)
(*                                                                         *)
(* In-place initialisation, files and a misc device, for every struct      *)
(* layout, every set of fallible fields and any number of files,           *)
(* descriptors and system calls.  PInv is an inductive invariant of        *)
(* PinSpec alone; that every step of the driver is a step of PinNext       *)
(* carries it over to MiscSpec.  DevInv adds what files and the            *)
(* registration need.                                                      *)
(*                                                                         *)
(* Memory maps, for any number of threads, addresses and areas: the counts *)
(* of the mm_struct are exact and keep what they promise (HandleInv), and  *)
(* the driver's area and its page stay what the driver was told they are   *)
(* (FullInv).                                                              *)
(***************************************************************************)
EXTENDS MiscDevice, Mm, FiniteSetTheorems, TLAPS

-----------------------------------------------------------------------------
(* The inductive invariant of in-place initialisation.                     *)

\* The initialiser has got as far as element count of field at.
Reached(e) == e[1] < at \/ (e[1] = at /\ e[2] <= count)

\* What each mode of the owning thread says of the cells: drop_in_place still
\* has to drop exactly what is live.
ModeInv ==
    /\ mode = "idle" => /\ todo = {}
                        /\ \A e \in Elements : cell[e] = "live" <=> place \in {"value", "foreign"}
    /\ mode = "run" => /\ place = "uninit" /\ todo = {} /\ guards = 1..(at - 1)
                       /\ at <= N => count <= Lens[at]
                       /\ \A e \in Elements : cell[e] = "live" <=> Reached(e)
    /\ mode \in {"unwind", "drop"} => \A e \in Elements : cell[e] = "live" <=> e \in todo
    /\ mode = "unwind" => place = "uninit"
    /\ mode = "drop" => place = "value"

NoneBad == \A e \in Elements : cell[e] # "bad"

PInv == PinTypeOK /\ NoneBad /\ ModeInv /\ EarlierOutlivesLater

-----------------------------------------------------------------------------
(* What the files and the registration need.                               *)

\* The structures and the entry in misc_list exist as long as the registration
\* is live, and a little longer at either end.
RegInv ==
    /\ priv # "bad"
    /\ listed => priv = "live"
    /\ cell[Reg] # "live" => RegTurn \/ (~listed /\ priv = "none")
    /\ cell[Reg] = "live" => priv = "live" /\ (listed \/ RegDropTurn)
    /\ ~Idle => listed

\* A system call in mmap is in a file operation.
MmapInv == \A c \in inMmap : user[c] # NoFile

\* The private data of a file follows its state.
PrivateExact == \A x \in Files : box[x] = (IF fst[x] = "open" THEN "live" ELSE "none")

\* No file is open while T::open refuses, and a file that is being opened is the
\* one misc_open holds misc_mtx for.
DrainInv ==
    /\ refusing => \A x \in Files : fst[x] # "open"
    /\ \A x \in Files : fst[x] = "opening" => opener = x

-----------------------------------------------------------------------------
(* Elements.                                                               *)

LEMMA LensType == N \in Nat /\ DOMAIN Lens = 1..N /\ \A i \in 1..N : Lens[i] \in Nat \ {0}
  BY PinAssumption DEF N

\* Elements are pairs of a field and a position in it.
LEMMA ElementsAre ==
    ASSUME NEW e \in Elements
    PROVE  e[1] \in 1..N /\ e[2] \in 1..Lens[e[1]] /\ e = <<e[1], e[2]>>
  <1>1. PICK i \in 1..N : e \in Prefix(i, Lens[i])
    BY DEF Elements, ElementsOf
  <1>2. PICK n \in 1..Lens[i] : e = <<i, n>>
    BY <1>1 DEF Prefix
  <1> QED  BY <1>2

LEMMA PrefixIs ==
    ASSUME NEW i \in 1..N, NEW n \in Nat, n <= Lens[i]
    PROVE  \A e : e \in Prefix(i, n) <=> e \in Elements /\ e[1] = i /\ e[2] <= n
  <1>1. ASSUME NEW e \in Prefix(i, n)
        PROVE  e \in Elements /\ e[1] = i /\ e[2] <= n
    <2>1. PICK m \in 1..n : e = <<i, m>>
      BY DEF Prefix
    <2>2. m \in 1..Lens[i]
      BY LensType
    <2>3. e \in Prefix(i, Lens[i])
      BY <2>1, <2>2 DEF Prefix
    <2> QED  BY <2>1, <2>3 DEF Elements, ElementsOf
  <1>2. ASSUME NEW e \in Elements, e[1] = i, e[2] <= n
        PROVE  e \in Prefix(i, n)
    <2>1. e = <<i, e[2]>> /\ e[2] \in 1..Lens[i]
      BY ElementsAre, <1>2
    <2>2. e[2] \in 1..n
      BY <2>1, <1>2, LensType
    <2> QED  BY <2>1, <2>2 DEF Prefix
  <1> QED  BY <1>1, <1>2

LEMMA ElementsOfAre ==
    ASSUME NEW fs \in SUBSET (1..N)
    PROVE  \A e : e \in ElementsOf(fs) <=> e \in Elements /\ e[1] \in fs
  <1>1. \A i \in 1..N : \A e : e \in Prefix(i, Lens[i]) <=> e \in Elements /\ e[1] = i
    <2> SUFFICES ASSUME NEW i \in 1..N, NEW e
                 PROVE  e \in Prefix(i, Lens[i]) <=> e \in Elements /\ e[1] = i
      OBVIOUS
    <2>1. e \in Elements /\ e[1] = i => e[2] <= Lens[i]
      BY ElementsAre, LensType
    <2>2. Lens[i] \in Nat /\ Lens[i] <= Lens[i]
      BY LensType
    <2> QED  BY PrefixIs, <2>1, <2>2
  <1>2. \A e : e \in ElementsOf(fs) <=> \E i \in fs : e \in Prefix(i, Lens[i])
    BY DEF ElementsOf
  <1> QED  BY <1>1, <1>2

\* The declared fields have an order.
LEMMA DeclPosIs ==
    ASSUME NEW i \in 1..N
    PROVE  DeclPos(i) \in 1..N
  BY PinAssumption, LensType DEF DeclPos

LEMMA DropOrderStrict ==
    ASSUME NEW d \in Elements, NEW e \in Elements, DropsBefore(d, e)
    PROVE  ~DropsBefore(e, d)
  <1>1. d[1] \in Int /\ d[2] \in Int /\ e[1] \in Int /\ e[2] \in Int
    BY ElementsAre, LensType
  <1>2. DeclPos(d[1]) \in Int /\ DeclPos(e[1]) \in Int
    BY ElementsAre, DeclPosIs
  <1> QED  BY <1>1, <1>2 DEF DropsBefore

\* The registration is an element of the value.
LEMMA RegIsElement == Reg \in Elements /\ RegField \in 1..N /\ Lens[RegField] = 1
  <1>1. RegField \in 1..N /\ Lens[RegField] = 1
    BY MiscAssumption, PinAssumption, LensType
  <1>2. Reg \in Prefix(RegField, Lens[RegField])
    BY <1>1 DEF Prefix, Reg
  <1> QED  BY <1>1, <1>2 DEF Elements, ElementsOf

-----------------------------------------------------------------------------
(* In-place initialisation.                                                *)

LEMMA PinInitOk == PinInitState => PInv
  <1>1. PinInitState => PinTypeOK
    <2> HAVE PinInitState
    <2>1. at \in 1..(N + 1) /\ count \in Nat
      BY LensType DEF PinInitState
    <2>2. cell \in [Elements -> {"raw", "live", "bad"}]
      BY DEF PinInitState
    <2> QED  BY <2>1, <2>2 DEF PinInitState, PinTypeOK
  <1>2. PinInitState => NoneBad /\ ModeInv
    BY DEF PinInitState, NoneBad, ModeInv
  <1>3. PinInitState => EarlierOutlivesLater
    BY DEF PinInitState, EarlierOutlivesLater
  <1> QED  BY <1>1, <1>2, <1>3 DEF PInv

\* The owner's steps.
LEMMA PinOwner ==
    ASSUME PInv,
           \/ \E k \in {"heap", "stack"} : NewUninit(k)
           \/ StartInit \/ DropUninit \/ (\E k \in BOOLEAN : DropValue(k))
           \/ IntoForeign \/ FromForeign
    PROVE  PInv'
  <1> USE DEF PInv, PinTypeOK, NoneBad, ModeInv, EarlierOutlivesLater, Live
  <1>1. CASE \E k \in {"heap", "stack"} : NewUninit(k)
    BY <1>1 DEF NewUninit
  <1>2. CASE StartInit
    <2>1. \A e \in Elements : ~(Reached(e))'
      <3>1. at' = 1 /\ count' = 0
        BY <1>2 DEF StartInit
      <3> QED  BY <3>1, ElementsAre, LensType DEF Reached
    <2>2. 1..(at' - 1) = {} /\ at' \in 1..(N + 1) /\ count' \in Nat
      BY <1>2, LensType DEF StartInit
    <2>3. at' <= N => count' <= Lens[at']
      BY <1>2, LensType DEF StartInit
    <2> QED  BY <1>2, <2>1, <2>2, <2>3 DEF StartInit
  <1>3. CASE DropUninit
    BY <1>3 DEF DropUninit
  <1>4. CASE \E k \in BOOLEAN : DropValue(k)
    BY <1>4 DEF DropValue
  <1>5. CASE IntoForeign
    BY <1>5 DEF IntoForeign
  <1>6. CASE FromForeign
    BY <1>6 DEF FromForeign
  <1> QED  BY <1>1, <1>2, <1>3, <1>4, <1>5, <1>6

LEMMA PinElement ==
    ASSUME PInv, InitElement
    PROVE  PInv'
  <1> DEFINE n == <<at, count + 1>>
  <1>1. /\ mode = "run" /\ at \in 1..N /\ count \in Nat /\ count < Lens[at]
        /\ cell' = Written(cell, n) /\ count' = count + 1
        /\ UNCHANGED <<place, kind, mode, at, guards, todo, keep>>
    BY LensType DEF InitElement, PInv, PinTypeOK
  <1>2. n \in Elements
    <2>1. Lens[at] \in Nat
      BY <1>1, LensType
    <2>2. n \in Prefix(at, Lens[at])
      BY <1>1, <2>1 DEF Prefix
    <2> QED  BY <1>1, <2>2 DEF Elements, ElementsOf
  <1>3. \A e \in Elements : (Reached(e))' <=> Reached(e) \/ e = n
    <2> SUFFICES ASSUME NEW e \in Elements
                 PROVE  (Reached(e))' <=> Reached(e) \/ e = n
      OBVIOUS
    <2>1. e[1] \in Int /\ e[2] \in Int /\ e = <<e[1], e[2]>> /\ at \in Int /\ count \in Int
      BY ElementsAre, LensType, <1>1
    <2> QED  BY <2>1, <1>1 DEF Reached
  <1>4. ~Reached(n)
    BY <1>1 DEF Reached
  <1>5. cell[n] = "raw" /\ cell' = [cell EXCEPT ![n] = "live"]
    BY <1>1, <1>2, <1>4 DEF PInv, PinTypeOK, NoneBad, ModeInv, Written
  <1>6. PinTypeOK' /\ NoneBad'
    BY <1>1, <1>2, <1>5 DEF PInv, PinTypeOK, NoneBad
  <1>7. \A e \in Elements : cell'[e] = "live" <=> (Reached(e))'
    BY <1>1, <1>2, <1>3, <1>5 DEF PInv, PinTypeOK, ModeInv
  <1>8. count' <= Lens[at]
    BY <1>1, LensType
  <1>9. ModeInv'
    BY <1>1, <1>7, <1>8 DEF PInv, ModeInv
  <1>10. EarlierOutlivesLater'
    <2> SUFFICES ASSUME NEW e \in Elements, NEW d \in Elements, (Reached(e))', d[1] < e[1]
                 PROVE  (Reached(d))'
      BY <1>1, <1>7 DEF EarlierOutlivesLater, Live
    <2>1. e[1] \in Int /\ d[1] \in Int /\ at' \in Int
      BY ElementsAre, <1>1
    <2> QED  BY <2>1 DEF Reached
  <1> QED  BY <1>6, <1>9, <1>10 DEF PInv

LEMMA PinFieldDone ==
    ASSUME PInv, FieldDone
    PROVE  PInv'
  <1>1. /\ mode = "run" /\ at \in 1..N /\ count = Lens[at] /\ count \in Nat
        /\ guards' = guards \cup {at} /\ at' = at + 1 /\ count' = 0
        /\ UNCHANGED <<place, kind, cell, mode, todo, keep>>
    BY LensType DEF FieldDone, PInv, PinTypeOK
  <1>2. at' \in 1..(N + 1) /\ count' \in Nat /\ guards' = 1..(at' - 1)
    BY <1>1, LensType DEF PInv, ModeInv
  <1>3. guards' \subseteq 1..N
    BY <1>1, <1>2, LensType
  <1>4. \A e \in Elements : (Reached(e))' <=> Reached(e)
    <2> SUFFICES ASSUME NEW e \in Elements
                 PROVE  (Reached(e))' <=> Reached(e)
      OBVIOUS
    <2>1. e[1] \in Int /\ e[2] \in Int /\ e[2] >= 1 /\ at \in Int /\ (e[1] = at => e[2] <= count)
      BY ElementsAre, LensType, <1>1
    <2> QED  BY <2>1, <1>1 DEF Reached
  <1>5. at' <= N => count' <= Lens[at']
    BY <1>1, <1>2, LensType
  <1>6. PinTypeOK' /\ NoneBad'
    BY <1>1, <1>2, <1>3 DEF PInv, PinTypeOK, NoneBad
  <1>7. ModeInv'
    BY <1>1, <1>2, <1>4, <1>5 DEF PInv, ModeInv
  <1>8. EarlierOutlivesLater'
    BY <1>1 DEF PInv, EarlierOutlivesLater, Live
  <1> QED  BY <1>6, <1>7, <1>8 DEF PInv

\* Whatever fails, the unwinding has to drop exactly what is live.
LEMMA PinUnwinds ==
    ASSUME PInv, mode = "run", at \in 1..N, NEW S, todo' = S,
           \A e : e \in S <=> e \in Elements /\ Reached(e),
           mode' = "unwind", guards' = {},
           UNCHANGED <<place, kind, cell, at, count, keep>>
    PROVE  PInv'
  <1>1. PinTypeOK' /\ NoneBad'
    BY DEF PInv, PinTypeOK, NoneBad
  <1>2. ModeInv'
    BY DEF PInv, ModeInv
  <1>3. EarlierOutlivesLater'
    BY DEF PInv, EarlierOutlivesLater, Live
  <1> QED  BY <1>1, <1>2, <1>3 DEF PInv

LEMMA PinErr ==
    ASSUME PInv, InitErr \/ ChainErr
    PROVE  PInv'
  <1>1. /\ mode = "run" /\ at \in 1..N /\ count \in Nat /\ count <= Lens[at]
        /\ mode' = "unwind" /\ guards' = {}
        /\ todo' = Prefix(at, count) \cup GuardDrops
        /\ UNCHANGED <<place, kind, cell, at, count, keep>>
    <2>1. mode = "run" /\ at \in 1..N /\ count \in Nat
      BY LensType DEF InitErr, ChainErr, PInv, PinTypeOK
    <2>2. count <= Lens[at]
      BY <2>1, LensType DEF InitErr, ChainErr
    <2>3. todo' = Prefix(at, count) \cup GuardDrops
      BY DEF InitErr, ChainErr, ChainDrops
    <2> QED  BY <2>1, <2>2, <2>3 DEF InitErr, ChainErr
  <1>2. guards \in SUBSET (1..N) /\ guards = 1..(at - 1)
    BY <1>1 DEF PInv, PinTypeOK, ModeInv
  <1>3. \A e : e \in GuardDrops <=> e \in Elements /\ e[1] \in guards
    BY ElementsOfAre, <1>2 DEF GuardDrops
  <1>4. \A e : e \in Prefix(at, count) <=> e \in Elements /\ e[1] = at /\ e[2] <= count
    BY PrefixIs, <1>1
  <1>5. \A e \in Elements : e[1] \in guards <=> e[1] < at
    BY ElementsAre, <1>1, <1>2
  <1>6. \A e : e \in Prefix(at, count) \cup GuardDrops <=> e \in Elements /\ Reached(e)
    BY <1>3, <1>4, <1>5 DEF Reached
  <1> QED  BY <1>1, <1>6, PinUnwinds

LEMMA PinOk ==
    ASSUME PInv, InitOk
    PROVE  PInv'
  <1>1. \A e \in Elements : Reached(e)
    BY ElementsAre, LensType DEF InitOk, Reached
  <1>2. \A e \in Elements : cell'[e] = "live"
    BY <1>1 DEF InitOk, PInv, ModeInv
  <1>3. PinTypeOK' /\ NoneBad'
    BY DEF InitOk, PInv, PinTypeOK, NoneBad
  <1>4. ModeInv'
    BY <1>2 DEF InitOk, PInv, ModeInv
  <1>5. EarlierOutlivesLater'
    BY DEF InitOk, EarlierOutlivesLater
  <1> QED  BY <1>3, <1>4, <1>5 DEF PInv

\* What is next to be dropped is live.
LEMMA DropsLive ==
    ASSUME PInv, NEW e, NextToDrop(e)
    PROVE  e \in Elements /\ cell[e] = "live" /\ mode \in {"unwind", "drop"}
  BY DEF NextToDrop, PInv, PinTypeOK, ModeInv

\* Locals are dropped in reverse: while unwinding, nothing that is still live
\* was initialised after the element dropped now.
LEMMA PinDrop ==
    ASSUME PInv, NEW e \in Elements, DropElement(e)
    PROVE  PInv' /\ cell' = [cell EXCEPT ![e] = "raw"]
  <1>1. /\ e \in todo /\ cell[e] = "live" /\ mode \in {"unwind", "drop"}
        /\ todo' = todo \ {e}
        /\ UNCHANGED <<place, kind, mode, at, count, guards, keep>>
    BY DropsLive DEF DropElement, NextToDrop
  <1>2. cell' = [cell EXCEPT ![e] = "raw"]
    BY <1>1 DEF DropElement, Dropped, PInv, PinTypeOK
  <1>3. PinTypeOK' /\ NoneBad'
    BY <1>1, <1>2 DEF PInv, PinTypeOK, NoneBad
  <1>4. ModeInv'
    BY <1>1, <1>2 DEF PInv, PinTypeOK, ModeInv
  <1>5. EarlierOutlivesLater'
    <2> SUFFICES ASSUME mode' = "unwind", NEW f \in Live', NEW d \in Elements, d[1] < f[1]
                 PROVE  d \in Live'
      BY <1>1 DEF EarlierOutlivesLater
    <2>1. f \in Elements /\ f # e /\ cell[f] = "live"
      BY <1>2 DEF Live, PInv, PinTypeOK
    <2>2. d \in Live
      BY <1>1, <2>1 DEF PInv, EarlierOutlivesLater, Live
    <2>3. f \in todo
      BY <1>1, <2>1 DEF PInv, ModeInv
    <2>4. DropsBefore(e, f) /\ mode = "unwind"
      BY <1>1, <2>1, <2>3 DEF DropElement, NextToDrop
    <2>5. e[1] \in Int /\ f[1] \in Int /\ d[1] \in Int
      BY <2>1, ElementsAre
    <2>6. d # e
      BY <2>4, <2>5 DEF DropsBefore
    <2> QED  BY <1>2, <2>2, <2>6 DEF Live, PInv, PinTypeOK
  <1> QED  BY <1>2, <1>3, <1>4, <1>5 DEF PInv

LEMMA PinDone ==
    ASSUME PInv, UnwindDone \/ DropDone
    PROVE  PInv'
  <1>1. /\ mode \in {"unwind", "drop"} /\ todo = {} /\ mode' = "idle"
        /\ place' \in {"none", "uninit"}
        /\ UNCHANGED <<kind, cell, at, count, guards, todo, keep>>
    BY DEF UnwindDone, DropDone
  <1>2. PinTypeOK' /\ NoneBad'
    BY <1>1 DEF PInv, PinTypeOK, NoneBad
  <1>3. ModeInv'
    BY <1>1 DEF PInv, ModeInv
  <1>4. EarlierOutlivesLater'
    BY <1>1 DEF EarlierOutlivesLater
  <1> QED  BY <1>2, <1>3, <1>4 DEF PInv

LEMMA PinStep == PInv /\ [PinNext]_pinvars => PInv'
  <1> SUFFICES ASSUME PInv, [PinNext]_pinvars
               PROVE  PInv'
    OBVIOUS
  <1>1. CASE UNCHANGED pinvars
    BY <1>1 DEF pinvars, PInv, PinTypeOK, NoneBad, ModeInv, EarlierOutlivesLater, Live, Reached
  <1>2. CASE PinNext
    BY <1>2, PinOwner, PinElement, PinFieldDone, PinErr, PinOk, PinDrop, PinDone DEF PinNext
  <1> QED  BY <1>1, <1>2

\* PInv is an inductive invariant of in-place initialisation.
THEOREM PinInductive == PinSpec => []PInv
  BY PinInitOk, PinStep, PTL DEF PinSpec

\* For every struct, whatever fields fail and in whatever order they are
\* declared: what an initialiser did is undone exactly once and in order.
THEOREM InitIsExact == PinSpec => []InitInv
  <1>1. PInv => InitInv
    BY DEF PInv, NoneBad, ModeInv, PinTypeOK, InitInv, DropsExact, Live
  <1> QED  BY <1>1, PinInductive, PTL

-----------------------------------------------------------------------------
(* Files.                                                                  *)

FileInv == FileTypeOK /\ FilesInv /\ MmapInv

\* The entries of a table that refer to a file, counted.
Refs(D, f, x) == Cardinality({d \in D : f[d] = x})
Same(x, y) == IF x = y THEN 1 ELSE 0
In(x, m) == IF x \in m THEN 1 ELSE 0
SameBut(D, f, g, d) == \A e \in D \ {d} : g[e] = f[e]
Moved(D, f, g, d, x) == Refs(D, g, x) = Refs(D, f, x) + Same(g[d], x) - Same(f[d], x)

\* A change to one entry of a table changes the count by at most one.
LEMMA RefsUpdate ==
    ASSUME NEW D, IsFiniteSet(D), NEW f, NEW g, NEW d \in D, NEW x,
           SameBut(D, f, g, d)
    PROVE  /\ Refs(D, f, x) \in Nat /\ Refs(D, g, x) \in Nat
           /\ Refs(D, g, x) = Refs(D, f, x) + Same(g[d], x) - Same(f[d], x)
  <1> DEFINE S == {e \in D \ {d} : f[e] = x}
             F == {e \in D : f[e] = x}
             G == {e \in D : g[e] = x}
  <1>1. IsFiniteSet(S) /\ d \notin S /\ Cardinality(S) \in Nat
    BY FS_Subset, FS_CardinalityType
  <1>2. Cardinality(S \cup {d}) = Cardinality(S) + 1
    BY <1>1, FS_AddElement
  <1>3. /\ f[d] = x => F = S \cup {d}
        /\ f[d] # x => F = S
        /\ g[d] = x => G = S \cup {d}
        /\ g[d] # x => G = S
    BY DEF SameBut
  <1>4. Cardinality(F) = Cardinality(S) + Same(f[d], x)
    <2>1. CASE f[d] = x
      BY <2>1, <1>2, <1>3 DEF Same, In
    <2>2. CASE f[d] # x
      BY <2>2, <1>1, <1>3 DEF Same, In
    <2> QED  BY <2>1, <2>2
  <1>5. Cardinality(G) = Cardinality(S) + Same(g[d], x)
    <2>1. CASE g[d] = x
      BY <2>1, <1>2, <1>3 DEF Same, In
    <2>2. CASE g[d] # x
      BY <2>2, <1>1, <1>3 DEF Same, In
    <2> QED  BY <2>1, <2>2
  <1>6. Refs(D, f, x) = Cardinality(F) /\ Refs(D, g, x) = Cardinality(G)
    BY DEF Refs
  <1> HIDE DEF S, F, G
  <1> QED  BY <1>1, <1>4, <1>5, <1>6 DEF Same, In

LEMMA RefsType ==
    ASSUME NEW D, IsFiniteSet(D), NEW f, NEW x
    PROVE  Refs(D, f, x) \in Nat
  <1>1. IsFiniteSet({d \in D : f[d] = x})
    BY FS_Subset
  <1> QED  BY <1>1, FS_CardinalityType DEF Refs

LEMMA RefsPositive ==
    ASSUME NEW D, IsFiniteSet(D), NEW f, NEW d \in D
    PROVE  Refs(D, f, f[d]) >= 1
  <1>1. IsFiniteSet({e \in D : f[e] = f[d]}) /\ {e \in D : f[e] = f[d]} # {}
    BY FS_Subset
  <1>2. Cardinality({e \in D : f[e] = f[d]}) \in Nat /\ Cardinality({e \in D : f[e] = f[d]}) # 0
    BY <1>1, FS_CardinalityType, FS_EmptySet
  <1> QED  BY <1>2 DEF Refs

LEMMA Finite == IsFiniteSet(Files) /\ IsFiniteSet(Fds) /\ IsFiniteSet(ARefs) /\ IsFiniteSet(Callers)
  BY FileAssumption

LEMMA MappedCount == \A m, x : Cardinality({x} \cap m) = In(x, m)
  <1> TAKE m, x
  <1>1. CASE x \in m
    <2>1. {x} \cap m = {x}
      BY <1>1
    <2> QED  BY <1>1, <2>1, FS_Singleton DEF Same, In
  <1>2. CASE x \notin m
    <2>1. {x} \cap m = {}
      BY <1>2
    <2> QED  BY <1>2, <2>1, FS_EmptySet DEF Same, In
  <1> QED  BY <1>1, <1>2

LEMMA ReferencesAre ==
    \A x : References(x) = Refs(Fds, fdt, x) + Refs(ARefs, aref, x) + Refs(Callers, user, x)
                            + In(x, mapped)
  BY MappedCount DEF References, Refs

\* A file anything refers to is open and counted.
LEMMA Referred ==
    ASSUME FileInv, NEW x \in Files,
           \/ \E d \in Fds : fdt[d] = x
           \/ \E h \in ARefs : aref[h] = x
           \/ \E c \in Callers : user[c] = x
           \/ x \in mapped
    PROVE  fst[x] = "open" /\ fcount[x] >= 1
  <1>1. /\ fcount[x] = Refs(Fds, fdt, x) + Refs(ARefs, aref, x) + Refs(Callers, user, x)
                            + In(x, mapped)
        /\ fcount[x] > 0 => fst[x] = "open"
    BY ReferencesAre DEF FileInv, FilesInv, FileRefsExact
  <1>2. Refs(Fds, fdt, x) \in Nat /\ Refs(ARefs, aref, x) \in Nat /\ Refs(Callers, user, x) \in Nat
    BY RefsType, Finite
  <1>3. In(x, mapped) \in Nat /\ (x \in mapped => In(x, mapped) = 1)
    BY DEF Same, In
  <1>4. \/ Refs(Fds, fdt, x) >= 1 \/ Refs(ARefs, aref, x) >= 1 \/ Refs(Callers, user, x) >= 1
        \/ In(x, mapped) = 1
    BY RefsPositive, Finite, <1>3
  <1> QED  BY <1>1, <1>2, <1>3, <1>4

\* The same in a form the provers instantiate.
LEMMA RefsUpdates ==
    \A D, f, g, x : \A d \in D : IsFiniteSet(D) /\ SameBut(D, f, g, d) => Moved(D, f, g, d, x)
  BY RefsUpdate DEF Moved

LEMMA FdEntry ==
    ASSUME FileTypeOK, NEW d \in Fds, NEW v, fdt' = [fdt EXCEPT ![d] = v], NEW y
    PROVE  Refs(Fds, fdt', y) = Refs(Fds, fdt, y) + Same(v, y) - Same(fdt[d], y)
  <1>1. fdt'[d] = v /\ SameBut(Fds, fdt, fdt', d)
    BY DEF FileTypeOK, SameBut
  <1>2. Moved(Fds, fdt, fdt', d, y)
    BY <1>1, RefsUpdates, Finite, Zenon
  <1> QED  BY <1>1, <1>2 DEF Moved

LEMMA ARefEntry ==
    ASSUME FileTypeOK, NEW h \in ARefs, NEW v, aref' = [aref EXCEPT ![h] = v], NEW y
    PROVE  Refs(ARefs, aref', y) = Refs(ARefs, aref, y) + Same(v, y) - Same(aref[h], y)
  <1>1. aref'[h] = v /\ SameBut(ARefs, aref, aref', h)
    BY DEF FileTypeOK, SameBut
  <1>2. Moved(ARefs, aref, aref', h, y)
    BY <1>1, RefsUpdates, Finite, Zenon
  <1> QED  BY <1>1, <1>2 DEF Moved

LEMMA UserEntry ==
    ASSUME FileTypeOK, NEW c \in Callers, NEW v, user' = [user EXCEPT ![c] = v], NEW y
    PROVE  Refs(Callers, user', y) = Refs(Callers, user, y) + Same(v, y) - Same(user[c], y)
  <1>1. user'[c] = v /\ SameBut(Callers, user, user', c)
    BY DEF FileTypeOK, SameBut
  <1>2. Moved(Callers, user, user', c, y)
    BY <1>1, RefsUpdates, Finite, Zenon
  <1> QED  BY <1>1, <1>2 DEF Moved

LEMMA Sums ==
    ASSUME FileInv, NEW y \in Files
    PROVE  /\ fcount[y] = Refs(Fds, fdt, y) + Refs(ARefs, aref, y) + Refs(Callers, user, y)
                            + In(y, mapped)
           /\ (References(y))' = Refs(Fds, fdt', y) + Refs(ARefs, aref', y)
                            + Refs(Callers, user', y) + In(y, mapped')
           /\ Refs(Fds, fdt, y) \in Nat /\ Refs(ARefs, aref, y) \in Nat
           /\ Refs(Callers, user, y) \in Nat /\ In(y, mapped) \in Nat
  <1>1. References(y) = Refs(Fds, fdt, y) + Refs(ARefs, aref, y) + Refs(Callers, user, y)
                            + In(y, mapped)
    BY ReferencesAre
  <1>2. (References(y))' = Refs(Fds, fdt', y) + Refs(ARefs, aref', y) + Refs(Callers, user', y)
                            + In(y, mapped')
    BY MappedCount DEF References, Refs
  <1>3. fcount[y] = References(y)
    BY DEF FileInv, FilesInv, FileRefsExact
  <1>4. /\ Refs(Fds, fdt, y) \in Nat /\ Refs(ARefs, aref, y) \in Nat /\ Refs(Callers, user, y) \in Nat
        /\ In(y, mapped) \in Nat
    BY RefsType, Finite DEF In
  <1> QED  BY <1>1, <1>2, <1>3, <1>4

\* get_file on an open file, with an entry that now refers to it.
LEMMA Gets ==
    ASSUME FileInv, NEW x \in Files, GetFile(x), UNCHANGED mapped,
           \/ /\ \E d \in Fds : fdt[d] \notin Files /\ fdt' = [fdt EXCEPT ![d] = x]
              /\ UNCHANGED <<aref, user>>
           \/ /\ \E h \in ARefs : aref[h] \notin Files /\ aref' = [aref EXCEPT ![h] = x]
              /\ UNCHANGED <<fdt, user>>
           \/ /\ \E c \in Callers : user[c] \notin Files /\ user' = [user EXCEPT ![c] = x]
              /\ UNCHANGED <<fdt, aref>>
    PROVE  /\ fcount' \in [Files -> Nat]
           /\ \A y \in Files : /\ fcount'[y] = (References(y))'
                               /\ y # x => fcount'[y] = fcount[y]
  <1>0. FileTypeOK
    BY DEF FileInv
  <1>1. /\ fcount' \in [Files -> Nat]
        /\ \A y \in Files : fcount'[y] = fcount[y] + Same(x, y)
    BY <1>0 DEF GetFile, FileTypeOK, Same, In
  <1>2. ASSUME NEW y \in Files
        PROVE  fcount'[y] = (References(y))'
    <2>0. /\ Same(x, y) \in Nat /\ fcount[y] \in Int
          /\ fcount'[y] = fcount[y] + Same(x, y)
          /\ In(y, mapped') = In(y, mapped) + 0
          /\ \A z : z \notin Files => Same(z, y) = 0
      BY <1>0, <1>1, <1>2 DEF Same, In, FileTypeOK
    <2>t. /\ fcount[y] = Refs(Fds, fdt, y) + Refs(ARefs, aref, y) + Refs(Callers, user, y)
                            + In(y, mapped)
          /\ (References(y))' = Refs(Fds, fdt', y) + Refs(ARefs, aref', y)
                            + Refs(Callers, user', y) + In(y, mapped')
          /\ Refs(Fds, fdt, y) \in Nat /\ Refs(ARefs, aref, y) \in Nat
          /\ Refs(Callers, user, y) \in Nat /\ In(y, mapped) \in Nat
      BY Sums
    <2>1. CASE /\ \E d \in Fds : fdt[d] \notin Files /\ fdt' = [fdt EXCEPT ![d] = x]
               /\ UNCHANGED <<aref, user>>
      <3>0. PICK d \in Fds : fdt[d] \notin Files /\ fdt' = [fdt EXCEPT ![d] = x]
        BY <2>1
      <3>a. Refs(Fds, fdt', y) = Refs(Fds, fdt, y) + Same(x, y) - Same(fdt[d], y)
        BY <1>0, <3>0, FdEntry
      <3>1. Refs(Fds, fdt', y) = Refs(Fds, fdt, y) + Same(x, y)
        BY <2>0, <2>t, <3>0, <3>a
      <3>2. Refs(ARefs, aref', y) = Refs(ARefs, aref, y) + 0 /\ Refs(Callers, user', y) = Refs(Callers, user, y) + 0
        BY <2>1, <2>t
      <3>3. (References(y))' = Refs(Fds, fdt, y) + Refs(ARefs, aref, y)
                            + Refs(Callers, user, y) + In(y, mapped) + Same(x, y)
        BY <2>0, <3>1, <3>2, <2>t
      <3> QED  BY <2>0, <3>3, <2>t
    <2>2. CASE /\ \E h \in ARefs : aref[h] \notin Files /\ aref' = [aref EXCEPT ![h] = x]
               /\ UNCHANGED <<fdt, user>>
      <3>0. PICK h \in ARefs : aref[h] \notin Files /\ aref' = [aref EXCEPT ![h] = x]
        BY <2>2
      <3>a. Refs(ARefs, aref', y) = Refs(ARefs, aref, y) + Same(x, y) - Same(aref[h], y)
        BY <1>0, <3>0, ARefEntry
      <3>1. Refs(ARefs, aref', y) = Refs(ARefs, aref, y) + Same(x, y)
        BY <2>0, <2>t, <3>0, <3>a
      <3>2. Refs(Fds, fdt', y) = Refs(Fds, fdt, y) + 0 /\ Refs(Callers, user', y) = Refs(Callers, user, y) + 0
        BY <2>2, <2>t
      <3>3. (References(y))' = Refs(Fds, fdt, y) + Refs(ARefs, aref, y)
                            + Refs(Callers, user, y) + In(y, mapped) + Same(x, y)
        BY <2>0, <3>1, <3>2, <2>t
      <3> QED  BY <2>0, <3>3, <2>t
    <2>3. CASE /\ \E c \in Callers : user[c] \notin Files /\ user' = [user EXCEPT ![c] = x]
               /\ UNCHANGED <<fdt, aref>>
      <3>0. PICK c \in Callers : user[c] \notin Files /\ user' = [user EXCEPT ![c] = x]
        BY <2>3
      <3>a. Refs(Callers, user', y) = Refs(Callers, user, y) + Same(x, y) - Same(user[c], y)
        BY <1>0, <3>0, UserEntry
      <3>1. Refs(Callers, user', y) = Refs(Callers, user, y) + Same(x, y)
        BY <2>0, <2>t, <3>0, <3>a
      <3>2. Refs(Fds, fdt', y) = Refs(Fds, fdt, y) + 0 /\ Refs(ARefs, aref', y) = Refs(ARefs, aref, y) + 0
        BY <2>3, <2>t
      <3>3. (References(y))' = Refs(Fds, fdt, y) + Refs(ARefs, aref, y)
                            + Refs(Callers, user, y) + In(y, mapped) + Same(x, y)
        BY <2>0, <3>1, <3>2, <2>t
      <3> QED  BY <2>0, <3>3, <2>t
    <2> QED  BY <2>1, <2>2, <2>3
  <1>3. \A y \in Files : y # x => fcount'[y] = fcount[y]
    BY <1>0 DEF GetFile, FileTypeOK
  <1> QED  BY <1>1, <1>2, <1>3

\* fput, with an entry that no longer refers to the file.
LEMMA Puts ==
    ASSUME FileInv, NEW x \in Files, Fput(x),
           \/ /\ \E d \in Fds : fdt[d] = x /\ \E v : v \notin Files /\ fdt' = [fdt EXCEPT ![d] = v]
              /\ UNCHANGED <<aref, user, mapped>>
           \/ /\ \E h \in ARefs : aref[h] = x /\ aref' = [aref EXCEPT ![h] = NoFile]
              /\ UNCHANGED <<fdt, user, mapped>>
           \/ /\ \E c \in Callers : user[c] = x /\ user' = [user EXCEPT ![c] = NoFile]
              /\ UNCHANGED <<fdt, aref, mapped>>
           \/ /\ x \in mapped /\ mapped' = mapped \ {x}
              /\ UNCHANGED <<fdt, aref, user>>
    PROVE  /\ fcount' \in [Files -> Nat]
           /\ \A y \in Files : /\ fcount'[y] = (References(y))'
                               /\ fcount'[y] <= fcount[y]
  <1>0. FileTypeOK /\ NoFile \notin Files
    BY FileAssumption DEF FileInv
  <1>1. fst[x] = "open" /\ fcount[x] >= 1
    BY Referred
  <1>2. /\ fcount' \in [Files -> Nat]
        /\ \A y \in Files : fcount'[y] = fcount[y] - Same(x, y) /\ fcount'[y] <= fcount[y]
    BY <1>0, <1>1 DEF Fput, FileTypeOK, Same, In
  <1>3. ASSUME NEW y \in Files
        PROVE  fcount'[y] = (References(y))'
    <2>0. /\ -Same(x, y) \in Int /\ fcount[y] \in Int
          /\ fcount'[y] = fcount[y] + (-Same(x, y))
          /\ \A z : z \notin Files => Same(z, y) = 0
      BY <1>0, <1>2, <1>3 DEF Same, In, FileTypeOK
    <2>t. /\ fcount[y] = Refs(Fds, fdt, y) + Refs(ARefs, aref, y) + Refs(Callers, user, y)
                            + In(y, mapped)
          /\ (References(y))' = Refs(Fds, fdt', y) + Refs(ARefs, aref', y)
                            + Refs(Callers, user', y) + In(y, mapped')
          /\ Refs(Fds, fdt, y) \in Nat /\ Refs(ARefs, aref, y) \in Nat
          /\ Refs(Callers, user, y) \in Nat /\ In(y, mapped) \in Nat /\ Same(x, y) \in Nat
      BY Sums DEF Same
    <2>1. CASE /\ \E d \in Fds : fdt[d] = x /\ \E v : v \notin Files /\ fdt' = [fdt EXCEPT ![d] = v]
               /\ UNCHANGED <<aref, user, mapped>>
      <3>a. PICK d \in Fds : fdt[d] = x /\ \E v : v \notin Files /\ fdt' = [fdt EXCEPT ![d] = v]
        BY <2>1
      <3>b. PICK v : v \notin Files /\ fdt' = [fdt EXCEPT ![d] = v]
        BY <3>a
      <3>0. fdt[d] = x /\ v \notin Files /\ fdt' = [fdt EXCEPT ![d] = v]
        BY <3>a, <3>b
      <3>1. Refs(Fds, fdt', y) = Refs(Fds, fdt, y) + Same(v, y) - Same(fdt[d], y)
        BY <1>0, <3>0, FdEntry
      <3>2. Refs(Fds, fdt', y) = Refs(Fds, fdt, y) + (-Same(x, y))
        BY <2>0, <2>t, <3>0, <3>1
      <3>3. /\ Refs(ARefs, aref', y) = Refs(ARefs, aref, y) + 0
            /\ Refs(Callers, user', y) = Refs(Callers, user, y) + 0
            /\ In(y, mapped') = In(y, mapped) + 0
        BY <2>1, <2>t
      <3> QED  BY <2>0, <3>2, <3>3, <2>t
    <2>2. CASE /\ \E h \in ARefs : aref[h] = x /\ aref' = [aref EXCEPT ![h] = NoFile]
               /\ UNCHANGED <<fdt, user, mapped>>
      <3>0. PICK h \in ARefs : aref[h] = x /\ aref' = [aref EXCEPT ![h] = NoFile]
        BY <2>2
      <3>1. Refs(ARefs, aref', y) = Refs(ARefs, aref, y) + Same(NoFile, y) - Same(aref[h], y)
        BY <1>0, <3>0, ARefEntry
      <3>2. Refs(ARefs, aref', y) = Refs(ARefs, aref, y) + (-Same(x, y))
        BY <1>0, <2>0, <2>t, <3>0, <3>1
      <3>3. /\ Refs(Fds, fdt', y) = Refs(Fds, fdt, y) + 0
            /\ Refs(Callers, user', y) = Refs(Callers, user, y) + 0
            /\ In(y, mapped') = In(y, mapped) + 0
        BY <2>2, <2>t
      <3> QED  BY <2>0, <3>2, <3>3, <2>t
    <2>3. CASE /\ \E c \in Callers : user[c] = x /\ user' = [user EXCEPT ![c] = NoFile]
               /\ UNCHANGED <<fdt, aref, mapped>>
      <3>0. PICK c \in Callers : user[c] = x /\ user' = [user EXCEPT ![c] = NoFile]
        BY <2>3
      <3>1. Refs(Callers, user', y) = Refs(Callers, user, y) + Same(NoFile, y) - Same(user[c], y)
        BY <1>0, <3>0, UserEntry
      <3>2. Refs(Callers, user', y) = Refs(Callers, user, y) + (-Same(x, y))
        BY <1>0, <2>0, <2>t, <3>0, <3>1
      <3>3. /\ Refs(Fds, fdt', y) = Refs(Fds, fdt, y) + 0
            /\ Refs(ARefs, aref', y) = Refs(ARefs, aref, y) + 0
            /\ In(y, mapped') = In(y, mapped) + 0
        BY <2>3, <2>t
      <3> QED  BY <2>0, <3>2, <3>3, <2>t
    <2>4. CASE /\ x \in mapped /\ mapped' = mapped \ {x}
               /\ UNCHANGED <<fdt, aref, user>>
      <3>1. In(y, mapped') = In(y, mapped) + (-Same(x, y))
        BY <2>4 DEF Same, In
      <3>2. /\ Refs(Fds, fdt', y) = Refs(Fds, fdt, y) + 0
            /\ Refs(ARefs, aref', y) = Refs(ARefs, aref, y) + 0
            /\ Refs(Callers, user', y) = Refs(Callers, user, y) + 0
        BY <2>4, <2>t
      <3> QED  BY <2>0, <3>1, <3>2, <2>t
    <2> QED  BY <2>1, <2>2, <2>3, <2>4
  <1> QED  BY <1>2, <1>3

\* The steps of a file on its way from none to open and back, which no count
\* and no table sees.
LEMMA FileStates ==
    ASSUME FileInv, NEW x \in Files, OpenStart(x) \/ OpenFails(x) \/ FinalPut(x)
    PROVE  FileInv'
  <1>0. UNCHANGED <<fcount, fdt, aref, resv, user, inMmap, mapped>>
    BY DEF OpenStart, OpenFails, FinalPut
  <1>1. FileTypeOK'
    BY <1>0 DEF FileInv, FileTypeOK, OpenStart, OpenFails, FinalPut
  <1>2. fcount[x] = 0
    BY DEF FileInv, FileTypeOK, FilesInv, FileRefsExact, OpenStart, OpenFails, FinalPut
  <1>3. \A y \in Files : fcount'[y] = (References(y))'
    BY <1>0 DEF FileInv, FilesInv, FileRefsExact, References
  <1>4. \A y \in Files : fcount'[y] > 0 => fst'[y] = "open"
    <2>1. \A y \in Files \ {x} : fst'[y] = fst[y]
      BY DEF FileInv, FileTypeOK, OpenStart, OpenFails, FinalPut
    <2> QED  BY <1>0, <1>2, <2>1 DEF FileInv, FilesInv, FileRefsExact
  <1>5. ReservationExact' /\ MmapInv'
    BY <1>0 DEF FileInv, FilesInv, ReservationExact, MmapInv
  <1> QED  BY <1>1, <1>3, <1>4, <1>5 DEF FileInv, FilesInv, FileRefsExact

\* open returned: the new file has its descriptor.
LEMMA FileOpens ==
    ASSUME FileInv, NEW x \in Files, NEW d \in Fds, OpenReturns(x, d)
    PROVE  FileInv'
  <1>0. FileTypeOK /\ fdt[d] \notin Files /\ fdt[d] = "free"
    BY FileAssumption DEF FileInv, OpenReturns
  <1>1. /\ fcount' \in [Files -> Nat]
        /\ \A y \in Files : fcount'[y] = (References(y))' /\ (y # x => fcount'[y] = fcount[y])
    BY <1>0, Gets DEF OpenReturns
  <1>2. FileTypeOK'
    BY <1>0, <1>1 DEF FileTypeOK, OpenReturns
  <1>3. fst' = [fst EXCEPT ![x] = "open"]
    BY DEF OpenReturns
  <1>4. \A y \in Files : fcount'[y] > 0 => fst'[y] = "open"
    BY <1>0, <1>1, <1>3 DEF FileInv, FileTypeOK, FilesInv, FileRefsExact
  <1>5. ReservationExact'
    BY <1>0, FileAssumption DEF FileInv, FileTypeOK, FilesInv, ReservationExact, OpenReturns
  <1>6. MmapInv'
    BY DEF FileInv, MmapInv, OpenReturns
  <1> QED  BY <1>1, <1>2, <1>4, <1>5, <1>6 DEF FileInv, FilesInv, FileRefsExact

\* A reference taken of a file that something else refers to.
LEMMA FileGets ==
    ASSUME FileInv,
           \/ \E c \in Callers, d \in Fds, m \in BOOLEAN : EnterOp(c, d, m)
           \/ \E h \in ARefs, d \in Fds : Fget(h, d)
           \/ \E h \in ARefs, c \in Callers : ARefFrom(h, c)
           \/ \E h, g \in ARefs : ARefClone(h, g)
    PROVE  FileInv' /\ UNCHANGED fst
  <1>0. FileTypeOK /\ NoFile \notin Files
    BY FileAssumption DEF FileInv
  <1>1. PICK x \in Files :
            /\ GetFile(x) /\ fst[x] = "open"
            /\ \/ /\ \E h \in ARefs : aref[h] \notin Files /\ aref' = [aref EXCEPT ![h] = x]
                  /\ UNCHANGED <<fdt, user, inMmap>>
               \/ /\ \E c \in Callers :
                        /\ user[c] \notin Files /\ user' = [user EXCEPT ![c] = x]
                        /\ inMmap' = inMmap \/ inMmap' = inMmap \cup {c}
                  /\ UNCHANGED <<fdt, aref>>
            /\ UNCHANGED <<fst, resv, mapped>>
    <2>1. CASE \E c \in Callers, d \in Fds, m \in BOOLEAN : EnterOp(c, d, m)
      <3>1. PICK c \in Callers, d \in Fds, m \in BOOLEAN : EnterOp(c, d, m)
        BY <2>1
      <3>2. fdt[d] \in Files /\ fst[fdt[d]] = "open"
        BY <3>1, Referred DEF EnterOp
      <3>3. inMmap' = inMmap \/ inMmap' = inMmap \cup {c}
        BY <3>1 DEF EnterOp
      <3> QED  BY <1>0, <3>1, <3>2, <3>3 DEF EnterOp
    <2>2. CASE \E h \in ARefs, d \in Fds : Fget(h, d)
      <3>1. PICK h \in ARefs, d \in Fds : Fget(h, d)
        BY <2>2
      <3>2. fdt[d] \in Files /\ fst[fdt[d]] = "open"
        BY <3>1, Referred DEF Fget
      <3> QED  BY <1>0, <3>1, <3>2 DEF Fget
    <2>3. CASE \E h \in ARefs, c \in Callers : ARefFrom(h, c)
      <3>1. PICK h \in ARefs, c \in Callers : ARefFrom(h, c)
        BY <2>3
      <3>2. user[c] \in Files
        BY <1>0, <3>1 DEF ARefFrom, FileTypeOK
      <3>3. fst[user[c]] = "open"
        BY <3>2, Referred
      <3> QED  BY <1>0, <3>1, <3>2, <3>3 DEF ARefFrom
    <2>4. CASE \E h, g \in ARefs : ARefClone(h, g)
      <3>1. PICK h \in ARefs, g \in ARefs : ARefClone(h, g)
        BY <2>4
      <3>2. aref[h] \in Files
        BY <1>0, <3>1 DEF ARefClone, FileTypeOK
      <3>3. fst[aref[h]] = "open"
        BY <3>2, Referred
      <3> QED  BY <1>0, <3>1, <3>2, <3>3 DEF ARefClone
    <2> QED  BY <2>1, <2>2, <2>3, <2>4
  <1>2. /\ fcount' \in [Files -> Nat]
        /\ \A y \in Files : fcount'[y] = (References(y))' /\ (y # x => fcount'[y] = fcount[y])
    BY <1>1, Gets
  <1>3. FileTypeOK'
    BY <1>0, <1>1, <1>2 DEF FileTypeOK
  <1>4. \A y \in Files : fcount'[y] > 0 => fst'[y] = "open"
    BY <1>1, <1>2 DEF FileInv, FilesInv, FileRefsExact
  <1>5. ReservationExact'
    BY <1>1 DEF FileInv, FilesInv, ReservationExact
  <1>6. MmapInv'
    BY <1>0, <1>1 DEF FileInv, FileTypeOK, MmapInv
  <1> QED  BY <1>1, <1>2, <1>3, <1>4, <1>5, <1>6 DEF FileInv, FilesInv, FileRefsExact

\* A reference given back.
LEMMA FilePuts ==
    ASSUME FileInv,
           \/ \E d \in Fds : CloseFd(d)
           \/ \E c \in Callers : LeaveOp(c)
           \/ \E x \in Files : Munmap(x)
           \/ \E h \in ARefs : ARefDrop(h)
    PROVE  FileInv' /\ UNCHANGED fst
  <1>0. FileTypeOK /\ NoFile \notin Files
    BY FileAssumption DEF FileInv
  <1>1. /\ \E x \in Files :
            /\ Fput(x)
            /\ \/ /\ \E d \in Fds : fdt[d] = x /\ \E v : v \notin Files /\ fdt' = [fdt EXCEPT ![d] = v]
                  /\ UNCHANGED <<aref, user, mapped>>
               \/ /\ \E h \in ARefs : aref[h] = x /\ aref' = [aref EXCEPT ![h] = NoFile]
                  /\ UNCHANGED <<fdt, user, mapped>>
               \/ /\ \E c \in Callers : user[c] = x /\ user' = [user EXCEPT ![c] = NoFile]
                  /\ UNCHANGED <<fdt, aref, mapped>>
               \/ /\ x \in mapped /\ mapped' = mapped \ {x}
                  /\ UNCHANGED <<fdt, aref, user>>
        /\ UNCHANGED <<fst, resv>>
        /\ fdt' = fdt \/ \E d \in Fds : fdt[d] \in Files /\ fdt' = [fdt EXCEPT ![d] = "free"]
        /\ fdt' \in [Fds -> Files \cup {"free", "reserved"}]
        /\ aref' \in [ARefs -> Files \cup {NoFile}]
        /\ user' \in [Callers -> Files \cup {NoFile}]
        /\ inMmap' \in SUBSET Callers /\ mapped' \in SUBSET Files
        /\ \A c \in inMmap' : c \in inMmap /\ user'[c] = user[c]
    <2>1. CASE \E d \in Fds : CloseFd(d)
      <3>1. "free" \notin Files
        BY FileAssumption
      <3> QED  BY <1>0, <2>1, <3>1 DEF CloseFd, FileTypeOK
    <2>2. CASE \E c \in Callers : LeaveOp(c)
      BY <1>0, <2>2 DEF LeaveOp, FileTypeOK
    <2>3. CASE \E x \in Files : Munmap(x)
      BY <1>0, <2>3 DEF Munmap, FileTypeOK
    <2>4. CASE \E h \in ARefs : ARefDrop(h)
      BY <1>0, <2>4 DEF ARefDrop, FileTypeOK
    <2> QED  BY <2>1, <2>2, <2>3, <2>4
  <1>2. /\ fcount' \in [Files -> Nat]
        /\ \A y \in Files : fcount'[y] = (References(y))' /\ fcount'[y] <= fcount[y]
    BY <1>1, Puts
  <1>3. FileTypeOK'
    BY <1>0, <1>1, <1>2 DEF FileTypeOK
  <1>4. \A y \in Files : fcount'[y] > 0 => fst'[y] = "open"
    <2>1. \A y \in Files : fcount[y] \in Nat /\ fcount'[y] \in Nat
      BY <1>0, <1>2 DEF FileTypeOK
    <2> QED  BY <1>1, <1>2, <2>1 DEF FileInv, FilesInv, FileRefsExact
  <1>5. ReservationExact'
    <2>1. \A d \in Fds : fdt'[d] = "reserved" <=> fdt[d] = "reserved"
      BY <1>0, <1>1, FileAssumption DEF FileTypeOK
    <2> QED  BY <1>1, <2>1 DEF FileInv, FilesInv, ReservationExact
  <1>6. MmapInv'
    BY <1>1 DEF FileInv, MmapInv
  <1> QED  BY <1>1, <1>2, <1>3, <1>4, <1>5, <1>6 DEF FileInv, FilesInv, FileRefsExact

\* A reference that changes hands: an mmap that succeeds gives the reference of
\* the system call to the area, fd_install that of the ARef to the descriptor.
LEMMA FileHandsOver ==
    ASSUME FileInv, (\E c \in Callers : LeaveMmap(c)) \/ (\E h \in ARefs : FdInstall(h))
    PROVE  FileInv' /\ UNCHANGED fst
  <1>0. FileTypeOK /\ NoFile \notin Files /\ UNCHANGED <<fst, fcount>>
    BY FileAssumption DEF FileInv, LeaveMmap, FdInstall
  <1>1. CASE \E c \in Callers : LeaveMmap(c)
    <2>1. PICK c \in Callers : LeaveMmap(c)
      BY <1>1
    <2>2. user[c] \in Files /\ user[c] \notin mapped
      BY <1>0, <2>1 DEF FileInv, FileTypeOK, MmapInv, LeaveMmap
    <2>3. FileTypeOK' /\ MmapInv' /\ ReservationExact'
      BY <1>0, <2>1, <2>2 DEF FileInv, FileTypeOK, FilesInv, MmapInv, ReservationExact, LeaveMmap
    <2>4. ASSUME NEW y \in Files
          PROVE  fcount'[y] = (References(y))'
      <3>1. /\ fcount[y] = Refs(Fds, fdt, y) + Refs(ARefs, aref, y) + Refs(Callers, user, y)
                            + In(y, mapped)
            /\ (References(y))' = Refs(Fds, fdt', y) + Refs(ARefs, aref', y)
                            + Refs(Callers, user', y) + In(y, mapped')
            /\ Refs(Fds, fdt, y) \in Nat /\ Refs(ARefs, aref, y) \in Nat
            /\ Refs(Callers, user, y) \in Nat /\ In(y, mapped) \in Nat
        BY Sums
      <3>2. Refs(Callers, user', y) = Refs(Callers, user, y) + Same(NoFile, y) - Same(user[c], y)
        BY <1>0, <2>1, UserEntry DEF LeaveMmap
      <3>3. Same(NoFile, y) = 0 /\ Same(user[c], y) \in Nat
        BY <1>0, <2>4 DEF Same
      <3>4. In(y, mapped') = In(y, mapped) + Same(user[c], y)
        BY <2>1, <2>2 DEF LeaveMmap, In, Same
      <3>5. Refs(Fds, fdt', y) = Refs(Fds, fdt, y) /\ Refs(ARefs, aref', y) = Refs(ARefs, aref, y)
        BY <2>1 DEF LeaveMmap
      <3>6. (References(y))' = fcount[y]
        BY <3>1, <3>2, <3>3, <3>4, <3>5
      <3> QED  BY <1>0, <3>6
    <2>5. \A y \in Files : fcount'[y] > 0 => fst'[y] = "open"
      BY <1>0 DEF FileInv, FilesInv, FileRefsExact
    <2> QED  BY <1>0, <2>3, <2>4, <2>5 DEF FileInv, FilesInv, FileRefsExact
  <1>2. CASE \E h \in ARefs : FdInstall(h)
    <2>1. PICK h \in ARefs : FdInstall(h)
      BY <1>2
    <2>2. aref[h] \in Files /\ resv \in Fds /\ fdt[resv] = "reserved" /\ "reserved" \notin Files
      BY <1>0, <2>1, FileAssumption DEF FileInv, FilesInv, ReservationExact, FileTypeOK, FdInstall
    <2>3. FileTypeOK' /\ MmapInv'
      BY <1>0, <2>1, <2>2 DEF FileInv, FileTypeOK, MmapInv, FdInstall
    <2>4. ReservationExact'
      <3>1. \A d \in Fds : fdt'[d] # "reserved"
        BY <1>0, <2>1, <2>2 DEF FileInv, FilesInv, ReservationExact, FileTypeOK, FdInstall
      <3>2. resv' \notin Fds
        BY <2>1, FileAssumption DEF FdInstall
      <3> QED  BY <3>1, <3>2 DEF ReservationExact
    <2>5. ASSUME NEW y \in Files
          PROVE  fcount'[y] = (References(y))'
      <3>1. /\ fcount[y] = Refs(Fds, fdt, y) + Refs(ARefs, aref, y) + Refs(Callers, user, y)
                            + In(y, mapped)
            /\ (References(y))' = Refs(Fds, fdt', y) + Refs(ARefs, aref', y)
                            + Refs(Callers, user', y) + In(y, mapped')
            /\ Refs(Fds, fdt, y) \in Nat /\ Refs(ARefs, aref, y) \in Nat
            /\ Refs(Callers, user, y) \in Nat /\ In(y, mapped) \in Nat
        BY Sums
      <3>2. Refs(ARefs, aref', y) = Refs(ARefs, aref, y) + Same(NoFile, y) - Same(aref[h], y)
        <4>1. aref' = [aref EXCEPT ![h] = NoFile]
          BY <2>1 DEF FdInstall
        <4> QED  BY <1>0, <4>1, ARefEntry
      <3>3. Refs(Fds, fdt', y) = Refs(Fds, fdt, y) + Same(aref[h], y) - Same(fdt[resv], y)
        <4>1. fdt' = [fdt EXCEPT ![resv] = aref[h]]
          BY <2>1 DEF FdInstall
        <4> QED  BY <1>0, <2>2, <4>1, FdEntry
      <3>4. Same(NoFile, y) = 0 /\ Same(aref[h], y) \in Nat /\ Same(fdt[resv], y) = 0
        BY <1>0, <2>2, <2>5 DEF Same
      <3>5. Refs(Callers, user', y) = Refs(Callers, user, y) /\ In(y, mapped') = In(y, mapped)
        BY <2>1 DEF FdInstall
      <3>6. (References(y))' = fcount[y]
        BY <3>1, <3>2, <3>3, <3>4, <3>5
      <3> QED  BY <1>0, <3>6
    <2>6. \A y \in Files : fcount'[y] > 0 => fst'[y] = "open"
      BY <1>0 DEF FileInv, FilesInv, FileRefsExact
    <2> QED  BY <1>0, <2>3, <2>4, <2>5, <2>6 DEF FileInv, FilesInv, FileRefsExact
  <1> QED  BY <1>1, <1>2

\* A descriptor reserved or given up refers to no file before or after.
LEMMA FileReserves ==
    ASSUME FileInv, (\E d \in Fds : GetUnusedFd(d)) \/ PutUnusedFd
    PROVE  FileInv' /\ UNCHANGED fst
  <1>0. /\ FileTypeOK /\ NoFile \notin Files /\ NoFd \notin Fds
        /\ "free" \notin Files /\ "reserved" \notin Files
        /\ UNCHANGED <<fst, fcount, aref, user, inMmap, mapped>>
    BY FileAssumption DEF FileInv, GetUnusedFd, PutUnusedFd
  <1>1. PICK d \in Fds, v \in {"free", "reserved"} :
            /\ fdt[d] \in {"free", "reserved"} /\ fdt' = [fdt EXCEPT ![d] = v]
            /\ \/ v = "reserved" /\ resv = NoFd /\ resv' = d
               \/ v = "free" /\ resv = d /\ resv' = NoFd
    <2>1. CASE \E d \in Fds : GetUnusedFd(d)
      BY <2>1 DEF GetUnusedFd
    <2>2. CASE PutUnusedFd
      <3>1. resv \in Fds /\ fdt[resv] = "reserved"
        BY <2>2, <1>0 DEF PutUnusedFd, FileInv, FileTypeOK, FilesInv, ReservationExact
      <3> QED  BY <2>2, <3>1 DEF PutUnusedFd
    <2> QED  BY <2>1, <2>2
  <1>2. FileTypeOK' /\ MmapInv'
    BY <1>0, <1>1 DEF FileInv, FileTypeOK, MmapInv
  <1>3. ReservationExact'
    BY <1>0, <1>1 DEF FileInv, FileTypeOK, FilesInv, ReservationExact
  <1>4. ASSUME NEW y \in Files
        PROVE  fcount'[y] = (References(y))'
    <2>1. {e \in Fds : fdt'[e] = y} = {e \in Fds : fdt[e] = y}
      BY <1>0, <1>1 DEF FileTypeOK
    <2> QED  BY <1>0, <2>1 DEF FileInv, FilesInv, FileRefsExact, References
  <1>5. \A y \in Files : fcount'[y] > 0 => fst'[y] = "open"
    BY <1>0 DEF FileInv, FilesInv, FileRefsExact
  <1> QED  BY <1>0, <1>2, <1>3, <1>4, <1>5 DEF FileInv, FilesInv, FileRefsExact

-----------------------------------------------------------------------------
(* The steps of the driver.                                                *)

\* The steps that concern files, none of which opens or closes.
FilesStayOpen ==
    \/ \E c \in Callers, d \in Fds : Mmap(c, d) \/ \E op \in FopsTable : Callback(c, d, op)
    \/ \E c \in Callers : OpReturns(c)
    \/ FileStep

LEMMA FilesStayOpenStep ==
    ASSUME FileInv, FilesStayOpen
    PROVE  FileInv' /\ UNCHANGED fst /\ UNCHANGED pinvars /\ UNCHANGED miscvars
  <1>1. UNCHANGED pinvars /\ UNCHANGED miscvars
    BY DEF FilesStayOpen, Mmap, Callback, OpReturns, FileStep
  <1>2. \/ \E c \in Callers, d \in Fds, m \in BOOLEAN : EnterOp(c, d, m)
        \/ \E c \in Callers : LeaveOp(c) \/ LeaveMmap(c)
        \/ DriverFileStep \/ (\E d \in Fds : CloseFd(d)) \/ (\E x \in Files : Munmap(x))
    BY DEF FilesStayOpen, Mmap, Callback, OpReturns, FileStep
  <1>3. FileInv' /\ UNCHANGED fst
    BY <1>2, FileGets, FilePuts, FileHandsOver, FileReserves DEF DriverFileStep
  <1> QED  BY <1>1, <1>3

\* Every step of the driver initialises or drops a step further, or leaves the
\* value alone.
LEMMA DriverPins == [MiscNext]_allvars => [PinNext]_pinvars
  <1> SUFFICES ASSUME [MiscNext]_allvars
               PROVE  [PinNext]_pinvars
    OBVIOUS
  <1>1. CASE UNCHANGED allvars
    BY <1>1 DEF allvars
  <1>2. CASE IntoRaw \/ MiscRegister \/ MiscDeregister
    BY <1>2 DEF IntoRaw, MiscRegister, MiscDeregister
  <1>3. CASE RegWrite \/ RegErr
    BY <1>3 DEF RegWrite, RegErr, PinNext
  <1>4. CASE MiscFree
    BY <1>4, RegIsElement DEF MiscFree, PinNext
  <1>5. CASE OtherFieldStep \/ OwnerStep
    BY <1>5 DEF OtherFieldStep, OwnerStep, PinNext
  <1>6. CASE \E x \in Files : \/ MiscOpen(x) \/ OpenReads(x) \/ OpenErr(x) \/ Release(x)
                              \/ \E d \in Fds : OpenOk(x, d)
    BY <1>6 DEF MiscOpen, OpenReads, OpenErr, Release, OpenOk
  <1>7. CASE FilesStayOpen
    BY <1>7 DEF FilesStayOpen, Mmap, Callback, OpReturns, FileStep
  <1>8. CASE Refuse \/ Accept
    BY <1>8 DEF Refuse, Accept
  <1> QED  BY <1>1, <1>2, <1>3, <1>4, <1>5, <1>6, <1>7, <1>8 DEF MiscNext, FilesStayOpen

\* What an initialiser of the driver's value did is undone exactly once.
THEOREM DriverInitIsExact == MiscSpec => []InitInv
  <1>1. MiscInit => PinInitState
    BY DEF MiscInit
  <1>2. MiscSpec => PinSpec
    BY <1>1, DriverPins, PTL DEF MiscSpec, PinSpec
  <1> QED  BY <1>2, InitIsExact, PTL

\* The steps of an open or a release, and the steps of the value's owner.
FileOpenStep ==
    \E x \in Files : \/ MiscOpen(x) \/ OpenReads(x) \/ OpenErr(x) \/ Release(x)
                     \/ \E d \in Fds : OpenOk(x, d)
ValueStep ==
    \/ IntoRaw \/ MiscRegister \/ RegWrite \/ RegErr
    \/ MiscDeregister \/ MiscFree \/ OtherFieldStep \/ OwnerStep

LEMMA NextIs == MiscNext <=> ValueStep \/ FileOpenStep \/ FilesStayOpen \/ Refuse \/ Accept
  BY DEF MiscNext, ValueStep, FileOpenStep, FilesStayOpen

\* What T::open refuses is the driver's own state.
LEMMA ChoiceStep ==
    ASSUME Refuse \/ Accept
    PROVE  /\ UNCHANGED <<pinvars, filevars, priv, listed, opener, box, stale, sawRaw>>
           /\ refusing' \in BOOLEAN
  BY DEF Refuse, Accept

LEMMA ValueFiles == ASSUME ValueStep PROVE UNCHANGED filevars
  BY DEF ValueStep, IntoRaw, MiscRegister, RegWrite, RegErr, MiscDeregister, MiscFree,
         OtherFieldStep, OwnerStep

LEMMA FileInitOk == MiscInit => FileInv
  <1> HAVE MiscInit
  <1>1. FileTypeOK /\ MmapInv
    BY DEF MiscInit, FileInit, FileTypeOK, MmapInv
  <1>2. ReservationExact
    BY FileAssumption DEF MiscInit, FileInit, ReservationExact
  <1>3. ASSUME NEW x \in Files
        PROVE  fcount[x] = References(x) /\ fcount[x] = 0
    <2>1. /\ {d \in Fds : fdt[d] = x} = {} /\ {h \in ARefs : aref[h] = x} = {}
          /\ {c \in Callers : user[c] = x} = {} /\ {x} \cap mapped = {}
      BY FileAssumption DEF MiscInit, FileInit
    <2> QED  BY <2>1, FS_EmptySet DEF References, MiscInit, FileInit
  <1> QED  BY <1>1, <1>2, <1>3 DEF FileInv, FilesInv, FileRefsExact

LEMMA FileStutter == FileInv /\ UNCHANGED filevars => FileInv'
  <1> SUFFICES ASSUME FileInv, UNCHANGED filevars
               PROVE  FileInv'
    OBVIOUS
  <1>1. UNCHANGED <<fst, fcount, fdt, aref, resv, user, inMmap, mapped>>
    BY DEF filevars
  <1>2. FileTypeOK' /\ MmapInv' /\ ReservationExact'
    BY <1>1 DEF FileInv, FileTypeOK, FilesInv, ReservationExact, MmapInv
  <1>3. FileRefsExact'
    BY <1>1 DEF FileInv, FilesInv, FileRefsExact, References
  <1> QED  BY <1>2, <1>3 DEF FileInv, FilesInv

LEMMA FileOpenFiles ==
    ASSUME FileInv, FileOpenStep
    PROVE  FileInv' /\ UNCHANGED pinvars /\ UNCHANGED priv /\ UNCHANGED listed
  <1>1. UNCHANGED pinvars /\ UNCHANGED priv /\ UNCHANGED listed
    BY DEF FileOpenStep, MiscOpen, OpenReads, OpenErr, Release, OpenOk
  <1>2. \/ \E x \in Files : \/ OpenStart(x) \/ OpenFails(x) \/ FinalPut(x)
                            \/ \E d \in Fds : OpenReturns(x, d)
        \/ UNCHANGED filevars
    BY DEF FileOpenStep, MiscOpen, OpenReads, OpenErr, Release, OpenOk
  <1>3. CASE UNCHANGED filevars
    BY <1>1, <1>3, FileStutter
  <1> QED  BY <1>1, <1>2, <1>3, FileStates, FileOpens

LEMMA FileInvStep == FileInv /\ [MiscNext]_allvars => FileInv'
  <1> SUFFICES ASSUME FileInv, [MiscNext]_allvars
               PROVE  FileInv'
    OBVIOUS
  <1>1. CASE UNCHANGED filevars
    BY <1>1, FileStutter
  <1>2. CASE UNCHANGED allvars
    BY <1>1, <1>2 DEF allvars
  <1>3. CASE MiscNext
    BY <1>1, <1>3, NextIs, ValueFiles, FileOpenFiles, FilesStayOpenStep, ChoiceStep
  <1> QED  BY <1>2, <1>3

\* For any number of files, descriptors, ARefs and system calls: f_count is
\* exact, no referenced file was released and no reservation is lost.
THEOREM FilesAreExact == MiscSpec => []FilesInv
  <1>1. FileInv => FilesInv
    BY DEF FileInv
  <1> QED  BY <1>1, FileInitOk, FileInvStep, PTL DEF MiscSpec

-----------------------------------------------------------------------------
(* The device.                                                             *)

DeviceTypeOK ==
    /\ priv \in {"none", "live", "bad"}
    /\ listed \in BOOLEAN
    /\ opener \in Files \cup {NoFile}
    /\ box \in [Files -> {"none", "live", "bad"}]
    /\ stale \in SUBSET Files
    /\ sawRaw \in SUBSET Files
    /\ refusing \in BOOLEAN

\* What each file of the device has.
BoxInv == DeviceTypeOK /\ PrivateExact

LEMMA BoxStep == BoxInv /\ FileInv /\ [MiscNext]_allvars => BoxInv'
  <1> SUFFICES ASSUME BoxInv, FileInv, [MiscNext]_allvars
               PROVE  BoxInv'
    OBVIOUS
  <1> USE DEF BoxInv, DeviceTypeOK, PrivateExact
  <1>0. fst \in [Files -> {"none", "opening", "open"}]
    BY DEF FileInv, FileTypeOK
  <1>1. CASE UNCHANGED allvars
    BY <1>1 DEF allvars, filevars, miscvars
  <1>2. CASE FilesStayOpen
    <2>1. UNCHANGED fst /\ UNCHANGED miscvars
      BY <1>2, FilesStayOpenStep
    <2> QED  BY <2>1 DEF miscvars
  <1>3. CASE ValueStep
    <2>1. UNCHANGED fst /\ UNCHANGED <<opener, box, sawRaw, refusing>>
      BY <1>3 DEF ValueStep, IntoRaw, MiscRegister, RegWrite, RegErr, MiscDeregister, MiscFree,
                  OtherFieldStep, OwnerStep, miscvars, filevars
    <2>2. /\ priv' \in {"none", "live", "bad"} /\ listed' \in BOOLEAN
          /\ stale' \in SUBSET Files
      BY <1>3 DEF ValueStep, IntoRaw, MiscRegister, RegWrite, RegErr, MiscDeregister, MiscFree,
                  OtherFieldStep, OwnerStep, miscvars
    <2> QED  BY <2>1, <2>2
  <1>4. ASSUME NEW x \in Files, MiscOpen(x)
        PROVE  BoxInv'
    BY <1>0, <1>4 DEF MiscOpen, OpenStart
  <1>5. ASSUME NEW x \in Files, OpenReads(x)
        PROVE  BoxInv'
    <2>1. UNCHANGED <<fst, priv, listed, opener, box, stale, refusing>> /\ sawRaw' \in SUBSET Files
      BY <1>5 DEF OpenReads, filevars
    <2> QED  BY <2>1
  <1>6. ASSUME NEW x \in Files, OpenErr(x)
        PROVE  BoxInv'
    BY <1>0, <1>6 DEF OpenErr, OpenFails
  <1>7. ASSUME NEW x \in Files, NEW d \in Fds, OpenOk(x, d)
        PROVE  BoxInv'
    BY <1>0, <1>7 DEF OpenOk, OpenReturns
  <1>8. ASSUME NEW x \in Files, Release(x)
        PROVE  BoxInv'
    BY <1>0, <1>8 DEF Release, FinalPut
  <1>9. CASE Refuse \/ Accept
    BY <1>9, ChoiceStep DEF filevars
  <1> QED  BY <1>1, <1>2, <1>3, <1>4, <1>5, <1>6, <1>7, <1>8, <1>9, NextIs DEF FileOpenStep

\* misc_deregister is resolved: without it a registration is never undone.
Undone == "misc_deregister" \in Resolved

DevInv == PInv /\ FileInv /\ BoxInv /\ RegInv

\* Where the registration is in its life, in terms of the value's.
LEMMA RegPlace ==
    ASSUME PInv
    PROVE  /\ cell[Reg] \in {"raw", "live"}
           /\ RegTurn => cell[Reg] = "raw" /\ place = "uninit"
           /\ mode = "run" /\ at # RegField => (cell[Reg] = "live" <=> RegField < at)
           /\ mode = "run" /\ at = RegField => (cell[Reg] = "live" <=> count >= 1)
           /\ mode = "idle" => (cell[Reg] = "live" <=> place \in {"value", "foreign"})
           /\ cell[Reg] = "live" => place # "none"
           /\ RegDropTurn => cell[Reg] = "live" /\ mode \in {"unwind", "drop"}
  <1>0. Reg \in Elements /\ Reg[1] = RegField /\ Reg[2] = 1 /\ RegField \in 1..N
    BY RegIsElement DEF Reg
  <1>1. cell[Reg] \in {"raw", "live"}
    BY <1>0 DEF PInv, PinTypeOK, NoneBad
  <1>2. at \in Int /\ count \in Nat /\ RegField \in Int
    BY <1>0, LensType DEF PInv, PinTypeOK
  <1>3. mode = "run" => (cell[Reg] = "live" <=> RegField < at \/ (RegField = at /\ 1 <= count))
    BY <1>0 DEF PInv, ModeInv, Reached
  <1>4. RegTurn => cell[Reg] = "raw" /\ place = "uninit"
    BY <1>1, <1>2, <1>3 DEF RegTurn, PInv, ModeInv
  <1>5. mode = "run" /\ at # RegField => (cell[Reg] = "live" <=> RegField < at)
    BY <1>2, <1>3
  <1>6. mode = "run" /\ at = RegField => (cell[Reg] = "live" <=> count >= 1)
    BY <1>2, <1>3
  <1>7. mode = "idle" => (cell[Reg] = "live" <=> place \in {"value", "foreign"})
    BY <1>0 DEF PInv, ModeInv
  <1>8. cell[Reg] = "live" => place # "none"
    BY <1>7 DEF PInv, PinTypeOK, ModeInv
  <1>9. RegDropTurn => cell[Reg] = "live" /\ mode \in {"unwind", "drop"}
    BY DropsLive DEF RegDropTurn
  <1> QED  BY <1>1, <1>4, <1>5, <1>6, <1>7, <1>8, <1>9

\* Steps of the other fields neither touch the registration nor take its turn.
LEMMA OtherFieldReg ==
    ASSUME PInv, OtherFieldStep
    PROVE  /\ cell'[Reg] = cell[Reg]
           /\ UNCHANGED miscvars /\ UNCHANGED filevars
           /\ RegTurn => RegTurn'
           /\ RegDropTurn => RegDropTurn'
  <1>0. Reg \in Elements /\ Reg[1] = RegField /\ RegField \in 1..N /\ Lens[RegField] = 1
    BY RegIsElement DEF Reg
  <1>1. UNCHANGED miscvars /\ UNCHANGED filevars
    BY DEF OtherFieldStep
  <1>2. CASE at # RegField /\ InitElement
    <2>1. <<at, count + 1>> # Reg
      BY <1>2 DEF Reg
    <2>2. cell'[Reg] = cell[Reg]
      BY <1>0, <1>2, <2>1 DEF InitElement, Written, PInv, PinTypeOK
    <2>3. ~RegTurn /\ ~RegDropTurn
      BY <1>2, DropsLive DEF RegTurn, RegDropTurn, InitElement
    <2> QED  BY <1>1, <2>2, <2>3
  <1>3. CASE at # RegField /\ (InitErr \/ ChainErr)
    <2>1. ~RegTurn /\ ~RegDropTurn
      BY <1>3, DropsLive DEF RegTurn, RegDropTurn, InitErr, ChainErr
    <2>2. cell' = cell
      BY <1>3 DEF InitErr, ChainErr
    <2> QED  BY <1>1, <2>1, <2>2
  <1>4. CASE StartInit \/ InitOk
    <2>1. ~RegTurn
      BY <1>0, <1>4, LensType DEF RegTurn, StartInit, InitOk
    <2>2. ~RegDropTurn
      BY <1>4, DropsLive DEF RegDropTurn, StartInit, InitOk
    <2>3. cell' = cell
      BY <1>4 DEF StartInit, InitOk
    <2> QED  BY <1>1, <2>1, <2>2, <2>3
  <1>5. CASE FieldDone
    <2>1. ~RegTurn
      BY <1>0, <1>5 DEF RegTurn, FieldDone
    <2>2. ~RegDropTurn
      BY <1>5, DropsLive DEF RegDropTurn, FieldDone
    <2>3. cell' = cell
      BY <1>5 DEF FieldDone
    <2> QED  BY <1>1, <2>1, <2>2, <2>3
  <1>6. CASE \E e \in Elements \ {Reg} : DropElement(e)
    <2>1. PICK e \in Elements \ {Reg} : DropElement(e)
      BY <1>6
    <2>2. mode # "run"
      BY <2>1, DropsLive DEF DropElement
    <2>3. ~RegDropTurn
      <3> SUFFICES ASSUME RegDropTurn
                   PROVE  FALSE
        OBVIOUS
      <3>1. DropsBefore(e, Reg) /\ DropsBefore(Reg, e)
        BY <2>1 DEF RegDropTurn, DropElement, NextToDrop
      <3> QED  BY <1>0, <2>1, <3>1, DropOrderStrict
    <2>4. cell'[Reg] = cell[Reg]
      BY <1>0, <2>1 DEF DropElement, Dropped, PInv, PinTypeOK
    <2> QED  BY <1>1, <2>2, <2>3, <2>4 DEF RegTurn
  <1>7. CASE UnwindDone \/ DropDone
    <2>1. ~RegTurn /\ ~RegDropTurn
      BY <1>7 DEF RegTurn, RegDropTurn, NextToDrop, UnwindDone, DropDone
    <2>2. cell' = cell
      BY <1>7 DEF UnwindDone, DropDone
    <2> QED  BY <1>1, <2>1, <2>2
  <1> QED  BY <1>2, <1>3, <1>4, <1>5, <1>6, <1>7 DEF OtherFieldStep

LEMMA OwnerReg ==
    ASSUME PInv, OwnerStep
    PROVE  /\ cell' = cell /\ ~RegTurn /\ ~RegDropTurn
           /\ UNCHANGED miscvars /\ UNCHANGED filevars
  <1>1. mode = "idle" /\ cell' = cell /\ UNCHANGED miscvars /\ UNCHANGED filevars
    BY DEF OwnerStep, NewUninit, DropUninit, DropValue, IntoForeign, FromForeign
  <1>2. todo = {}
    BY <1>1 DEF PInv, ModeInv
  <1> QED  BY <1>1, <1>2 DEF RegTurn, RegDropTurn, NextToDrop

LEMMA RegStep ==
    ASSUME Undone, DevInv, [MiscNext]_allvars
    PROVE  RegInv'
  <1>0. PInv /\ PInv' /\ FileInv /\ RegInv /\ DeviceTypeOK
    BY DriverPins, PinStep DEF DevInv, BoxInv
  <1>p. /\ cell[Reg] \in {"raw", "live"}
        /\ RegTurn => cell[Reg] = "raw"
        /\ RegDropTurn => cell[Reg] = "live" /\ mode \in {"unwind", "drop"}
    BY <1>0, RegPlace
  <1>1. CASE UNCHANGED <<pinvars, priv, listed, opener>>
    BY <1>0, <1>1 DEF RegInv, RegTurn, RegDropTurn, NextToDrop, DropsBefore, Idle, pinvars
  <1>2. CASE UNCHANGED allvars
    BY <1>1, <1>2 DEF allvars, miscvars
  <1>3. CASE FilesStayOpen
    BY <1>0, <1>1, <1>3, FilesStayOpenStep DEF miscvars
  <1>4. CASE FileOpenStep
    <2>1. UNCHANGED <<pinvars, priv, listed>>
      BY <1>0, <1>4, FileOpenFiles
    <2>2. opener' # NoFile => listed
      BY <1>0, <1>4 DEF FileOpenStep, MiscOpen, OpenReads, OpenErr, Release, OpenOk, RegInv, Idle
    <2> QED  BY <1>0, <2>1, <2>2 DEF RegInv, RegTurn, RegDropTurn, NextToDrop, DropsBefore, Idle, pinvars
  <1>5. CASE IntoRaw \/ MiscRegister
    BY <1>0, <1>p, <1>5 DEF IntoRaw, MiscRegister, RegInv, RegTurn, Idle, pinvars
  <1>6. CASE RegWrite
    <2>1. cell'[Reg] = "live" /\ listed
      <3>1. cell' = [cell EXCEPT ![Reg] = "live"]
        <4>1. <<at, count + 1>> = Reg
          BY <1>6 DEF RegWrite, RegTurn, Reg
        <4> QED  BY <1>6, <1>p, <4>1 DEF RegWrite, InitElement, Written
      <3> QED  BY <1>0, <1>6, <3>1, RegIsElement DEF RegWrite, PInv, PinTypeOK
    <2>2. UNCHANGED <<priv, listed, opener>>
      BY <1>6 DEF RegWrite, miscvars
    <2> QED  BY <1>0, <2>1, <2>2 DEF RegInv, Idle
  <1>7. CASE RegErr
    <2>1. cell'[Reg] = "raw" /\ ~listed /\ priv' = "none" /\ UNCHANGED <<listed, opener>>
      BY <1>7, <1>p DEF RegErr, InitErr
    <2> QED  BY <1>0, <2>1 DEF RegInv, Idle
  <1>8. CASE MiscDeregister
    <2>1. /\ RegDropTurn /\ listed' = FALSE /\ Idle /\ UNCHANGED <<priv, opener>>
          /\ UNCHANGED pinvars
      BY <1>8 DEF MiscDeregister
    <2>2. RegDropTurn' /\ cell'[Reg] = "live"
      BY <1>p, <2>1 DEF pinvars, RegDropTurn, NextToDrop, DropsBefore
    <2> QED  BY <1>0, <1>p, <2>1, <2>2 DEF RegInv, Idle
  <1>9. CASE MiscFree
    <2>1. ~listed /\ UNCHANGED <<listed, opener>> /\ DropElement(Reg) /\ cell[Reg] = "live"
      BY <1>9, <1>p DEF MiscFree, Undone
    <2>2. cell'[Reg] = "raw"
      BY <1>0, <2>1, PinDrop, RegIsElement DEF PInv, PinTypeOK
    <2>3. priv' = "none"
      BY <1>0, <1>9, <2>1 DEF MiscFree, RegInv
    <2> QED  BY <1>0, <2>1, <2>2, <2>3 DEF RegInv, Idle
  <1>10. CASE OtherFieldStep
    <2>1. /\ cell'[Reg] = cell[Reg] /\ UNCHANGED <<priv, listed, opener>>
          /\ RegTurn => RegTurn'
          /\ RegDropTurn => RegDropTurn'
      BY <1>0, <1>10, OtherFieldReg DEF miscvars
    <2> QED  BY <1>0, <2>1 DEF RegInv, Idle
  <1>11. CASE OwnerStep
    <2>1. cell' = cell /\ ~RegTurn /\ ~RegDropTurn /\ UNCHANGED <<priv, listed, opener>>
      BY <1>0, <1>11, OwnerReg DEF miscvars
    <2> QED  BY <1>0, <2>1 DEF RegInv, Idle
  <1>12. CASE Refuse \/ Accept
    BY <1>1, <1>12, ChoiceStep
  <1> QED  BY <1>2, <1>3, <1>4, <1>5, <1>6, <1>7, <1>8, <1>9, <1>10, <1>11, <1>12, NextIs DEF ValueStep

LEMMA DeviceInitOk == MiscInit => DevInv
  <1> HAVE MiscInit
  <1>1. PInv /\ FileInv
    BY PinInitOk, FileInitOk DEF MiscInit
  <1>2. BoxInv
    BY DEF MiscInit, FileInit, BoxInv, DeviceTypeOK, PrivateExact
  <1>3. cell[Reg] = "raw"
    BY RegIsElement DEF MiscInit, PinInitState
  <1>4. RegInv
    BY <1>3 DEF MiscInit, RegInv, Idle
  <1> QED  BY <1>1, <1>2, <1>4 DEF DevInv

LEMMA DeviceStep == Undone /\ DevInv /\ [MiscNext]_allvars => DevInv'
  <1> SUFFICES ASSUME Undone, DevInv, [MiscNext]_allvars
               PROVE  DevInv'
    OBVIOUS
  <1>1. PInv'
    BY DriverPins, PinStep DEF DevInv
  <1>2. FileInv'
    BY FileInvStep DEF DevInv
  <1>3. BoxInv'
    BY BoxStep DEF DevInv
  <1>4. RegInv'
    BY RegStep
  <1> QED  BY <1>1, <1>2, <1>3, <1>4 DEF DevInv

\* DevInv is an inductive invariant of a driver that can deregister its device.
THEOREM DeviceInductive == Undone => (MiscSpec => []DevInv)
  <1> SUFFICES ASSUME Undone PROVE MiscSpec => []DevInv
    OBVIOUS
  <1>1. DevInv /\ [MiscNext]_allvars => DevInv'
    BY DeviceStep
  <1> QED  BY <1>1, DeviceInitOk, PTL DEF MiscSpec

\* A misc device exists exactly as long as its registration, which backs it
\* whenever it can be opened, wherever the registration is in the value and
\* whichever of its fields fail.
THEOREM DeviceIsBacked == Undone => (MiscSpec => []DeviceInv)
  <1> SUFFICES ASSUME Undone PROVE MiscSpec => []DeviceInv
    OBVIOUS
  <1>1. DevInv => DeviceInv
    <2> SUFFICES ASSUME DevInv PROVE DeviceInv
      OBVIOUS
    <2>1. /\ RegTurn => place = "uninit"
          /\ mode = "idle" => (cell[Reg] = "live" <=> place \in {"value", "foreign"})
          /\ cell[Reg] = "live" => place # "none"
          /\ RegDropTurn => mode \in {"unwind", "drop"}
      BY RegPlace DEF DevInv
    <2>2. MiscTypeOK
      BY DEF DevInv, PInv, FileInv, BoxInv, DeviceTypeOK, MiscTypeOK
    <2>3. DeviceBacked
      BY <2>1 DEF DevInv, RegInv, DeviceBacked
    <2>4. NoDeviceLeft
      BY <2>1 DEF DevInv, RegInv, NoDeviceLeft, RegTurn
    <2> QED  BY <2>2, <2>3, <2>4 DEF DeviceInv
  <1> QED  BY <1>1, DeviceInductive, PTL

\* An open reads a registration that was not written yet only between
\* misc_register and slot.write, never one that has been dropped.
THEOREM EarlyReadsInWindow == Undone => (MiscSpec => EarlyOnlyInWindow)
  <1> SUFFICES ASSUME Undone PROVE MiscSpec => EarlyOnlyInWindow
    OBVIOUS
  <1>1. DevInv /\ [MiscNext]_allvars => [sawRaw' \subseteq sawRaw \/ (RegTurn /\ listed)]_allvars
    <2> SUFFICES ASSUME DevInv, MiscNext
                 PROVE  sawRaw' \subseteq sawRaw \/ (RegTurn /\ listed)
      OBVIOUS
    <2>1. CASE FilesStayOpen
      BY <2>1, FilesStayOpenStep DEF DevInv, miscvars
    <2>2. CASE ValueStep
      BY <2>2 DEF ValueStep, IntoRaw, MiscRegister, RegWrite, RegErr, MiscDeregister, MiscFree,
                  OtherFieldStep, OwnerStep, miscvars
    <2>3. ASSUME NEW x \in Files, OpenReads(x), cell[Reg] # "live"
          PROVE  RegTurn /\ listed
      <3>1. ~Idle
        BY <2>3, FileAssumption DEF OpenReads, Idle
      <3> QED  BY <2>3, <3>1 DEF DevInv, RegInv
    <2>4. CASE FileOpenStep
      BY <2>3, <2>4 DEF FileOpenStep, MiscOpen, OpenReads, OpenErr, Release, OpenOk
    <2>5. CASE Refuse \/ Accept
      BY <2>5, ChoiceStep
    <2> QED  BY <2>1, <2>2, <2>4, <2>5, NextIs
  <1> QED  BY <1>1, DeviceInductive, PTL DEF MiscSpec, EarlyOnlyInWindow

LEMMA DrainStep == DevInv /\ DrainInv /\ [MiscNext]_allvars => DrainInv'
  <1> SUFFICES ASSUME DevInv, DrainInv, [MiscNext]_allvars
               PROVE  DrainInv'
    OBVIOUS
  <1>0. /\ fst \in [Files -> {"none", "opening", "open"}]
        /\ NoFile \notin Files
    BY FileAssumption DEF DevInv, FileInv, FileTypeOK
  <1>1. CASE UNCHANGED <<fst, opener, refusing>>
    BY <1>1 DEF DrainInv
  <1>2. CASE UNCHANGED allvars
    BY <1>1, <1>2 DEF allvars, filevars, miscvars
  <1>3. CASE FilesStayOpen
    BY <1>1, <1>3, FilesStayOpenStep DEF DevInv, miscvars
  <1>4. CASE ValueStep
    BY <1>1, <1>4 DEF ValueStep, IntoRaw, MiscRegister, RegWrite, RegErr, MiscDeregister, MiscFree,
                      OtherFieldStep, OwnerStep, filevars, miscvars
  <1>5. CASE FileOpenStep
    <2>1. ASSUME NEW x \in Files, MiscOpen(x) PROVE DrainInv'
      BY <1>0, <2>1 DEF DrainInv, MiscOpen, OpenStart, Idle
    <2>2. ASSUME NEW x \in Files, OpenReads(x) PROVE DrainInv'
      BY <1>1, <2>2 DEF OpenReads, filevars
    <2>3. ASSUME NEW x \in Files, OpenErr(x) PROVE DrainInv'
      BY <1>0, <2>3 DEF DrainInv, OpenErr, OpenFails
    <2>4. ASSUME NEW x \in Files, Release(x) PROVE DrainInv'
      BY <1>0, <2>4 DEF DrainInv, Release, FinalPut
    <2>5. ASSUME NEW x \in Files, NEW d \in Fds, OpenOk(x, d) PROVE DrainInv'
      BY <1>0, <2>5 DEF DrainInv, OpenOk, OpenReturns
    <2> QED  BY <1>5, <2>1, <2>2, <2>3, <2>4, <2>5 DEF FileOpenStep
  <1>6. CASE Refuse \/ Accept
    BY <1>6 DEF DrainInv, Refuse, Accept, filevars
  <1> QED  BY <1>2, <1>3, <1>4, <1>5, <1>6, NextIs

\* A driver that has refused opens since it had no open file can let its
\* registration be dropped, or its initialisation fail, at any moment: the
\* file_operations that are freed are of no file, because misc_deregister has
\* waited for the open in progress.
THEOREM DrainedDropIsSafe == Undone => (MiscSpec => SafeOnceDrained)
  <1> SUFFICES ASSUME Undone PROVE MiscSpec => SafeOnceDrained
    OBVIOUS
  <1>1. MiscInit => DrainInv
    BY DEF MiscInit, FileInit, DrainInv
  <1>2. DevInv /\ DrainInv /\ [MiscNext]_allvars => [refusing => stale' \subseteq stale]_allvars
    <2> SUFFICES ASSUME DevInv, DrainInv, MiscNext, refusing
                 PROVE  stale' \subseteq stale
      OBVIOUS
    <2>1. CASE FilesStayOpen
      BY <2>1, FilesStayOpenStep DEF DevInv, miscvars
    <2>2. CASE MiscFree
      <3>1. Idle
        BY <2>2 DEF MiscFree, Undone, DevInv, RegInv
      <3>2. \A x \in Files : fst[x] = "none"
        BY <3>1, FileAssumption DEF DevInv, FileInv, FileTypeOK, DrainInv, Idle
      <3> QED  BY <2>2, <3>2 DEF MiscFree
    <2>3. CASE ValueStep
      BY <2>2, <2>3 DEF ValueStep, IntoRaw, MiscRegister, RegWrite, RegErr, MiscDeregister,
                        OtherFieldStep, OwnerStep, miscvars
    <2>4. CASE FileOpenStep
      BY <2>4 DEF FileOpenStep, MiscOpen, OpenReads, OpenErr, Release, OpenOk
    <2>5. CASE Refuse \/ Accept
      BY <2>5, ChoiceStep
    <2> QED  BY <2>1, <2>3, <2>4, <2>5, NextIs
  <1>3. DevInv /\ DrainInv /\ [MiscNext]_allvars => DrainInv'
    BY DrainStep
  <1> QED  BY <1>1, <1>2, <1>3, DeviceInductive, PTL DEF MiscSpec, SafeOnceDrained

\* The private data of a file is there for everything that refers to the file and
\* is taken back once, after the last of them: in any driver, also when its
\* registration goes first.
THEOREM PrivateDataIsKept == MiscSpec => []OpenFilesInv
  <1>1. MiscInit => FileInv /\ BoxInv
    BY DeviceInitOk DEF DevInv
  <1>2. FileInv /\ BoxInv /\ [MiscNext]_allvars => FileInv' /\ BoxInv'
    BY FileInvStep, BoxStep
  <1>3. FileInv /\ BoxInv => OpenFilesInv
    BY DEF FileInv, FilesInv, FileRefsExact, BoxInv, PrivateExact, OpenFilesInv
  <1> QED  BY <1>1, <1>2, <1>3, PTL DEF MiscSpec

-----------------------------------------------------------------------------
(* Memory maps: the inductive invariants.                                  *)

\* A thread has one MmWithUser, of one kind or the other; a MmapReadGuard borrows
\* it.
UserInv ==
  \A t \in Threads :
    /\ ~({"User", "Async"} \subseteq have[t])
    /\ t \in readers => HasUser(t)

\* The mappings are torn down after the last user, and the process is a user
\* while it holds the lock for writing.
LastUserInv ==
  /\ teardown = "no" <=> users > 0
  /\ writer # "no" => proc /\ readers = {}

\* The mixed map of the mmap callback ends with it.
MixedInv == newMixed => writer = "mmap"

\* The driver's area is one that mmap chose, and others have none of it.
PlaceInv ==
  /\ vma # NoVma => \E r \in Areas : vma.start = r[1] /\ vma.end = r[2]
  /\ others \subseteq Outside

\* An area is linked when the mmap callback has returned, and stays so while it
\* is edited.
LinkInv ==
  /\ linked => vma # NoVma /\ writer # "mmap"
  /\ writer = "edit" => linked

-----------------------------------------------------------------------------
(* Counting handles.                                                       *)

HandleTypeOK ==
  /\ found \subseteq PutCalls /\ proc \in BOOLEAN
  /\ users \in Nat /\ mmcount \in Nat
  /\ teardown \in {"no", "pending", "done"}
  /\ have \in [Threads -> SUBSET {"Mm", "User", "Async"}]
  /\ readers \subseteq Threads
  /\ writer \in {"no", "mmap", "edit"}

HandleInv == HandleTypeOK /\ CountsExact /\ UserInv /\ LastUserInv

Uses(S) == IF S \cap {"User", "Async"} # {} THEN 1 ELSE 0
Holders(f, h) == {t \in Threads : h \in f[t]}

LEMMA HoldersFinite ==
  ASSUME NEW f, NEW h
  PROVE  IsFiniteSet(Holders(f, h)) /\ Cardinality(Holders(f, h)) \in Nat
  <1>1. IsFiniteSet(Holders(f, h))
    BY MmAssumption, FS_Subset DEF Holders
  <1> QED  BY <1>1, FS_CardinalityType

\* When one thread's handles change, so do the counts, by what it has more.
LEMMA HoldingMoves ==
  ASSUME HandleTypeOK, NEW t \in Threads, NEW S, have' = [have EXCEPT ![t] = S], NEW h
  PROVE  /\ Holding(h) \in Nat
         /\ (Holding(h))' = Holding(h) + In(h, S) - In(h, have[t])
  <1> DEFINE R == Holders(have, h) \ {t}
  <1>1. Holders(have, h) = IF h \in have[t] THEN R \cup {t} ELSE R
    BY DEF Holders
  <1>2. Holders(have', h) = IF h \in S THEN R \cup {t} ELSE R
    BY DEF Holders, HandleTypeOK
  <1>3. IsFiniteSet(R) /\ t \notin R /\ Cardinality(R) \in Nat
    BY HoldersFinite, FS_Subset, FS_CardinalityType
  <1>4. Cardinality(R \cup {t}) = Cardinality(R) + 1
    BY <1>3, FS_AddElement
  <1>5. Holding(h) = Cardinality(Holders(have, h)) /\ (Holding(h))' = Cardinality(Holders(have', h))
    BY DEF Holding, Holders
  <1> HIDE DEF R
  <1>6. Holding(h) = Cardinality(R) + In(h, have[t])
    BY <1>1, <1>3, <1>4, <1>5 DEF In
  <1>7. (Holding(h))' = Cardinality(R) + In(h, S)
    BY <1>2, <1>3, <1>4, <1>5 DEF In
  <1> QED  BY <1>3, <1>6, <1>7 DEF In

LEMMA HoldingType == \A h : Holding(h) \in Nat
  BY HoldersFinite DEF Holding, Holders

LEMMA HoldingPositive ==
  ASSUME NEW t \in Threads, NEW h \in have[t]
  PROVE  Holding(h) >= 1
  <1>1. t \in Holders(have, h)
    BY DEF Holders
  <1>2. Cardinality(Holders(have, h)) # 0
    BY <1>1, HoldersFinite, FS_EmptySet
  <1> QED  BY <1>2, HoldersFinite DEF Holding, Holders

\* The invariant gives what the types promise.
LEMMA HandlesKeep == HandleInv => UsersKeepMappings
  <1> SUFFICES ASSUME HandleInv, NEW t \in Threads
               PROVE  /\ HasUser(t) => teardown = "no"
                      /\ have[t] # {} => mmcount > 0
    BY DEF UsersKeepMappings
  <1>0. Holding("User") \in Nat /\ Holding("Async") \in Nat /\ Holding("Mm") \in Nat
    BY HoldingType
  <1>1. ASSUME HasUser(t) PROVE teardown = "no"
    <2>1. Holding("User") >= 1 \/ Holding("Async") >= 1
      BY <1>1, HoldingPositive DEF HasUser
    <2>2. users > 0
      BY <1>0, <2>1 DEF HandleInv, HandleTypeOK, CountsExact, Users
    <2> QED  BY <2>2 DEF HandleInv, LastUserInv
  <1>2. ASSUME have[t] # {} PROVE mmcount > 0
    <2>1. CASE "Mm" \in have[t]
      <3>1. Holding("Mm") >= 1
        BY <2>1, HoldingPositive
      <3> QED  BY <1>0, <3>1 DEF HandleInv, CountsExact
    <2>2. CASE "Mm" \notin have[t]
      <3>1. HasUser(t)
        BY <1>2, <2>2 DEF HandleInv, HandleTypeOK, HasUser
      <3> QED  BY <1>0, <1>1, <3>1 DEF HandleInv, CountsExact
    <2> QED  BY <2>1, <2>2
  <1> QED  BY <1>1, <1>2

-----------------------------------------------------------------------------
(* Handles come and go.                                                    *)

\* A thread takes a Mm or gives one back.
LEMMA MmCounted ==
  ASSUME HandleInv, NEW t \in Threads, MmFrom(t) \/ DropMm(t)
  PROVE  HandleInv'
  <1>1. PICK S \in SUBSET {"Mm", "User", "Async"} :
            /\ have' = [have EXCEPT ![t] = S]
            /\ "User" \in S <=> "User" \in have[t]
            /\ "Async" \in S <=> "Async" \in have[t]
            /\ mmcount' = mmcount + In("Mm", S) - In("Mm", have[t])
    <2>1. have[t] \in SUBSET {"Mm", "User", "Async"} /\ mmcount \in Nat
      BY DEF HandleInv, HandleTypeOK
    <2>2. CASE MmFrom(t)
      <3> DEFINE T == have[t] \cup {"Mm"}
      <3>1. In("Mm", T) = 1 /\ In("Mm", have[t]) = 0
        BY <2>2 DEF MmFrom, In
      <3>2. mmcount' = mmcount + In("Mm", T) - In("Mm", have[t])
        BY <2>1, <2>2, <3>1 DEF MmFrom
      <3> T \in SUBSET {"Mm", "User", "Async"}
        BY <2>1
      <3> WITNESS T \in SUBSET {"Mm", "User", "Async"}
      <3> QED  BY <2>2, <3>2 DEF MmFrom
    <2>3. CASE DropMm(t)
      <3> DEFINE T == have[t] \ {"Mm"}
      <3>1. In("Mm", T) = 0 /\ In("Mm", have[t]) = 1
        BY <2>3 DEF DropMm, In
      <3>2. mmcount' = mmcount + In("Mm", T) - In("Mm", have[t])
        BY <2>1, <2>3, <3>1 DEF DropMm
      <3> T \in SUBSET {"Mm", "User", "Async"}
        BY <2>1
      <3> WITNESS T \in SUBSET {"Mm", "User", "Async"}
      <3> QED  BY <2>3, <3>2 DEF DropMm
    <2> QED  BY <2>2, <2>3
  <1>2. UNCHANGED <<found, proc, users, teardown, readers, writer>>
    BY DEF MmFrom, DropMm, lockVars
  <1>3. /\ (Holding("User"))' = Holding("User") /\ (Holding("Async"))' = Holding("Async")
        /\ (Holding("Mm"))' = Holding("Mm") + In("Mm", S) - In("Mm", have[t])
        /\ Holding("User") \in Nat /\ Holding("Async") \in Nat /\ Holding("Mm") \in Nat
        /\ (Holding("Mm"))' \in Nat
    <2>1. HandleTypeOK
      BY DEF HandleInv
    <2>2. In("User", S) = In("User", have[t]) /\ In("Async", S) = In("Async", have[t])
      BY <1>1 DEF In
    <2>3. In("User", S) \in Nat /\ In("Async", S) \in Nat
      BY DEF In
    <2>4. Holding("User") \in Nat /\ (Holding("User"))' = Holding("User") + In("User", S) - In("User", have[t])
      BY <1>1, <2>1, HoldingMoves
    <2>5. Holding("Async") \in Nat /\ (Holding("Async"))' = Holding("Async") + In("Async", S) - In("Async", have[t])
      BY <1>1, <2>1, HoldingMoves
    <2>6. Holding("Mm") \in Nat /\ (Holding("Mm"))' = Holding("Mm") + In("Mm", S) - In("Mm", have[t])
      BY <1>1, <2>1, HoldingMoves
    <2>7. (Holding("Mm"))' \in Nat
      BY HoldersFinite DEF Holding, Holders
    <2> QED  BY <2>2, <2>3, <2>4, <2>5, <2>6, <2>7
  <1>4. CountsExact' /\ mmcount' \in Nat
    <2>1. In("Mm", S) \in Nat /\ In("Mm", have[t]) \in Nat
      BY DEF In
    <2>2. users' >= Users' /\ (found' = PutCalls => users' = Users')
      BY <1>2, <1>3 DEF HandleInv, CountsExact, Users
    <2>3. mmcount' = (IF teardown' = "done" THEN 0 ELSE 1) + (Holding("Mm"))'
      BY <1>1, <1>2, <1>3, <2>1 DEF HandleInv, CountsExact
    <2> QED  BY <1>3, <2>2, <2>3 DEF CountsExact
  <1>5. HandleTypeOK'
    BY <1>1, <1>2, <1>4 DEF HandleInv, HandleTypeOK
  <1>6. UserInv'
    BY <1>1, <1>2 DEF HandleInv, HandleTypeOK, UserInv, HasUser
  <1>7. LastUserInv'
    BY <1>2 DEF HandleInv, LastUserInv
  <1> QED  BY <1>4, <1>5, <1>6, <1>7 DEF HandleInv

\* What a handle of either user kind does to both counts together.
LEMMA UsersMove ==
  ASSUME HandleInv, NEW t \in Threads, NEW S \in SUBSET {"Mm", "User", "Async"},
         have' = [have EXCEPT ![t] = S],
         "Mm" \in S <=> "Mm" \in have[t], ~({"User", "Async"} \subseteq S)
  PROVE  /\ (Holding("User"))' + (Holding("Async"))'
              = Holding("User") + Holding("Async") + Uses(S) - Uses(have[t])
         /\ (Holding("Mm"))' = Holding("Mm")
         /\ Holding("User") + Holding("Async") \in Nat
         /\ (Holding("User"))' + (Holding("Async"))' \in Nat
  <1>0. HandleTypeOK
    BY DEF HandleInv
  <1>1. \A h : Holding(h) \in Nat /\ (Holding(h))' \in Nat
    BY HoldersFinite DEF Holding, Holders
  <1>2. Holding("User") \in Nat /\ (Holding("User"))' = Holding("User") + In("User", S) - In("User", have[t])
    BY <1>0, HoldingMoves
  <1>3. Holding("Async") \in Nat /\ (Holding("Async"))' = Holding("Async") + In("Async", S) - In("Async", have[t])
    BY <1>0, HoldingMoves
  <1>4. Holding("Mm") \in Nat /\ (Holding("Mm"))' = Holding("Mm") + In("Mm", S) - In("Mm", have[t])
    BY <1>0, HoldingMoves
  <1>5. In("User", S) + In("Async", S) = Uses(S)
    BY DEF In, Uses
  <1>6. In("User", have[t]) + In("Async", have[t]) = Uses(have[t])
    BY DEF In, Uses, HandleInv, UserInv
  <1>7. In("Mm", S) = In("Mm", have[t])
    BY DEF In
  <1>8. /\ In("User", S) \in Nat /\ In("Async", S) \in Nat /\ In("User", have[t]) \in Nat
        /\ In("Async", have[t]) \in Nat /\ In("Mm", S) \in Nat
    BY DEF In
  <1>9. (Holding("Mm"))' = Holding("Mm")
    BY <1>4, <1>7, <1>8
  <1>10. Uses(S) \in Nat /\ Uses(have[t]) \in Nat
    BY DEF Uses
  <1>11. (Holding("User"))' + (Holding("Async"))' = Holding("User") + Holding("Async") + Uses(S) - Uses(have[t])
    BY <1>2, <1>3, <1>5, <1>6, <1>8, <1>10
  <1>12. Holding("User") + Holding("Async") \in Nat /\ (Holding("User"))' + (Holding("Async"))' \in Nat
    BY <1>1
  <1> QED  BY <1>9, <1>11, <1>12

\* A thread gets a MmWithUser of a process that still has a user.
LEMMA UserTaken ==
  ASSUME HandleInv, NEW t \in Threads, NEW which \in {"User", "Async"}, ~HasUser(t), users > 0,
         users' = users + 1, have' = [have EXCEPT ![t] = @ \cup {which}],
         UNCHANGED <<found, proc, mmcount, teardown, readers, writer>>
  PROVE  HandleInv'
  <1> DEFINE S == have[t] \cup {which}
  <1>1. /\ S \in SUBSET {"Mm", "User", "Async"} /\ have' = [have EXCEPT ![t] = S]
        /\ "Mm" \in S <=> "Mm" \in have[t]
        /\ ~({"User", "Async"} \subseteq S)
        /\ S \cap {"User", "Async"} # {} /\ have[t] \cap {"User", "Async"} = {}
    BY DEF HandleInv, HandleTypeOK, HasUser
  <1> HIDE DEF S
  <1>2. /\ (Holding("User"))' + (Holding("Async"))' = Holding("User") + Holding("Async") + 1
        /\ (Holding("Mm"))' = Holding("Mm")
        /\ Holding("User") + Holding("Async") \in Nat
    <2>1. /\ (Holding("User"))' + (Holding("Async"))'
               = Holding("User") + Holding("Async") + Uses(S) - Uses(have[t])
          /\ (Holding("Mm"))' = Holding("Mm")
          /\ Holding("User") + Holding("Async") \in Nat
          /\ (Holding("User"))' + (Holding("Async"))' \in Nat
      BY <1>1, UsersMove
    <2> QED  BY <1>1, <2>1 DEF Uses
  <1>3. CountsExact'
    <2>1. \A h : Holding(h) \in Nat /\ (Holding(h))' \in Nat
      BY HoldersFinite DEF Holding, Holders
    <2>2. users' >= Users' /\ (found' = PutCalls => users' = Users')
      BY <1>2, <2>1 DEF HandleInv, HandleTypeOK, CountsExact, Users
    <2> QED  BY <1>2, <2>2 DEF HandleInv, CountsExact
  <1>4. HandleTypeOK'
    BY <1>1 DEF HandleInv, HandleTypeOK
  <1>5. UserInv'
    BY <1>1 DEF HandleInv, HandleTypeOK, UserInv, HasUser
  <1>6. LastUserInv'
    <2>1. users' > 0
      BY DEF HandleInv, HandleTypeOK
    <2> QED  BY <2>1 DEF HandleInv, LastUserInv
  <1> QED  BY <1>3, <1>4, <1>5, <1>6 DEF HandleInv

LEMMA UserGets ==
  ASSUME HandleInv, NEW t \in Threads,
         \/ MmgetNotZero(t)
         \/ \E u \in Threads, which \in {"User", "Async"} : MmUserClone(u, t, which)
  PROVE  HandleInv'
  <1>1. CASE MmgetNotZero(t)
    BY <1>1, UserTaken DEF MmgetNotZero, lockVars
  <1>2. CASE \E u \in Threads, which \in {"User", "Async"} : MmUserClone(u, t, which)
    <2>1. PICK u \in Threads, which \in {"User", "Async"} : MmUserClone(u, t, which)
      BY <1>2
    <2>2. teardown = "no"
      BY <2>1, HandlesKeep DEF MmUserClone, UsersKeepMappings
    <2>3. users > 0
      BY <2>2 DEF HandleInv, LastUserInv
    <2> QED  BY <2>1, <2>3, UserTaken DEF MmUserClone, lockVars
  <1> QED  BY <1>1, <1>2

LEMMA UserAsync ==
  ASSUME HandleInv, NEW t \in Threads, IntoMmputAsync(t)
  PROVE  HandleInv'
  <1> DEFINE S == (have[t] \ {"User"}) \cup {"Async"}
  <1>1. /\ S \in SUBSET {"Mm", "User", "Async"} /\ have' = [have EXCEPT ![t] = S]
        /\ "Mm" \in S <=> "Mm" \in have[t]
        /\ ~({"User", "Async"} \subseteq S)
        /\ S \cap {"User", "Async"} # {} /\ have[t] \cap {"User", "Async"} # {}
        /\ t \notin readers /\ UNCHANGED <<found, proc, users, mmcount, teardown, readers, writer>>
    BY DEF HandleInv, HandleTypeOK, IntoMmputAsync, lockVars
  <1> HIDE DEF S
  <1>2. /\ (Holding("User"))' + (Holding("Async"))' = Holding("User") + Holding("Async")
        /\ (Holding("Mm"))' = Holding("Mm")
    <2>1. /\ (Holding("User"))' + (Holding("Async"))'
               = Holding("User") + Holding("Async") + Uses(S) - Uses(have[t])
          /\ (Holding("Mm"))' = Holding("Mm")
          /\ Holding("User") + Holding("Async") \in Nat
          /\ (Holding("User"))' + (Holding("Async"))' \in Nat
      BY <1>1, UsersMove
    <2> QED  BY <1>1, <2>1 DEF Uses
  <1>3. CountsExact'
    <2>1. \A h : Holding(h) \in Nat /\ (Holding(h))' \in Nat
      BY HoldersFinite DEF Holding, Holders
    <2>2. users' >= Users' /\ (found' = PutCalls => users' = Users')
      BY <1>1, <1>2, <2>1 DEF HandleInv, CountsExact, Users
    <2> QED  BY <1>1, <1>2, <2>2 DEF HandleInv, CountsExact
  <1>4. HandleTypeOK'
    BY <1>1 DEF HandleInv, HandleTypeOK
  <1>5. UserInv'
    BY <1>1 DEF HandleInv, HandleTypeOK, UserInv, HasUser
  <1>6. LastUserInv'
    BY <1>1 DEF HandleInv, LastUserInv
  <1> QED  BY <1>3, <1>4, <1>5, <1>6 DEF HandleInv

\* A user goes: the process, or a thread that reads under no guard.  The last one
\* makes the teardown due.
LEMMA UserGone ==
  ASSUME HandleInv, PutUser, users > 0, have' \in [Threads -> SUBSET {"Mm", "User", "Async"}],
         proc' \in BOOLEAN, UNCHANGED <<found, mmcount, readers, writer>>, writer # "no" => proc',
         (Holding("Mm"))' = Holding("Mm"),
         users' >= Users', found = PutCalls => users' = Users',
         UserInv'
  PROVE  HandleInv'
  <1>1. users' \in Nat /\ users' = users - 1
    BY DEF PutUser, HandleInv, HandleTypeOK
  <1>2. teardown = "no"
    BY DEF HandleInv, LastUserInv
  <1>3. teardown' = IF users' = 0 THEN "pending" ELSE "no"
    BY <1>1, <1>2 DEF PutUser, HandleInv, HandleTypeOK
  <1>4. HandleTypeOK'
    BY <1>1, <1>3 DEF HandleInv, HandleTypeOK
  <1>5. CountsExact'
    BY <1>2, <1>3 DEF HandleInv, CountsExact
  <1>6. LastUserInv'
    <2>1. teardown' = "no" <=> users' > 0
      <3>1. \A n \in Nat : n > 0 <=> n # 0
        OBVIOUS
      <3>2. users' > 0 <=> users' # 0
        BY <1>1, <3>1, Zenon
      <3> QED  BY <1>3, <3>2, Zenon
    <2>2. writer' = writer /\ readers' = readers
      OBVIOUS
    <2>3. writer # "no" => readers = {}
      BY DEF HandleInv, LastUserInv
    <2>4. writer' # "no" => proc' /\ readers' = {}
      BY <2>2, <2>3, Zenon
    <2> QED  BY <2>1, <2>4 DEF LastUserInv
  <1> QED  BY <1>4, <1>5, <1>6 DEF HandleInv

LEMMA UserPuts ==
  ASSUME HandleInv, (\E t \in Threads : DropUser(t)) \/ ProcExits
  PROVE  HandleInv'
  <1>0. \A h : Holding(h) \in Nat /\ (Holding(h))' \in Nat
    BY HoldersFinite DEF Holding, Holders
  <1>1. ASSUME NEW t \in Threads, DropUser(t)
        PROVE  HandleInv'
    <2> DEFINE S == have[t] \ {"User", "Async"}
    <2>1. /\ S \in SUBSET {"Mm", "User", "Async"} /\ have' = [have EXCEPT ![t] = S]
          /\ "Mm" \in S <=> "Mm" \in have[t]
          /\ ~({"User", "Async"} \subseteq S)
          /\ S \cap {"User", "Async"} = {} /\ have[t] \cap {"User", "Async"} # {}
          /\ t \notin readers /\ UNCHANGED <<found, proc, mmcount, readers, writer>>
          /\ PutUser \/ (found # PutCalls /\ UNCHANGED <<users, teardown>>)
      BY <1>1 DEF HandleInv, HandleTypeOK, DropUser, HasUser, lockVars, PutCalls
    <2> HIDE DEF S
    <2>2. /\ (Holding("User"))' + (Holding("Async"))' = Holding("User") + Holding("Async") - 1
          /\ (Holding("Mm"))' = Holding("Mm")
      <3>1. /\ (Holding("User"))' + (Holding("Async"))'
                 = Holding("User") + Holding("Async") + Uses(S) - Uses(have[t])
            /\ (Holding("Mm"))' = Holding("Mm")
            /\ Holding("User") + Holding("Async") \in Nat
            /\ (Holding("User"))' + (Holding("Async"))' \in Nat
        BY <2>1, UsersMove
      <3>2. Uses(S) = 0 /\ Uses(have[t]) = 1
        BY <2>1 DEF Uses
      <3> QED  BY <1>0, <3>1, <3>2
    <2>3. users' >= Users' /\ (found = PutCalls => users' = Users')
      BY <1>0, <2>1, <2>2 DEF HandleInv, HandleTypeOK, CountsExact, Users, PutUser
    <2>4. users > 0
      <3>1. teardown = "no"
        BY <1>1, HandlesKeep DEF DropUser, UsersKeepMappings
      <3> QED  BY <3>1 DEF HandleInv, LastUserInv
    <2>5. have' \in [Threads -> SUBSET {"Mm", "User", "Async"}]
      BY <2>1 DEF HandleInv, HandleTypeOK
    <2>6. UserInv'
      BY <2>1 DEF HandleInv, HandleTypeOK, UserInv, HasUser
    <2>7. proc' \in BOOLEAN /\ (writer # "no" => proc')
      BY <2>1 DEF HandleInv, HandleTypeOK, LastUserInv
    <2>8. CASE PutUser
      BY <2>1, <2>2, <2>3, <2>4, <2>5, <2>6, <2>7, <2>8, UserGone
    <2>9. CASE UNCHANGED <<users, teardown>>
      <3>1. HandleTypeOK' /\ LastUserInv'
        BY <2>1, <2>5, <2>9 DEF HandleInv, HandleTypeOK, LastUserInv
      <3>2. CountsExact'
        BY <2>1, <2>2, <2>3, <2>9 DEF HandleInv, CountsExact
      <3> QED  BY <2>6, <3>1, <3>2 DEF HandleInv
    <2> QED  BY <2>1, <2>8, <2>9
  <1>2. ASSUME ProcExits
        PROVE  HandleInv'
    <2>1. /\ proc /\ proc' = FALSE /\ writer = "no" /\ PutUser
          /\ UNCHANGED <<found, mmcount, have, readers, writer>>
      BY <1>2 DEF ProcExits, lockVars
    <2>2. \A h : (Holding(h))' = Holding(h)
      BY <2>1 DEF Holding
    <2>3. /\ users' >= Users' /\ (found = PutCalls => users' = Users')
          /\ users > 0
      BY <1>0, <2>1, <2>2 DEF HandleInv, HandleTypeOK, CountsExact, Users, PutUser
    <2>4. have' \in [Threads -> SUBSET {"Mm", "User", "Async"}] /\ proc' \in BOOLEAN
      BY <2>1 DEF HandleInv, HandleTypeOK
    <2>5. UserInv'
      BY <2>1 DEF HandleInv, UserInv, HasUser
    <2> QED  BY <2>1, <2>2, <2>3, <2>4, <2>5, UserGone
  <1> QED  BY <1>1, <1>2

\* The rest: the lock is taken and given back, the mappings go with the last user.
LEMMA LockSteps ==
  ASSUME HandleInv,
         \/ \E t \in Threads : MmapReadLock(t) \/ MmapReadUnlock(t)
         \/ MmapStart \/ MmapReturns \/ EditStart \/ DoMunmap \/ Mprotect
         \/ UNCHANGED <<mmVars, readers, writer>>
  PROVE  HandleInv'
  <1>1. UNCHANGED <<found, proc, users, mmcount, teardown, have>>
    BY DEF MmapReadLock, MmapReadUnlock, MmapStart, MmapReturns, EditStart, DoMunmap, Mprotect, mmVars
  <1>2. CountsExact'
    BY <1>1 DEF HandleInv, CountsExact, Users, Holding
  <1>3. HandleTypeOK'
    BY <1>1 DEF HandleInv, HandleTypeOK, MmapReadLock, MmapReadUnlock, MmapStart, MmapReturns,
                EditStart, DoMunmap, Mprotect
  <1>4. UserInv'
    BY <1>1 DEF HandleInv, UserInv, HasUser, MmapReadLock, MmapReadUnlock, MmapStart, MmapReturns,
                EditStart, DoMunmap, Mprotect
  <1>5. LastUserInv'
    BY <1>1 DEF HandleInv, HandleTypeOK, LastUserInv, MmapReadLock, MmapReadUnlock, MmapStart,
                MmapReturns, EditStart, DoMunmap, Mprotect
  <1> QED  BY <1>2, <1>3, <1>4, <1>5 DEF HandleInv

LEMMA TeardownStep ==
  ASSUME HandleInv, Teardown
  PROVE  HandleInv'
  <1>1. /\ teardown = "pending" /\ teardown' = "done" /\ mmcount' = mmcount - 1
        /\ UNCHANGED <<found, proc, users, have, readers, writer>>
    BY DEF Teardown, lockVars
  <1>2. \A h : (Holding(h))' = Holding(h) /\ Holding(h) \in Nat
    BY <1>1, HoldingType DEF Holding
  <1>3. CountsExact' /\ mmcount' \in Nat
    BY <1>1, <1>2 DEF HandleInv, CountsExact, Users
  <1>4. HandleTypeOK'
    BY <1>1, <1>3 DEF HandleInv, HandleTypeOK
  <1>5. UserInv' /\ LastUserInv'
    BY <1>1 DEF HandleInv, UserInv, HasUser, LastUserInv
  <1> QED  BY <1>3, <1>4, <1>5 DEF HandleInv

LEMMA HandleNext == HandleInv /\ [Next]_vars => HandleInv'
  <1> SUFFICES ASSUME HandleInv, [Next]_vars
               PROVE  HandleInv'
    OBVIOUS
  <1>1. CASE \E t \in Threads : HandleStep(t)
    BY <1>1, MmCounted, UserGets, UserAsync, UserPuts DEF HandleStep
  <1>2. CASE ProcExits
    BY <1>2, UserPuts
  <1>3. CASE Teardown
    BY <1>3, TeardownStep
  <1>4. CASE \/ \E t \in Threads : MmapReadLock(t) \/ MmapReadUnlock(t)
             \/ MmapStart \/ MmapReturns \/ EditStart \/ DoMunmap \/ Mprotect
    BY <1>4, LockSteps
  <1>5. CASE \/ UNCHANGED vars
             \/ \E t \in Threads : VmaLookup(t) \/ AsMixedmapVma(t)
             \/ VmInsertPage \/ AllocPage \/ PageDrop
             \/ \E a \in Addrs, n \in Addrs : ZapPageRangeSingle(a, n)
             \/ SetMixedmap \/ (\E f \in Plain : SetPlain(f)) \/ (\E p \in Perms : TryClearMay(p))
    <2>1. UNCHANGED <<mmVars, readers, writer>>
      BY <1>5 DEF vars, lockVars, VmaLookup, AsMixedmapVma, VmInsertPage, AllocPage, PageDrop,
                  ZapPageRangeSingle, SetMixedmap, SetPlain, TryClearMay, UpdateFlags
    <2> QED  BY <2>1, LockSteps
  <1> QED  BY <1>1, <1>2, <1>3, <1>4, <1>5 DEF Next, LockStep, MmapStep

LEMMA HandleInit == Init => HandleInv
  <1> HAVE Init
  <1>1. \A h : Holding(h) = 0
    <2> TAKE h
    <2>1. {t \in Threads : h \in have[t]} = {}
      BY DEF Init
    <2> QED  BY <2>1, FS_EmptySet DEF Holding
  <1>2. HandleTypeOK /\ UserInv /\ LastUserInv
    BY DEF Init, HandleTypeOK, UserInv, LastUserInv
  <1>3. CountsExact
    BY <1>1 DEF Init, CountsExact, Users
  <1> QED  BY <1>2, <1>3 DEF HandleInv

\* HandleInv is an inductive invariant of the handles.
THEOREM HandlesInductive == Spec => []HandleInv
  BY HandleInit, HandleNext, PTL DEF Spec

-----------------------------------------------------------------------------
(* The area.                                                               *)

VmaTypeOK == vma \in [start : 0 .. W, end : 0 .. W, flags : SUBSET Flags]

VmaInv == VmaTypeOK /\ PermsAllowed /\ PlaceInv

LEMMA WIsNat == W \in Nat /\ W > 0
  BY MmAssumption

\* The permissions, what allows them, and the other flags are distinct.
LEMMA FlagsDistinct ==
  /\ \A p \in Perms : May(p) \notin Perms /\ p \notin Plain /\ p # "MIXEDMAP" /\ May(p) # "MIXEDMAP"
  /\ \A p, q \in Perms : May(p) = May(q) => p = q
  /\ \A p \in Perms : May(p) \in Flags /\ p \in Flags
  /\ \A f \in Plain : f \in Flags /\ f \notin Perms
  /\ "MIXEDMAP" \in Flags
  <1>1. \A p \in Perms : p \in {"READ", "WRITE", "EXEC"} /\ May(p) \in {"MAYREAD", "MAYWRITE", "MAYEXEC"}
    BY MmAssumption DEF May
  <1>2. \A p \in Plain : p \in {"IO", "DONTCOPY", "DONTEXPAND", "DONTDUMP"}
    BY MmAssumption
  <1>3. \A p, q \in Perms : May(p) = May(q) => p = q
    BY <1>1 DEF May
  <1>4. \A p \in Perms : p # "MIXEDMAP" /\ May(p) # "MIXEDMAP" /\ p \notin Plain
    BY <1>1, <1>2
  <1>5. \A p \in Perms : May(p) \notin Perms
    BY <1>1
  <1>6. \A f \in Plain : f \notin Perms
    BY <1>1, <1>2
  <1> QED  BY <1>3, <1>4, <1>5, <1>6 DEF Flags

LEMMA NoVmaOk == NoVma \in [start : 0 .. W, end : 0 .. W, flags : SUBSET Flags]
  BY WIsNat DEF NoVma

LEMMA VmaGone ==
  ASSUME VmaInv, vma' = NoVma, others' \subseteq others
  PROVE  VmaInv'
  <1>1. VmaTypeOK'
    BY NoVmaOk DEF VmaTypeOK
  <1>2. PermsAllowed'
    BY DEF PermsAllowed, NoVma
  <1>3. PlaceInv'
    BY DEF VmaInv, PlaceInv
  <1> QED  BY <1>1, <1>2, <1>3 DEF VmaInv

\* The flags of an area change, and a permission comes only with what allows it.
LEMMA VmaFlags ==
  ASSUME VmaInv, NEW F \in SUBSET Flags, vma # NoVma, vma' = [vma EXCEPT !.flags = F],
         \A p \in Perms \cap F : May(p) \in F, UNCHANGED others
  PROVE  VmaInv' /\ vma'.start = vma.start /\ vma'.end = vma.end /\ vma'.flags = F
  <1>1. /\ VmaTypeOK' /\ vma'.start = vma.start /\ vma'.end = vma.end /\ vma'.flags = F
    BY DEF VmaInv, VmaTypeOK
  <1>2. PermsAllowed'
    BY <1>1 DEF PermsAllowed
  <1>3. PlaceInv'
    BY <1>1 DEF VmaInv, PlaceInv
  <1> QED  BY <1>1, <1>2, <1>3 DEF VmaInv

LEMMA VmaStarts ==
  ASSUME VmaInv, MmapStart
  PROVE  VmaInv' /\ vma' # NoVma
  <1>1. PICK r \in Areas, p \in SUBSET Perms :
            vma' = [start |-> r[1], end |-> r[2], flags |-> p \cup {May(q) : q \in Perms}]
    BY DEF MmapStart
  <1>2. r[1] \in 0 .. W /\ r[2] \in 0 .. W /\ r[2] # 0
    BY MmAssumption, WIsNat
  <1>3. p \cup {May(q) : q \in Perms} \in SUBSET Flags
    BY FlagsDistinct
  <1>4. vma'.start = r[1] /\ vma'.end = r[2] /\ vma'.flags = p \cup {May(q) : q \in Perms}
    BY <1>1
  <1>5. VmaTypeOK'
    BY <1>1, <1>2, <1>3 DEF VmaTypeOK
  <1>6. PermsAllowed'
    BY <1>4 DEF PermsAllowed
  <1>7. PlaceInv'
    BY <1>4 DEF VmaInv, PlaceInv, MmapStart
  <1>8. vma' # NoVma
    BY <1>2, <1>4 DEF NoVma
  <1> QED  BY <1>5, <1>6, <1>7, <1>8 DEF VmaInv

\* The mmap callback and mprotect.
LEMMA VmaEdited ==
  ASSUME VmaInv, linked => vma # NoVma, writer = "edit" => linked,
         \/ SetMixedmap \/ (\E f \in Plain : SetPlain(f)) \/ (\E p \in Perms : TryClearMay(p))
         \/ Mprotect
  PROVE  /\ VmaInv' /\ vma'.start = vma.start /\ vma'.end = vma.end /\ vma' # NoVma
         /\ "MIXEDMAP" \in vma'.flags <=> "MIXEDMAP" \in vma.flags \/ SetMixedmap
  <1>0. vma.flags \in SUBSET Flags /\ vma # NoVma /\ PermsAllowed
    BY DEF VmaInv, VmaTypeOK, SetMixedmap, SetPlain, TryClearMay, Mprotect, InCallback
  <1>1. PICK F \in SUBSET Flags :
            /\ vma' = [vma EXCEPT !.flags = F] /\ UNCHANGED others
            /\ \A p \in Perms \cap F : May(p) \in F
            /\ "MIXEDMAP" \in F <=> "MIXEDMAP" \in vma.flags \/ SetMixedmap
    <2>1. CASE SetMixedmap
      <3> DEFINE F == vma.flags \cup {"MIXEDMAP"}
      <3>1. F \in SUBSET Flags /\ \A p \in Perms \cap F : May(p) \in F
        BY <1>0, FlagsDistinct DEF PermsAllowed
      <3>2. vma' = [vma EXCEPT !.flags = F] /\ UNCHANGED others
        BY <2>1 DEF SetMixedmap, UpdateFlags
      <3> QED  BY <2>1, <3>1, <3>2
    <2>2. CASE ~SetMixedmap /\ \E f \in Plain : SetPlain(f)
      <3>0. PICK f \in Plain : SetPlain(f)
        BY <2>2
      <3> DEFINE F == vma.flags \cup {f}
      <3>1. F \in SUBSET Flags /\ \A p \in Perms \cap F : May(p) \in F
        BY <1>0, FlagsDistinct DEF PermsAllowed
      <3>2. vma' = [vma EXCEPT !.flags = F] /\ UNCHANGED others
        BY <3>0 DEF SetPlain, UpdateFlags
      <3>3. f # "MIXEDMAP"
        BY MmAssumption
      <3> QED  BY <2>2, <3>1, <3>2, <3>3
    <2>3. CASE ~SetMixedmap /\ \E p \in Perms : TryClearMay(p)
      <3>0. PICK c \in Perms : TryClearMay(c)
        BY <2>3
      <3> DEFINE F == vma.flags \ {May(c)}
      <3>1. F \in SUBSET Flags
        BY <1>0
      <3>2. \A p \in Perms \cap F : May(p) \in F
        BY <1>0, <3>0, FlagsDistinct DEF PermsAllowed, TryClearMay
      <3>3. vma' = [vma EXCEPT !.flags = F] /\ UNCHANGED others
        BY <3>0 DEF TryClearMay, UpdateFlags
      <3>4. "MIXEDMAP" \in F <=> "MIXEDMAP" \in vma.flags
        BY FlagsDistinct
      <3> QED  BY <2>3, <3>1, <3>2, <3>3, <3>4
    <2>4. CASE ~SetMixedmap /\ Mprotect
      <3>0. PICK s \in SUBSET {q \in Perms : May(q) \in vma.flags} :
                vma' = [vma EXCEPT !.flags = (vma.flags \ Perms) \cup s]
        BY <2>4 DEF Mprotect
      <3> DEFINE F == (vma.flags \ Perms) \cup s
      <3>1. F \in SUBSET Flags
        BY <1>0, FlagsDistinct
      <3>2. \A p \in Perms \cap F : May(p) \in F
        BY FlagsDistinct
      <3>3. UNCHANGED others
        BY <2>4 DEF Mprotect
      <3>4. "MIXEDMAP" \in F <=> "MIXEDMAP" \in vma.flags
        BY FlagsDistinct
      <3> QED  BY <2>4, <3>0, <3>1, <3>2, <3>3, <3>4
    <2> QED  BY <2>1, <2>2, <2>3, <2>4
  <1>2. VmaInv' /\ vma'.start = vma.start /\ vma'.end = vma.end /\ vma'.flags = F
    BY <1>0, <1>1, VmaFlags
  <1>3. vma' # NoVma
    <2>1. vma.end # 0
      <3>1. PICK r \in Areas : vma.end = r[2]
        BY <1>0 DEF VmaInv, PlaceInv
      <3> QED  BY <3>1, MmAssumption
    <2> QED  BY <1>2, <2>1 DEF NoVma
  <1> QED  BY <1>1, <1>2, <1>3

\* The range zap_page_range_single checked is in the area, and wraps nowhere.
LEMMA ZapInside ==
  ASSUME VmaInv, NEW address \in Addrs, NEW size \in Addrs, ZapInBounds(address, size)
  PROVE  \A a \in {(address + i) % W : i \in {j \in Addrs : j < size}} : a \notin others
  <1> SUFFICES ASSUME NEW i \in Addrs, i < size
               PROVE  (address + i) % W \notin others
    OBVIOUS
  <1>0. W \in Nat /\ W > 0 /\ address \in Nat /\ size \in Nat /\ i \in Nat
    BY WIsNat DEF Addrs
  <1>1. vma.start \in Int /\ vma.end \in Int
    BY WIsNat DEF VmaInv, VmaTypeOK
  <1>2. (address + i) % W = address + i
    BY <1>0 DEF ZapInBounds
  <1>3. vma.start <= address + i /\ address + i < vma.end
    BY <1>0, <1>1 DEF ZapInBounds
  <1>4. vma # NoVma
    BY <1>0, <1>3 DEF NoVma
  <1>5. PICK r \in Areas : vma.start = r[1] /\ vma.end = r[2]
    BY <1>4 DEF VmaInv, PlaceInv
  <1>6. address + i \notin Outside
    BY <1>0, <1>1, <1>3, <1>5 DEF Outside
  <1> QED  BY <1>2, <1>6 DEF VmaInv, PlaceInv

AreaStateInv == VmaInv /\ VmaStable /\ MixedInv /\ LinkInv

\* The pages of the area.
PageInv == ptes \subseteq Addrs /\ pcount \in Nat /\ owned \in BOOLEAN /\ PageCounted

LEMMA PtesFinite ==
  ASSUME NEW S \in SUBSET Addrs
  PROVE  IsFiniteSet(S) /\ Cardinality(S) \in Nat /\ Cardinality(S) <= W
  <1>1. IsFiniteSet(Addrs) /\ Cardinality(Addrs) = W
    BY WIsNat, FS_Interval DEF Addrs
  <1> QED  BY <1>1, FS_Subset, FS_CardinalityType

LEMMA PagesUnmapped ==
  ASSUME PageInv, NEW S, Unmapped(S), UNCHANGED owned,
         \A a \in ptes \ S : (InArea(a))'
  PROVE  PageInv'
  <1>1. IsFiniteSet(ptes) /\ Cardinality(ptes) \in Nat
    BY PtesFinite DEF PageInv
  <1>2. Cardinality(ptes \ S) = Cardinality(ptes) - Cardinality(ptes \cap S)
    BY <1>1, FS_Difference
  <1>3. Cardinality(ptes \ S) \in Nat /\ Cardinality(ptes \cap S) \in Nat
    BY PtesFinite DEF PageInv
  <1>4. ptes' = ptes \ S /\ pcount' = pcount - Cardinality(ptes \cap S)
    BY DEF Unmapped
  <1>5. pcount = (IF owned THEN 1 ELSE 0) + Cardinality(ptes)
    BY DEF PageInv, PageCounted
  <1>6. pcount' = (IF owned' THEN 1 ELSE 0) + Cardinality(ptes') /\ pcount' \in Nat
    <2>1. (IF owned' THEN 1 ELSE 0) = (IF owned THEN 1 ELSE 0)
      OBVIOUS
    <2>2. (IF owned THEN 1 ELSE 0) \in Nat
      OBVIOUS
    <2>3. Cardinality(ptes') = Cardinality(ptes) - Cardinality(ptes \cap S)
      BY <1>2, <1>4
    <2>4. Cardinality(ptes') \in Nat
      BY <1>3, <1>4
    <2> QED  BY <1>1, <1>3, <1>4, <1>5, <2>1, <2>2, <2>3, <2>4
  <1>7. \A a \in ptes' : (InArea(a))'
    BY <1>4
  <1>8. ptes' \subseteq Addrs /\ owned' \in BOOLEAN
    BY <1>4 DEF PageInv
  <1> QED  BY <1>6, <1>7, <1>8 DEF PageInv, PageCounted

LEMMA PageInserted ==
  ASSUME PageInv, NEW a \in Addrs, Insert(a)
  PROVE  PageInv'
  <1>1. IsFiniteSet(ptes) /\ Cardinality(ptes) \in Nat
    BY PtesFinite DEF PageInv
  <1>2. Cardinality(ptes \cup {a}) = Cardinality(ptes) + 1
    BY <1>1, FS_AddElement DEF Insert
  <1>3. /\ ptes' = ptes \cup {a} /\ pcount' = pcount + 1 /\ owned' = owned /\ vma' = vma
        /\ InArea(a)
    BY DEF Insert
  <1>4. pcount = (IF owned THEN 1 ELSE 0) + Cardinality(ptes) /\ pcount \in Nat
    BY DEF PageInv, PageCounted
  <1>5. pcount' = (IF owned' THEN 1 ELSE 0) + Cardinality(ptes')
    BY <1>1, <1>2, <1>3, <1>4
  <1>6. \A b \in ptes' : (InArea(b))'
    BY <1>3 DEF PageInv, PageCounted, InArea
  <1>7. ptes' \subseteq Addrs /\ pcount' \in Nat /\ owned' \in BOOLEAN
    BY <1>3, <1>4 DEF PageInv
  <1> QED  BY <1>5, <1>6, <1>7 DEF PageInv, PageCounted

LEMMA PageOwned ==
  ASSUME PageInv, AllocPage \/ PageDrop
  PROVE  PageInv'
  <1>0. Cardinality(ptes) \in Nat
    BY PtesFinite DEF PageInv
  <1>1. ptes' = ptes /\ vma' = vma
    BY DEF AllocPage, PageDrop
  <1>2. pcount' = (IF owned' THEN 1 ELSE 0) + Cardinality(ptes) /\ pcount' \in Nat /\ owned' \in BOOLEAN
    <2>0. pcount = (IF owned THEN 1 ELSE 0) + Cardinality(ptes)
      BY DEF PageInv, PageCounted
    <2>1. CASE AllocPage
      <3>1. ~owned /\ pcount = 0 /\ owned' = TRUE /\ pcount' = 1
        BY <2>1 DEF AllocPage
      <3>2. Cardinality(ptes) = 0
        BY <1>0, <2>0, <3>1
      <3> QED  BY <3>1, <3>2
    <2>2. CASE PageDrop
      <3>1. owned /\ owned' = FALSE /\ pcount' = pcount - 1
        BY <2>2 DEF PageDrop
      <3>2. pcount = 1 + Cardinality(ptes)
        BY <2>0, <3>1
      <3>3. pcount' = 0 + Cardinality(ptes)
        BY <1>0, <3>1, <3>2
      <3>4. pcount' \in Nat /\ pcount' = (IF owned' THEN 1 ELSE 0) + Cardinality(ptes)
        BY <1>0, <3>1, <3>3
      <3> QED  BY <3>1, <3>4
    <2> QED  BY <2>1, <2>2
  <1>3. \A a \in ptes' : (InArea(a))'
    BY <1>1 DEF PageInv, PageCounted, InArea
  <1> QED  BY <1>1, <1>2, <1>3 DEF PageInv, PageCounted

LEMMA PageKept ==
  ASSUME PageInv, UNCHANGED <<ptes, owned, pcount>>,
         \A a \in ptes : (InArea(a))'
  PROVE  PageInv'
  BY DEF PageInv, PageCounted

\* No page is mapped where there is no area.
LEMMA NoPtes ==
  ASSUME PageInv, vma = NoVma
  PROVE  ptes = {}
  <1> SUFFICES ASSUME NEW a \in ptes
               PROVE  FALSE
    OBVIOUS
  <1>1. 0 <= a /\ a < 0 /\ a \in Addrs
    BY DEF PageInv, PageCounted, InArea, NoVma
  <1> QED  BY <1>1, WIsNat DEF Addrs

-----------------------------------------------------------------------------
(* Every step.                                                             *)

FullInv == HandleInv /\ AreaStateInv /\ PageInv /\ ref \in [Threads -> {"none", "ref", "mixed"}]
           /\ linked \in BOOLEAN /\ newMixed \in BOOLEAN

\* Who holds a VmaRef reads under the lock, so nobody changes areas.
LEMMA RefsNeedReaders ==
  ASSUME FullInv, readers = {}
  PROVE  \A t \in Threads : ref[t] = "none"
  BY DEF FullInv, AreaStateInv, VmaStable

LEMMA WriterAlone ==
  ASSUME FullInv, writer # "no"
  PROVE  readers = {} /\ teardown = "no"
  <1>0. Holding("User") \in Nat /\ Holding("Async") \in Nat
    BY HoldingType
  <1>1. readers = {} /\ proc
    BY DEF FullInv, HandleInv, LastUserInv
  <1>2. users > 0
    BY <1>0, <1>1 DEF FullInv, HandleInv, HandleTypeOK, CountsExact, Users
  <1> QED  BY <1>1, <1>2 DEF FullInv, HandleInv, LastUserInv

\* The steps that leave the area and its page alone.
LEMMA AreaSame ==
  ASSUME FullInv, HandleInv', UNCHANGED areaVars,
         \/ UNCHANGED lockVars
         \/ \E t \in Threads : LockStep(t)
         \/ EditStart
  PROVE  FullInv'
  <1>0. UNCHANGED <<vma, linked, ptes, others, owned, pcount>>
    BY DEF areaVars
  <1>1. VmaInv'
    BY <1>0 DEF FullInv, AreaStateInv, VmaInv, VmaTypeOK, PermsAllowed, PlaceInv
  <1>2. PageInv'
    BY <1>0 DEF FullInv, PageInv, PageCounted, InArea
  <1>3. /\ ref' \in [Threads -> {"none", "ref", "mixed"}]
        /\ linked' \in BOOLEAN /\ newMixed' \in BOOLEAN
    BY <1>0 DEF FullInv, lockVars, LockStep, MmapReadLock, VmaLookup, AsMixedmapVma,
                MmapReadUnlock, EditStart
  <1>4. VmaStable' /\ MixedInv' /\ LinkInv'
    <2>1. CASE UNCHANGED lockVars
      BY <1>0, <2>1 DEF lockVars, FullInv, AreaStateInv, VmaStable, MixedInv, LinkInv
    <2>2. ASSUME NEW t \in Threads, LockStep(t)
          PROVE  VmaStable' /\ MixedInv' /\ LinkInv'
      <3>0. FullInv /\ writer' = writer /\ newMixed' = newMixed
        BY <2>2 DEF LockStep, MmapReadLock, VmaLookup, AsMixedmapVma, MmapReadUnlock
      <3>1. MixedInv' /\ LinkInv'
        BY <1>0, <3>0 DEF FullInv, AreaStateInv, MixedInv, LinkInv
      <3>2. CASE MmapReadLock(t)
        BY <1>0, <3>0, <3>1, <3>2 DEF MmapReadLock, FullInv, AreaStateInv, VmaStable
      <3>3. CASE VmaLookup(t)
        <4>1. writer = "no"
          BY <3>0, <3>3 DEF VmaLookup, FullInv, HandleInv, LastUserInv
        <4> QED  BY <1>0, <3>0, <3>1, <3>3, <4>1 DEF VmaLookup, FullInv, AreaStateInv, VmaStable
      <3>4. CASE AsMixedmapVma(t)
        BY <1>0, <3>0, <3>1, <3>4 DEF AsMixedmapVma, FullInv, AreaStateInv, VmaStable
      <3>5. CASE MmapReadUnlock(t)
        BY <1>0, <3>0, <3>1, <3>5 DEF MmapReadUnlock, FullInv, AreaStateInv, VmaStable
      <3> QED  BY <1>0, <2>2, <3>0, <3>1, <3>2, <3>3, <3>4, <3>5 DEF LockStep
    <2>3. CASE EditStart
      <3>1. /\ writer = "no" /\ readers = {} /\ linked /\ writer' = "edit"
            /\ UNCHANGED <<readers, ref, newMixed>>
        BY <2>3 DEF EditStart
      <3>2. ~newMixed /\ \A t \in Threads : ref[t] = "none"
        BY <3>1, RefsNeedReaders DEF FullInv, AreaStateInv, MixedInv
      <3> QED  BY <1>0, <3>1, <3>2 DEF FullInv, AreaStateInv, VmaStable, MixedInv, LinkInv
    <2> QED  BY <2>1, <2>2, <2>3
  <1> QED  BY <1>1, <1>2, <1>3, <1>4 DEF FullInv, AreaStateInv

\* The area goes: nobody looks at it, and none of it stays mapped.
LEMMA AreaGone ==
  ASSUME FullInv, HandleInv', readers = {}, UNCHANGED ref, UNCHANGED owned,
         vma' = NoVma, linked' = FALSE, Unmapped(Addrs), others' \subseteq others,
         newMixed' = FALSE, writer' = "no"
  PROVE  FullInv'
  <1>1. VmaInv'
    BY VmaGone DEF FullInv, AreaStateInv
  <1>2. ptes \ Addrs = {}
    BY DEF FullInv, PageInv
  <1>3. PageInv'
    BY <1>2, PagesUnmapped DEF FullInv
  <1>4. \A t \in Threads : ref'[t] = "none"
    BY RefsNeedReaders
  <1>5. VmaStable' /\ MixedInv' /\ LinkInv'
    BY <1>4 DEF VmaStable, MixedInv, LinkInv
  <1> QED  BY <1>1, <1>3, <1>5 DEF FullInv, AreaStateInv

LEMMA AreaUndone ==
  ASSUME FullInv, HandleInv', Teardown \/ DoMunmap \/ (MmapReturns /\ vma' = NoVma)
  PROVE  FullInv'
  <1>1. CASE Teardown
    <2>1. writer = "no"
      BY <1>1, WriterAlone DEF Teardown
    <2>2. newMixed = FALSE
      BY <2>1 DEF FullInv, AreaStateInv, MixedInv
    <2> QED  BY <1>1, <2>1, <2>2, AreaGone DEF Teardown, lockVars
  <1>2. CASE DoMunmap
    <2>1. readers = {} /\ newMixed = FALSE
      BY <1>2, WriterAlone DEF DoMunmap, FullInv, AreaStateInv, MixedInv
    <2> QED  BY <1>2, <2>1, AreaGone DEF DoMunmap
  <1>3. CASE MmapReturns /\ vma' = NoVma
    <2>1. readers = {} /\ linked = FALSE
      BY <1>3, WriterAlone DEF MmapReturns, InCallback, FullInv, AreaStateInv, LinkInv
    <2>2. Unmapped(Addrs) /\ linked' = FALSE
      BY <1>3, <2>1 DEF MmapReturns, InCallback
    <2> QED  BY <1>3, <2>1, <2>2, AreaGone DEF MmapReturns
  <1> QED  BY <1>1, <1>2, <1>3

\* The area is made, edited and linked: its pages stay inside.
LEMMA AreaChanged ==
  ASSUME FullInv, HandleInv',
         \/ MmapStart \/ SetMixedmap \/ (\E f \in Plain : SetPlain(f))
         \/ (\E p \in Perms : TryClearMay(p)) \/ Mprotect
         \/ MmapReturns /\ vma' # NoVma
  PROVE  FullInv'
  <1>r. readers = {} /\ readers' = {} /\ \A t \in Threads : ref[t] = "none" /\ ref'[t] = "none"
    <2>1. readers = {} /\ UNCHANGED <<readers, ref>>
      BY WriterAlone DEF MmapStart, SetMixedmap, SetPlain, TryClearMay, Mprotect, MmapReturns,
                         InCallback, UpdateFlags
    <2> QED  BY <2>1, RefsNeedReaders
  <1>t. /\ ref' \in [Threads -> {"none", "ref", "mixed"}]
        /\ linked' \in BOOLEAN /\ newMixed' \in BOOLEAN
    BY DEF FullInv, MmapStart, SetMixedmap, SetPlain, TryClearMay, Mprotect, MmapReturns, UpdateFlags
  <1>p. VmaInv /\ PageInv /\ LinkInv /\ MixedInv /\ VmaStable
    BY DEF FullInv, AreaStateInv
  <1>1. CASE MmapStart
    <2>1. VmaInv' /\ vma' # NoVma
      BY <1>1, <1>p, VmaStarts
    <2>2. PageInv'
      BY <1>1, <1>p, NoPtes, PageKept DEF MmapStart
    <2>3. LinkInv' /\ MixedInv' /\ VmaStable'
      BY <1>1, <1>p, <1>r, <2>1 DEF MmapStart, LinkInv, MixedInv, VmaStable
    <2> QED  BY <1>t, <2>1, <2>2, <2>3 DEF FullInv, AreaStateInv
  <1>2. CASE MmapReturns /\ vma' # NoVma
    <2>1. /\ UNCHANGED <<vma, ptes, pcount, others, owned>> /\ linked' = TRUE
          /\ writer' = "no" /\ newMixed' = FALSE /\ vma # NoVma
      BY <1>2 DEF MmapReturns, InCallback
    <2>2. VmaInv'
      BY <1>p, <2>1 DEF VmaInv, VmaTypeOK, PermsAllowed, PlaceInv
    <2>3. PageInv'
      BY <1>p, <2>1 DEF PageInv, PageCounted, InArea
    <2>4. LinkInv' /\ MixedInv' /\ VmaStable'
      BY <1>r, <2>1 DEF LinkInv, MixedInv, VmaStable
    <2> QED  BY <1>t, <2>2, <2>3, <2>4 DEF FullInv, AreaStateInv
  <1>3. CASE \/ SetMixedmap \/ (\E f \in Plain : SetPlain(f)) \/ (\E p \in Perms : TryClearMay(p))
             \/ Mprotect
    <2>1. /\ VmaInv' /\ vma'.start = vma.start /\ vma'.end = vma.end /\ vma' # NoVma
          /\ "MIXEDMAP" \in vma'.flags <=> "MIXEDMAP" \in vma.flags \/ SetMixedmap
      BY <1>3, <1>p, VmaEdited DEF LinkInv
    <2>2. UNCHANGED <<ptes, owned, pcount, linked>>
      BY <1>3 DEF SetMixedmap, SetPlain, TryClearMay, Mprotect, UpdateFlags
    <2>3. \A a \in ptes : (InArea(a))'
      BY <1>p, <2>1 DEF PageInv, PageCounted, InArea
    <2>4. PageInv'
      BY <1>p, <2>2, <2>3, PageKept
    <2>5. \/ SetMixedmap /\ writer' = writer /\ writer = "mmap" /\ newMixed' = TRUE
          \/ ~SetMixedmap /\ newMixed' = newMixed /\ writer' = writer /\ writer = "mmap"
          \/ ~SetMixedmap /\ newMixed' = newMixed /\ writer = "edit" /\ writer' = "no"
      BY <1>3 DEF SetMixedmap, SetPlain, TryClearMay, Mprotect, UpdateFlags, InCallback
    <2>6. LinkInv' /\ MixedInv'
      BY <1>p, <2>1, <2>2, <2>5 DEF LinkInv, MixedInv
    <2>7. newMixed' => "MIXEDMAP" \in vma'.flags
      BY <1>p, <2>1, <2>5 DEF VmaStable
    <2>8. VmaStable'
      BY <1>r, <2>7 DEF VmaStable
    <2> QED  BY <1>t, <2>1, <2>4, <2>6, <2>8 DEF FullInv, AreaStateInv
  <1> QED  BY <1>1, <1>2, <1>3

\* The driver maps its page, unmaps it, takes and drops it.
LEMMA AreaPages ==
  ASSUME FullInv, HandleInv',
         \/ VmInsertPage \/ AllocPage \/ PageDrop
         \/ \E a \in Addrs, n \in Addrs : ZapPageRangeSingle(a, n)
  PROVE  FullInv' /\ others' = others
  <1>1. UNCHANGED <<vma, linked, lockVars>>
    BY DEF VmInsertPage, Insert, AllocPage, PageDrop, ZapPageRangeSingle
  <1>2. PageInv
    BY DEF FullInv
  <1>3. PageInv' /\ others' = others
    <2>1. CASE VmInsertPage
      BY <1>2, <2>1, PageInserted DEF VmInsertPage, Insert
    <2>2. CASE AllocPage \/ PageDrop
      BY <1>2, <2>2, PageOwned DEF AllocPage, PageDrop
    <2>3. ASSUME NEW a \in Addrs, NEW n \in Addrs, ZapPageRangeSingle(a, n)
          PROVE  PageInv' /\ others' = others
      <3> DEFINE range == {(a + i) % W : i \in {j \in Addrs : j < n}}
      <3>1. \A b \in range : b \notin others
        BY <2>3, ZapInside DEF FullInv, AreaStateInv, ZapPageRangeSingle
      <3>2. others' = others \ range /\ Unmapped(range) /\ UNCHANGED <<owned, vma>>
        BY <2>3 DEF ZapPageRangeSingle
      <3> HIDE DEF range
      <3>3. \A b \in ptes \ range : (InArea(b))'
        BY <1>2, <3>2 DEF PageInv, PageCounted, InArea
      <3>4. PageInv'
        BY <1>2, <3>2, <3>3, PagesUnmapped
      <3> QED  BY <3>1, <3>2, <3>4
    <2> QED  BY <2>1, <2>2, <2>3
  <1>4. VmaInv'
    BY <1>1, <1>3 DEF FullInv, AreaStateInv, VmaInv, VmaTypeOK, PermsAllowed, PlaceInv
  <1>5. VmaStable' /\ MixedInv' /\ LinkInv'
    BY <1>1 DEF lockVars, FullInv, AreaStateInv, VmaStable, MixedInv, LinkInv
  <1>6. /\ ref' \in [Threads -> {"none", "ref", "mixed"}]
        /\ linked' \in BOOLEAN /\ newMixed' \in BOOLEAN
    BY <1>1 DEF lockVars, FullInv
  <1> QED  BY <1>3, <1>4, <1>5, <1>6 DEF FullInv, AreaStateInv

LEMMA FullNext == FullInv /\ [Next]_vars => FullInv' /\ (others' = others \/ teardown' = "done")
  <1> SUFFICES ASSUME FullInv, [Next]_vars
               PROVE  FullInv' /\ (others' = others \/ teardown' = "done")
    OBVIOUS
  <1>0. HandleInv'
    BY HandleNext DEF FullInv
  <1>1. CASE UNCHANGED vars \/ (\E t \in Threads : HandleStep(t) \/ LockStep(t)) \/ ProcExits \/ EditStart
    <2>1. UNCHANGED areaVars /\ (UNCHANGED lockVars \/ (\E t \in Threads : LockStep(t)) \/ EditStart)
      BY <1>1 DEF vars, HandleStep, MmFrom, MmgetNotZero, IntoMmputAsync, DropUser, DropMm,
                  MmUserClone, LockStep, MmapReadLock, VmaLookup, AsMixedmapVma, MmapReadUnlock,
                  ProcExits, EditStart
    <2>2. others' = others
      BY <2>1 DEF areaVars
    <2> QED  BY <1>0, <2>1, <2>2, AreaSame
  <1>2. CASE Teardown
    BY <1>0, <1>2, AreaUndone DEF Teardown
  <1>3. CASE DoMunmap
    BY <1>0, <1>3, AreaUndone DEF DoMunmap
  <1>4. CASE MmapStep
    <2>1. others' = others
      BY <1>4 DEF MmapStep, MmapStart, SetMixedmap, SetPlain, TryClearMay, UpdateFlags, MmapReturns
    <2> QED  BY <1>0, <1>4, <2>1, AreaChanged, AreaUndone DEF MmapStep
  <1>5. CASE Mprotect
    BY <1>0, <1>5, AreaChanged DEF Mprotect
  <1>6. CASE \/ VmInsertPage \/ AllocPage \/ PageDrop
             \/ \E a \in Addrs, n \in Addrs : ZapPageRangeSingle(a, n)
    BY <1>0, <1>6, AreaPages
  <1> QED  BY <1>1, <1>2, <1>3, <1>4, <1>5, <1>6 DEF Next

LEMMA FullInit == Init => FullInv
  <1> HAVE Init
  <1>1. HandleInv
    BY HandleInit
  <1>2. VmaInv
    <2>1. VmaTypeOK
      BY NoVmaOk DEF Init, VmaTypeOK
    <2>2. PermsAllowed
      BY DEF Init, PermsAllowed, NoVma
    <2>3. PlaceInv
      BY DEF Init, PlaceInv
    <2> QED  BY <2>1, <2>2, <2>3 DEF VmaInv
  <1>3. PageInv
    <2>1. Cardinality(ptes) = 0 /\ ptes = {} /\ owned = FALSE /\ pcount = 0
      BY FS_EmptySet DEF Init
    <2>2. pcount = (IF owned THEN 1 ELSE 0) + Cardinality(ptes) /\ pcount \in Nat
      BY <2>1
    <2> QED  BY <2>1, <2>2 DEF PageInv, PageCounted
  <1>4. VmaStable /\ MixedInv /\ LinkInv
    BY DEF Init, VmaStable, MixedInv, LinkInv
  <1>5. /\ ref \in [Threads -> {"none", "ref", "mixed"}]
        /\ linked \in BOOLEAN /\ newMixed \in BOOLEAN
    BY DEF Init
  <1> QED  BY <1>1, <1>2, <1>3, <1>4, <1>5 DEF FullInv, AreaStateInv

\* FullInv is an inductive invariant of the address space.
THEOREM MmInductive == Spec => []FullInv
  <1>1. FullInv /\ [Next]_vars => FullInv'
    BY FullNext
  <1> QED  BY <1>1, FullInit, PTL DEF Spec

\* For any number of threads, however their handles race the exit of the
\* process, and whichever of mmput and mmput_async the kernel has: no user is
\* given back too often, with both functions the counts are exact, a Mm keeps
\* the mm_struct and a MmWithUser keeps the mappings.
THEOREM HandlesKeepTheirs == Spec => []HandlesInv
  <1>1. FullInv => HandlesInv
    <2> SUFFICES ASSUME FullInv PROVE HandlesInv
      OBVIOUS
    <2>1. HandleTypeOK /\ CountsExact /\ UsersKeepMappings
      BY HandlesKeep DEF FullInv, HandleInv
    <2>2. pcount \in 0 .. W + 1
      <3>1. Cardinality(ptes) \in Nat /\ Cardinality(ptes) <= W
        BY PtesFinite DEF FullInv, PageInv
      <3>2. pcount = (IF owned THEN 1 ELSE 0) + Cardinality(ptes)
        BY DEF FullInv, PageInv, PageCounted
      <3> QED  BY <3>1, <3>2, WIsNat
    <2>3. others \subseteq Addrs
      BY DEF FullInv, AreaStateInv, VmaInv, PlaceInv, Outside
    <2>4. TypeOK
      BY <2>1, <2>2, <2>3 DEF FullInv, AreaStateInv, VmaInv, VmaTypeOK, PageInv, HandleTypeOK, TypeOK
    <2> QED  BY <2>1, <2>4 DEF HandlesInv
  <1> QED  BY <1>1, MmInductive, PTL

\* For any areas and address space size: a VmaRef stays valid under its guard, no
\* permission comes that is not allowed, and the page is counted where it is
\* mapped.
THEOREM AreaStaysPut == Spec => []AreaInv
  <1>1. FullInv => AreaInv
    BY DEF FullInv, AreaStateInv, VmaInv, PageInv, AreaInv
  <1> QED  BY <1>1, MmInductive, PTL

\* No call of the driver unmaps what other areas map, wherever they are.
THEOREM OthersStayMapped == Spec => OthersUntouched
  <1>1. FullInv /\ [Next]_vars => [others' = others \/ teardown' = "done"]_vars
    BY FullNext
  <1> QED  BY <1>1, MmInductive, PTL DEF Spec, OthersUntouched
=============================================================================

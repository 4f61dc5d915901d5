--------------------------- MODULE IndexFileProofs --------------------------
(***************************************************************************)
(* What IndexFile promises, for any number of writers, readers and inodes. *)
(* Types hold whether or not writers overlap; the rest is proved for one   *)
(* writer at a time, which is what the files rely on (IndexFile_overlap    *)
(* shows what happens otherwise).                                          *)
(*                                                                         *)
(* The second half is about the layout: whatever index write_index is      *)
(* given, IndexReader reads it back.  Offsets come from what was written   *)
(* before, so a region, an entry of a table and a list are each found by   *)
(* the same lemma on parts written one after the other.                    *)
(***************************************************************************)
EXTENDS IndexFile, DataInduction, SequenceTheorems, TLAPS

\* A writer at work has the index it was given, and its descriptor until the
\* body is written.
HasWork ==
    \A w \in Writers :
        /\ pc[w] # "idle" => want[w] \in Contents
        /\ pc[w] \in {"start", "body"} => fd[w] \in Inodes

\* Every variable keeps its type, with writers that overlap as well as without.
THEOREM TypeCorrect == Spec => [](TypeOK /\ HasWork)
<1> DEFINE TypeInv == TypeOK /\ HasWork
<1>1. Init => TypeInv
  BY IndexFileConstants DEF Init, TypeOK, HasWork, Phases, Image, Bodies, Seals, Blank
<1>2. TypeInv /\ [Next]_vars => TypeInv'
  <2> SUFFICES ASSUME TypeInv, [Next]_vars PROVE TypeInv'
    OBVIOUS
  <2> USE IndexFileConstants DEF TypeOK, HasWork, Phases, Image, Bodies, Seals
  <2>1. ASSUME NEW w \in Writers, Create(w) PROVE TypeInv'
    BY <2>1 DEF Create, Blank
  <2>2. ASSUME NEW w \in Writers, WriteSome(w) PROVE TypeInv'
    BY <2>2 DEF WriteSome, Spoilt, names
  <2>3. ASSUME NEW w \in Writers, WriteRest(w) PROVE TypeInv'
    BY <2>3 DEF WriteRest, Spoilt, names
  <2>4. ASSUME NEW w \in Writers, Checksum(w) PROVE TypeInv'
    BY <2>4 DEF Checksum, names
  <2>5. ASSUME NEW w \in Writers, AppendFooter(w) PROVE TypeInv'
    BY <2>5 DEF AppendFooter, names
  <2>6. ASSUME NEW w \in Writers, Rename(w) PROVE TypeInv'
    BY <2>6 DEF Rename, Leave
  <2>7. ASSUME NEW w \in Writers, Fail(w) PROVE TypeInv'
    BY <2>7 DEF Fail, Leave, names
  <2>8. ASSUME NEW r \in Readers, Open(r) PROVE TypeInv'
    BY <2>8 DEF Open, names, writer
  <2>9. ASSUME NEW r \in Readers, Close(r) PROVE TypeInv'
    BY <2>9 DEF Close, names, writer
  <2>10. CASE Crash
    BY <2>10 DEF Crash, names
  <2>11. CASE UNCHANGED vars
    BY <2>11 DEF vars, names, writer
  <2> QED
    BY <2>1, <2>2, <2>3, <2>4, <2>5, <2>6, <2>7, <2>8, <2>9, <2>10, <2>11 DEF Next
<1> QED
  BY <1>1, <1>2, PTL DEF Spec

-----------------------------------------------------------------------------
\* The only writer at work owns the temporary file, and nobody else refers to it.
OneWriter == \A v, w \in Writers : pc[v] # "idle" /\ pc[w] # "idle" => v = w
TmpIsPrivate ==
    /\ tmp # None => tmp # idx /\ \A r \in Readers : map[r] # None => map[r].ino # tmp
    /\ \A w \in Writers :
         /\ pc[w] # "idle" => tmp # None
         /\ fd[w] = IF pc[w] \in {"start", "body"} THEN tmp ELSE None
         /\ pc[w] \in {"start", "body"} => tmp \notin shared

\* What the temporary file holds at each phase of its writer.
TmpHolds ==
    \A w \in Writers :
        /\ pc[w] \in {"start", "body"} => file[tmp].seal = "none"
        /\ pc[w] \in {"check", "seal", "rename"} => file[tmp].body \in Contents
        /\ pc[w] = "seal" => sum[w] = file[tmp]
        /\ pc[w] = "rename" => file[tmp].seal = "good"

Owned == OneWriter /\ TmpIsPrivate /\ TmpHolds

\* Without overlap the published index is whole through every failure and
\* crash, and the bytes under a mapped reader stay what it validated.  Neither
\* is inductive: the rename publishes what the phases before it have left in
\* the temporary file, which must be complete, sealed, and nobody else's.
THEOREM FilesStayWhole ==
    ASSUME Overlap = FALSE
    PROVE  Spec => [](PublishedIsWhole /\ MappedIntact /\ Owned)
<1> DEFINE FileInv == PublishedIsWhole /\ MappedIntact /\ Owned
<1>1. Init => FileInv
  BY IndexFileConstants
  DEF Init, Owned, OneWriter, TmpIsPrivate, TmpHolds, PublishedIsWhole, MappedIntact
<1>2. TypeOK /\ HasWork /\ FileInv /\ [Next]_vars => FileInv'
  <2> SUFFICES ASSUME TypeOK, HasWork, FileInv, [Next]_vars PROVE FileInv'
    OBVIOUS
  <2> USE IndexFileConstants
      DEF TypeOK, HasWork, Phases, Image, Bodies, Seals,
          Owned, OneWriter, TmpIsPrivate, TmpHolds, PublishedIsWhole, MappedIntact
  <2>1. ASSUME NEW w \in Writers, Create(w) PROVE FileInv'
    BY <2>1 DEF Create, Blank, Free
  <2>2. ASSUME NEW w \in Writers, WriteSome(w) PROVE FileInv'
    BY <2>2 DEF WriteSome, Spoilt, names
  <2>3. ASSUME NEW w \in Writers, WriteRest(w) PROVE FileInv'
    BY <2>3 DEF WriteRest, Spoilt, names
  <2>4. ASSUME NEW w \in Writers, Checksum(w) PROVE FileInv'
    BY <2>4 DEF Checksum, names
  <2>5. ASSUME NEW w \in Writers, AppendFooter(w) PROVE FileInv'
    BY <2>5 DEF AppendFooter, names
  <2>6. ASSUME NEW w \in Writers, Rename(w) PROVE FileInv'
    BY <2>6 DEF Rename, Leave
  <2>7. ASSUME NEW w \in Writers, Fail(w) PROVE FileInv'
    BY <2>7 DEF Fail, Leave, names
  <2>8. ASSUME NEW r \in Readers, Open(r) PROVE FileInv'
    BY <2>8 DEF Open, names, writer
  <2>9. ASSUME NEW r \in Readers, Close(r) PROVE FileInv'
    BY <2>9 DEF Close, names, writer
  <2>10. CASE Crash
    BY <2>10 DEF Crash, names
  <2>11. CASE UNCHANGED vars
    BY <2>11 DEF vars, names, writer
  <2> QED
    BY <2>1, <2>2, <2>3, <2>4, <2>5, <2>6, <2>7, <2>8, <2>9, <2>10, <2>11 DEF Next
<1> QED
  BY <1>1, <1>2, TypeCorrect, PTL DEF Spec

-----------------------------------------------------------------------------
\* Without overlap the files implement a register that is replaced as a whole,
\* with views that never change: a rename is a Replace, an opening a Look, a
\* dropped reader a Drop, and all that is done to the temporary file a stutter.
THEOREM FilesAreRegister ==
    ASSUME Overlap = FALSE
    PROVE  Spec => ImplementsRegister
<1> DEFINE current == IF idx = None THEN None ELSE file[idx].body
           view == [r \in Readers |-> IF map[r] = None THEN None ELSE file[map[r].ino].body]
           Known == TypeOK /\ HasWork /\ PublishedIsWhole /\ MappedIntact /\ Owned
<1>1. Init => Register!Init
  BY DEF Init, Register!Init
<1>2. Known /\ [Next]_vars => [Register!Next]_(Register!registerVars)
  <2> SUFFICES ASSUME Known, [Next]_vars
               PROVE  Register!Next \/ UNCHANGED <<current, view>>
    BY DEF Register!registerVars
  <2> USE IndexFileConstants
      DEF TypeOK, HasWork, Phases, Image, Bodies, Seals, Owned, OneWriter,
          TmpIsPrivate, TmpHolds, PublishedIsWhole, MappedIntact
  <2>1. ASSUME NEW w \in Writers, Create(w) PROVE UNCHANGED <<current, view>>
    BY <2>1 DEF Create, Blank, Free
  <2>2. ASSUME NEW w \in Writers, WriteSome(w) PROVE UNCHANGED <<current, view>>
    BY <2>2 DEF WriteSome, Spoilt, names
  <2>3. ASSUME NEW w \in Writers, WriteRest(w) PROVE UNCHANGED <<current, view>>
    BY <2>3 DEF WriteRest, Spoilt, names
  <2>4. ASSUME NEW w \in Writers, Checksum(w) PROVE UNCHANGED <<current, view>>
    BY <2>4 DEF Checksum, names
  <2>5. ASSUME NEW w \in Writers, AppendFooter(w) PROVE UNCHANGED <<current, view>>
    BY <2>5 DEF AppendFooter, names
  <2>6. ASSUME NEW w \in Writers, Rename(w) PROVE Register!Replace
    BY <2>6 DEF Rename, Leave, Register!Replace
  <2>7. ASSUME NEW w \in Writers, Fail(w) PROVE UNCHANGED <<current, view>>
    BY <2>7 DEF Fail, Leave, names
  <2>8. ASSUME NEW r \in Readers, Open(r) PROVE Register!Look(r)
    <3> DEFINE m == [ino |-> idx, saw |-> file[idx]]
    <3>1. m # None /\ idx # None /\ m.ino = idx
      BY <2>8 DEF Open
    <3>2. map' = [map EXCEPT ![r] = m] /\ file' = file /\ idx' = idx
      BY <2>8 DEF Open, names
    <3> HIDE DEF m
    <3>3. view' = [view EXCEPT ![r] = current]
      BY <3>1, <3>2
    <3> QED
      BY <3>1, <3>2, <3>3 DEF Register!Look
  <2>9. ASSUME NEW r \in Readers, Close(r) PROVE Register!Drop(r)
    BY <2>9 DEF Close, names, writer, Register!Drop
  <2>10. ASSUME Crash PROVE Register!Crash
    BY <2>10 DEF Crash, names, Register!Crash
  <2>11. ASSUME UNCHANGED vars PROVE UNCHANGED <<current, view>>
    BY <2>11 DEF vars, names, writer
  <2> HIDE DEF current, view
  <2> QED
    BY <2>1, <2>2, <2>3, <2>4, <2>5, <2>6, <2>7, <2>8, <2>9, <2>10, <2>11
    DEF Next, Register!Next
<1> QED
  BY <1>1, <1>2, TypeCorrect, FilesStayWhole, PTL
  DEF Spec, ImplementsRegister, Register!Spec

-----------------------------------------------------------------------------
\* A sequence holds a part at an offset.
HasPart(seq, off, part) ==
    off + Len(part) <= Len(seq) /\ \A k \in 1..Len(part) : seq[off + k] = part[k]

\* Parts of two sequences written one after the other: the second is at the end of
\* the first, and what the first has stays where it is.
LEMMA ConcatHas ==
  ASSUME NEW S, NEW a \in Seq(S), NEW b \in Seq(S)
  PROVE  /\ HasPart(a \o b, Len(a), b)
         /\ \A off \in Nat, part \in Seq(S) : HasPart(a, off, part) => HasPart(a \o b, off, part)
<1>1. a \o b \in Seq(S) /\ Len(a \o b) = Len(a) + Len(b)
  BY ConcatProperties
<1>2. \A i \in 1..(Len(a) + Len(b)) : (a \o b)[i] = IF i <= Len(a) THEN a[i] ELSE b[i - Len(a)]
  BY ConcatProperties
<1>3. HasPart(a \o b, Len(a), b)
  BY <1>1, <1>2 DEF HasPart
<1>4. ASSUME NEW off \in Nat, NEW part \in Seq(S), HasPart(a, off, part)
      PROVE  HasPart(a \o b, off, part)
  BY <1>1, <1>2, <1>4 DEF HasPart
<1> QED BY <1>3, <1>4

\* A part of a part.
LEMMA PartHas ==
  ASSUME NEW S, NEW seq \in Seq(S), NEW part \in Seq(S), NEW piece \in Seq(S),
         NEW off \in Nat, NEW at \in Nat, HasPart(seq, off, part), HasPart(part, at, piece)
  PROVE  HasPart(seq, off + at, piece)
<1>1. ASSUME NEW k \in 1..Len(piece) PROVE seq[off + at + k] = piece[k]
  <2>1. at + k \in 1..Len(part) /\ part[at + k] = piece[k]
    BY DEF HasPart
  <2>2. seq[off + (at + k)] = part[at + k]
    BY <2>1 DEF HasPart
  <2> QED BY <2>1, <2>2
<1> QED BY <1>1 DEF HasPart

\* A slice where a part is, of its length, is the part.
LEMMA PartIsSlice ==
  ASSUME NEW S, NEW seq \in Seq(S), NEW part \in Seq(S), NEW off \in Nat, HasPart(seq, off, part)
  PROVE  Slice(seq, off, Len(part)) = part
<1> DEFINE slice == SubSeq(seq, off + 1, off + Len(part))
<1>1. \A i \in (off + 1)..(off + Len(part)) : seq[i] \in S
  BY DEF HasPart
<1>2. /\ slice \in Seq(S) /\ Len(slice) = Len(part)
      /\ \A k \in 1..Len(part) : slice[k] = seq[off + k]
  <2>1. off + 1 \in Int /\ off + Len(part) \in Int
    OBVIOUS
  <2>2. /\ slice \in Seq(S)
        /\ Len(slice) = IF off + 1 <= off + Len(part) THEN (off + Len(part)) - (off + 1) + 1 ELSE 0
        /\ \A k \in 1..((off + Len(part)) - (off + 1) + 1) : slice[k] = seq[(off + 1) + k - 1]
    BY <1>1, <2>1, SubSeqProperties
  <2> HIDE DEF slice
  <2>3. \A k \in 1..Len(part) : (off + 1) + k - 1 = off + k
    OBVIOUS
  <2> QED BY <2>2, <2>3
<1> HIDE DEF slice
<1>3. \A k \in 1..Len(slice) : slice[k] = part[k]
  BY <1>2 DEF HasPart
<1>4. slice = part
  BY <1>2, <1>3, SeqEqual
<1> QED BY <1>4 DEF slice, Slice

-----------------------------------------------------------------------------
\* The first n parts, one after the other.
Upto(parts, n) == FlattenSeq(SubSeq(parts, 1, n))

\* The next of the first n parts, and how many cells come before it.
LEMMA BeforeNext ==
  ASSUME NEW S, NEW parts \in Seq(Seq(S)), NEW i \in 1..Len(parts)
  PROVE  /\ Upto(parts, i) = Upto(parts, i - 1) \o parts[i]
         /\ Upto(parts, i) \in Seq(S) /\ Upto(parts, i - 1) \in Seq(S) /\ parts[i] \in Seq(S)
         /\ Before(parts, i) = Len(Upto(parts, i - 1))
<1>1. /\ SubSeq(parts, 1, i - 1) \in Seq(Seq(S)) /\ SubSeq(parts, 1, i) \in Seq(Seq(S))
      /\ parts[i] \in Seq(S)
  OBVIOUS
<1>2. SubSeq(parts, 1, i) = Append(SubSeq(parts, 1, i - 1), parts[i])
  OBVIOUS
<1>3. /\ FlattenSeq(SubSeq(parts, 1, i)) = FlattenSeq(SubSeq(parts, 1, i - 1)) \o parts[i]
      /\ FlattenSeq(SubSeq(parts, 1, i - 1)) \in Seq(S)
  BY <1>1, <1>2, FlattenAppend
<1>4. FlattenSeq(SubSeq(parts, 1, i)) \in Seq(S)
  BY <1>1, FlattenAppend, ConcatProperties
<1> QED BY <1>1, <1>3, <1>4 DEF Before, Upto

\* None of the parts is nothing; all of them are the whole.
LEMMA UptoEnds ==
  ASSUME NEW S, NEW parts \in Seq(Seq(S))
  PROVE  /\ Upto(parts, 0) = <<>> /\ Upto(parts, Len(parts)) = FlattenSeq(parts)
         /\ FlattenSeq(parts) \in Seq(S)
<1>1. SubSeq(parts, 1, 0) = <<>> /\ SubSeq(parts, 1, Len(parts)) = parts
  OBVIOUS
<1>2. FlattenSeq(<<>>) = <<>>
  BY DEF FlattenSeq
<1>3. FlattenSeq(parts) \in Seq(S)
  <2>1. <<>> \in Seq(S)
    OBVIOUS
  <2> QED BY <2>1, FlattenAppend
<1> QED BY <1>1, <1>2, <1>3 DEF Upto

\* Each part is where the offsets say it is.
LEMMA FlattenHas ==
  ASSUME NEW S, NEW parts \in Seq(Seq(S)), NEW i \in 1..Len(parts)
  PROVE  /\ Before(parts, i) \in Nat /\ HasPart(FlattenSeq(parts), Before(parts, i), parts[i])
<1> DEFINE P == {n \in Nat : i + n <= Len(parts) => HasPart(Upto(parts, i + n), Before(parts, i), parts[i])}
<1>1. Before(parts, i) \in Nat /\ parts[i] \in Seq(S)
  <2>1. Upto(parts, i - 1) \in Seq(S) /\ Before(parts, i) = Len(Upto(parts, i - 1))
    BY BeforeNext
  <2> QED BY <2>1
<1>2. 0 \in P
  <2>1. HasPart(Upto(parts, i), Before(parts, i), parts[i])
    <3>1. /\ Upto(parts, i) = Upto(parts, i - 1) \o parts[i] /\ Upto(parts, i - 1) \in Seq(S)
          /\ Before(parts, i) = Len(Upto(parts, i - 1))
      BY BeforeNext
    <3>2. HasPart(Upto(parts, i - 1) \o parts[i], Len(Upto(parts, i - 1)), parts[i])
      BY <1>1, <3>1, ConcatHas
    <3> QED BY <3>1, <3>2
  <2> QED BY <2>1
<1>3. ASSUME NEW n \in Nat, n \in P PROVE n + 1 \in P
  <2> SUFFICES ASSUME i + (n + 1) <= Len(parts)
               PROVE  HasPart(Upto(parts, i + (n + 1)), Before(parts, i), parts[i])
    OBVIOUS
  <2>1. PICK k \in 1..Len(parts) : k = i + (n + 1) /\ k - 1 = i + n
    OBVIOUS
  <2>2. HasPart(Upto(parts, k - 1), Before(parts, i), parts[i])
    BY <1>3, <2>1
  <2>3. /\ Upto(parts, k) = Upto(parts, k - 1) \o parts[k]
        /\ Upto(parts, k - 1) \in Seq(S) /\ parts[k] \in Seq(S)
    BY BeforeNext
  <2>4. HasPart(Upto(parts, k), Before(parts, i), parts[i])
    BY <1>1, <2>2, <2>3, ConcatHas
  <2> QED BY <2>1, <2>4
<1>4. Nat \subseteq P
  <2> HIDE DEF P
  <2> QED BY <1>2, <1>3, Induction
<1>5. HasPart(Upto(parts, Len(parts)), Before(parts, i), parts[i])
  <2>1. Len(parts) - i \in Nat /\ i + (Len(parts) - i) = Len(parts)
    OBVIOUS
  <2>2. Len(parts) - i \in P
    BY <1>4, <2>1
  <2> QED BY <2>1, <2>2
<1> QED BY <1>1, <1>5, UptoEnds

\* Where all parts have four cells, offsets are multiples of four.
LEMMA FourCells ==
  ASSUME NEW S, NEW parts \in Seq(Seq(S)), \A i \in 1..Len(parts) : Len(parts[i]) = 4
  PROVE  /\ \A i \in 1..Len(parts) : Before(parts, i) = 4 * (i - 1)
         /\ Len(FlattenSeq(parts)) = 4 * Len(parts)
<1> DEFINE P == {n \in Nat : n <= Len(parts) => Len(Upto(parts, n)) = 4 * n}
<1>1. 0 \in P
  BY UptoEnds
<1>2. ASSUME NEW n \in Nat, n \in P PROVE n + 1 \in P
  <2> SUFFICES ASSUME n + 1 <= Len(parts) PROVE Len(Upto(parts, n + 1)) = 4 * (n + 1)
    OBVIOUS
  <2>1. PICK k \in 1..Len(parts) : k = n + 1 /\ k - 1 = n
    OBVIOUS
  <2>2. Len(Upto(parts, k - 1)) = 4 * n
    BY <1>2, <2>1
  <2>3. /\ Upto(parts, k) = Upto(parts, k - 1) \o parts[k]
        /\ Upto(parts, k - 1) \in Seq(S) /\ parts[k] \in Seq(S)
    BY BeforeNext
  <2>4. Len(Upto(parts, k)) = Len(Upto(parts, k - 1)) + Len(parts[k])
    BY <2>3, ConcatProperties
  <2>5. Len(Upto(parts, k)) = 4 * n + 4
    BY <2>2, <2>4
  <2> QED BY <2>1, <2>5
<1>3. Nat \subseteq P
  <2> HIDE DEF P
  <2> QED BY <1>1, <1>2, Induction
<1>4. ASSUME NEW i \in 1..Len(parts) PROVE Before(parts, i) = 4 * (i - 1)
  <2>1. i - 1 \in P
    BY <1>3
  <2>2. Before(parts, i) = Len(Upto(parts, i - 1))
    BY BeforeNext
  <2> QED BY <2>1, <2>2
<1>5. Len(parts) \in P
  BY <1>3
<1> QED BY <1>4, <1>5, UptoEnds

-----------------------------------------------------------------------------
\* The ids of a finite set in order are its ids.
LEMMA AscendingHasAll ==
  ASSUME NEW ids \in SUBSET Nat, IsFiniteSet(ids)
  PROVE  /\ Ascending(ids) \in Seq(ids) /\ Len(Ascending(ids)) = Cardinality(ids)
         /\ Cardinality(ids) \in Nat
         /\ {Ascending(ids)[j] : j \in 1..Cardinality(ids)} = ids
<1> DEFINE below(d) == {other \in ids : other < d}
           place == [d \in ids |-> Cardinality(below(d))]
<1>1. PICK n \in Nat : n = Cardinality(ids)
  BY FS_CardinalityType
<1>2. \A d \in ids : IsFiniteSet(below(d)) /\ Cardinality(below(d)) \in Nat
  <2> SUFFICES ASSUME NEW d \in ids PROVE IsFiniteSet(below(d)) /\ Cardinality(below(d)) \in Nat
    OBVIOUS
  <2>1. IsFiniteSet(below(d))
    BY FS_Subset
  <2> QED BY <2>1, FS_CardinalityType
<1>3. ASSUME NEW d \in ids PROVE place[d] \in 0..(n - 1)
  <2>1. below(d) \subseteq ids \ {d}
    OBVIOUS
  <2>2. IsFiniteSet(ids \ {d}) /\ Cardinality(ids \ {d}) = n - 1
    BY <1>1, FS_RemoveElement
  <2>3. Cardinality(below(d)) <= n - 1
    <3> HIDE DEF below
    <3> QED BY <2>1, <2>2, FS_Subset
  <2> QED BY <1>2, <2>3
<1>4. ASSUME NEW d \in ids, NEW e \in ids, d < e PROVE place[d] < place[e]
  <2>1. below(d) \subseteq below(e) \ {d} /\ d \in below(e)
    <3>1. ids \subseteq Nat /\ d \in Nat /\ e \in Nat
      OBVIOUS
    <3>2. ASSUME NEW other \in ids, other < d PROVE other < e /\ other # d
      BY <1>4, <3>1, <3>2
    <3> QED BY <1>4, <3>2
  <2> HIDE DEF below
  <2>2. IsFiniteSet(below(e) \ {d}) /\ Cardinality(below(e) \ {d}) = Cardinality(below(e)) - 1
    BY <1>2, <2>1, FS_RemoveElement
  <2>3. Cardinality(below(d)) <= Cardinality(below(e) \ {d})
    BY <2>1, <2>2, FS_Subset
  <2> QED BY <1>2, <2>2, <2>3
<1>5. \A d, e \in ids : d # e => place[d] # place[e]
  <2> SUFFICES ASSUME NEW d \in ids, NEW e \in ids, d # e PROVE place[d] # place[e]
    OBVIOUS
  <2>1. d \in Nat /\ e \in Nat /\ place[d] \in Nat /\ place[e] \in Nat
    BY <1>2
  <2>2. d < e \/ e < d
    BY <2>1
  <2> HIDE DEF place
  <2> QED BY <1>4, <2>1, <2>2
<1>6. ASSUME NEW j \in 1..n PROVE \E d \in ids : place[d] = j - 1
  <2> SUFFICES ASSUME \A d \in ids : place[d] # j - 1 PROVE FALSE
    OBVIOUS
  <2> DEFINE T == (0..(n - 1)) \ {j - 1}
  <2>1. IsFiniteSet(0..(n - 1)) /\ Cardinality(0..(n - 1)) = n
    BY FS_Interval
  <2>2. IsFiniteSet(T) /\ Cardinality(T) = n - 1
    <3> DEFINE U == 0..(n - 1)
    <3>1. j - 1 \in U
      OBVIOUS
    <3> HIDE DEF U
    <3>2. IsFiniteSet(U \ {j - 1}) /\ Cardinality(U \ {j - 1}) = Cardinality(U) - 1
      BY <2>1, <3>1, FS_RemoveElement DEF U
    <3> QED BY <2>1, <3>2 DEF U
  <2>3. place \in [ids -> T]
    BY <1>3
  <2>4. Cardinality(T) < Cardinality(ids)
    BY <1>1, <2>2
  <2> HIDE DEF T, place
  <2> QED BY ZenonT(60), <1>5, <2>2, <2>3, <2>4, FS_PigeonHole
<1> DEFINE id(j) == CHOOSE d \in ids : Cardinality(below(d)) = j - 1
<1>7. \A j \in 1..n : id(j) \in ids /\ place[id(j)] = j - 1
  <2> SUFFICES ASSUME NEW j \in 1..n PROVE id(j) \in ids /\ Cardinality(below(id(j))) = j - 1
    OBVIOUS
  <2>1. \E d \in ids : Cardinality(below(d)) = j - 1
    BY <1>6
  <2> HIDE DEF below
  <2> QED BY <2>1
<1>8. Ascending(ids) = [j \in 1..n |-> id(j)]
  BY <1>1 DEF Ascending
<1> HIDE DEF id, place
<1>9. \A d \in ids : \E j \in 1..n : id(j) = d
  <2> SUFFICES ASSUME NEW d \in ids PROVE \E j \in 1..n : id(j) = d
    OBVIOUS
  <2>1. PICK j \in 1..n : place[d] = j - 1
    <3>1. place[d] + 1 \in 1..n /\ place[d] = (place[d] + 1) - 1
      BY <1>3
    <3> QED BY <3>1
  <2>2. id(j) \in ids /\ place[id(j)] = place[d]
    BY <1>7, <2>1
  <2> QED BY <1>5, <2>2
<1>10. Ascending(ids) \in Seq(ids) /\ Len(Ascending(ids)) = n
  BY <1>7, <1>8
<1>11. \A j \in 1..n : Ascending(ids)[j] = id(j)
  BY <1>8
<1>12. {Ascending(ids)[j] : j \in 1..n} = ids
  <2>1. \A j \in 1..n : Ascending(ids)[j] \in ids
    BY <1>7, <1>11
  <2>2. \A d \in ids : \E j \in 1..n : Ascending(ids)[j] = d
    BY <1>9, <1>11
  <2> DEFINE a == Ascending(ids)
  <2> HIDE DEF a
  <2>3. {a[j] : j \in 1..n} = ids
    BY <2>1, <2>2 DEF a
  <2> QED BY <2>3 DEF a
<1> QED BY <1>1, <1>10, <1>12

\* Of finite sets within bounds, one is the smallest and one the largest.
LEMMA SmallestAndLargest ==
  ASSUME NEW N \in Nat, NEW lists \in SUBSET SUBSET (0..(N - 1)), lists # {}
  PROVE  Shortest(lists) \in lists /\ Longest(lists) \in lists
<1>1. \A l \in lists : IsFiniteSet(l) /\ Cardinality(l) \in Nat /\ Cardinality(l) <= N
  <2> SUFFICES ASSUME NEW l \in lists PROVE IsFiniteSet(l) /\ Cardinality(l) \in Nat /\ Cardinality(l) <= N
    OBVIOUS
  <2>1. IsFiniteSet(0..(N - 1)) /\ Cardinality(0..(N - 1)) = N
    BY FS_Interval
  <2>2. l \subseteq 0..(N - 1)
    OBVIOUS
  <2> QED BY ZenonT(60), <2>1, <2>2, FS_Subset, FS_CardinalityType
<1>2. \E l \in lists : \A m \in lists : Cardinality(l) <= Cardinality(m)
  <2> SUFFICES ASSUME \A l \in lists : \E m \in lists : ~(Cardinality(l) <= Cardinality(m))
               PROVE  FALSE
    OBVIOUS
  <2> DEFINE rank == [l \in lists |-> Cardinality(l)]
  <2>1. rank \in [lists -> Nat]
    BY <1>1
  <2> DEFINE P == {l \in lists : FALSE}
  <2>2. \A l \in lists : (\A m \in lists : rank[m] < rank[l] => m \in P) => l \in P
    BY <1>1
  <2> HIDE DEF rank, P
  <2>3. lists \subseteq P
    BY <2>1, <2>2, RankInduction
  <2> QED BY <2>3 DEF P
<1>3. \E l \in lists : \A m \in lists : Cardinality(m) <= Cardinality(l)
  <2> SUFFICES ASSUME \A l \in lists : \E m \in lists : ~(Cardinality(m) <= Cardinality(l))
               PROVE  FALSE
    OBVIOUS
  <2> DEFINE rank == [l \in lists |-> N - Cardinality(l)]
  <2>1. rank \in [lists -> Nat]
    BY <1>1
  <2> DEFINE P == {l \in lists : FALSE}
  <2>2. \A l \in lists : (\A m \in lists : rank[m] < rank[l] => m \in P) => l \in P
    BY <1>1
  <2> HIDE DEF rank, P
  <2>3. lists \subseteq P
    BY <2>1, <2>2, RankInduction
  <2> QED BY <2>3 DEF P
<1> QED BY <1>2, <1>3 DEF Shortest, Longest

\* Whatever the order, and stopping early or not, what is left is in all lists.
LEMMA IntersectIsExact ==
  ASSUME NEW N \in Nat, NEW lists \in SUBSET SUBSET (0..(N - 1)), IsFiniteSet(lists), NEW base
  PROVE  Intersect(base, lists) = {d \in base : \A l \in lists : d \in l}
<1> DEFINE step(list, left) == IF left = {} THEN left ELSE left \cap list
           S == SUBSET lists
           V == SUBSET base
           rank == [s \in S |-> Cardinality(s)]
           iter[s \in SUBSET lists] ==
              IF s = {} THEN base ELSE LET x == Longest(s) IN step(x, iter[s \ {x}])
           R == [s \in S |-> [g \in [S -> V] |->
                    IF s = {} THEN base ELSE step(Longest(s), g[s \ {Longest(s)}])]]
<1>1. Intersect(base, lists) = iter[lists]
  BY DEF Intersect, MapThenFoldSet
<1> HIDE DEF iter
<1>2. \A s \in S : s # {} => Longest(s) \in s /\ s \ {Longest(s)} \in S
  <2> SUFFICES ASSUME NEW s \in S, s # {} PROVE Longest(s) \in s
    OBVIOUS
  <2>1. s \in SUBSET SUBSET (0..(N - 1))
    OBVIOUS
  <2> QED BY <2>1, SmallestAndLargest
<1>3. ASSUME NEW s \in S, s # {}
      PROVE  s \ {Longest(s)} \in S /\ rank[s \ {Longest(s)}] < rank[s]
  <2>1. IsFiniteSet(s) /\ Cardinality(s) \in Nat
    BY FS_Subset, FS_CardinalityType
  <2>2. Cardinality(s \ {Longest(s)}) = Cardinality(s) - 1
    BY <1>2, <1>3, <2>1, FS_RemoveElement
  <2> QED BY <2>1, <2>2
<1>4. rank \in [S -> Nat] /\ V # {}
  <2>1. \A s \in S : Cardinality(s) \in Nat
    BY FS_Subset, FS_CardinalityType
  <2> QED BY <2>1
<1>5. \A s \in S : \A g, h \in [S -> V] : Agree(g, h, Below(rank, s)) => R[s][g] = R[s][h]
  <2> SUFFICES ASSUME NEW s \in S, NEW g \in [S -> V], NEW h \in [S -> V], Agree(g, h, Below(rank, s))
               PROVE  R[s][g] = R[s][h]
    OBVIOUS
  <2>1. s # {} => s \ {Longest(s)} \in Below(rank, s)
    <3>1. DOMAIN rank = S
      OBVIOUS
    <3> HIDE DEF rank, S
    <3> QED BY <1>3, <3>1 DEF Below
  <2>2. s # {} => g[s \ {Longest(s)}] = h[s \ {Longest(s)}]
    BY <2>1 DEF Agree
  <2> QED BY <2>2
<1>6. R \in [S -> [[S -> V] -> V]]
  <2> SUFFICES ASSUME NEW s \in S, NEW g \in [S -> V]
               PROVE  (IF s = {} THEN base ELSE step(Longest(s), g[s \ {Longest(s)}])) \in V
    OBVIOUS
  <2>1. s # {} => g[s \ {Longest(s)}] \in V
    BY <1>2
  <2> QED BY <2>1
<1>7. PICK f : Solves(f, R, S, V)
  <2> HIDE DEF R, S, V, rank
  <2>1. IsRecursion(R, S, V, rank)
    BY <1>4, <1>5, <1>6 DEF IsRecursion
  <2> QED BY <2>1, Recursion
<1>8. f = [s \in SUBSET lists |->
             IF s = {} THEN base ELSE LET x == Longest(s) IN step(x, f[s \ {x}])]
  BY <1>7 DEF Solves
<1>9. iter = [s \in SUBSET lists |->
             IF s = {} THEN base ELSE LET x == Longest(s) IN step(x, iter[s \ {x}])]
  BY <1>8, Zenon DEF iter
<1> DEFINE P == {s \in S : iter[s] = {d \in base : \A l \in s : d \in l}}
<1>10. ASSUME NEW s \in S, \A t \in S : rank[t] < rank[s] => t \in P
       PROVE  s \in P
  <2>1. CASE s = {}
    BY <1>9, <2>1
  <2>2. CASE s # {}
    <3> DEFINE x == Longest(s)
               t == s \ {x}
    <3>1. x \in s /\ t \in S /\ rank[t] < rank[s]
      BY <1>2, <1>3, <2>2
    <3>2. iter[t] = {d \in base : \A l \in t : d \in l}
      BY <1>10, <3>1
    <3>3. iter[s] = step(x, iter[t])
      BY <1>9, <2>2
    <3>4. iter[s] = iter[t] \cap x
      BY <3>3
    <3> HIDE DEF x
    <3> QED BY <3>1, <3>2, <3>4
  <2> QED BY <2>1, <2>2
<1>11. lists \in P
  <2>1. S \subseteq P
    <3> HIDE DEF P, S, rank
    <3> QED BY <1>4, <1>10, RankInduction
  <2> QED BY <2>1
<1> QED BY <1>1, <1>11

-----------------------------------------------------------------------------
\* The entries of the two tables.
DocEntries(docs) == [d \in DOMAIN docs |-> DocEntry(docs, d)]
TrigramEntries(postings) == [i \in DOMAIN postings |-> TrigramEntry(postings, i)]

\* A sequence over a set is one over any larger set.
LEMMA SeqGrows == ASSUME NEW S, NEW T, S \subseteq T, NEW s \in Seq(S) PROVE s \in Seq(T)
  OBVIOUS

\* What is written of the documents: sequences of cells.
LEMMA DocCells ==
  ASSUME NEW index, BuiltIndex(index)
  PROVE  LET docs == index.docs IN
         /\ Len(docs) \in Nat /\ DOMAIN docs = 1..Len(docs)
         /\ Paths(docs) \in Seq(Seq(Nat)) /\ Len(Paths(docs)) = Len(docs)
         /\ ContentsOf(docs) \in Seq(Seq(Nat)) /\ Len(ContentsOf(docs)) = Len(docs)
         /\ \A d \in 1..Len(docs) : Paths(docs)[d] = docs[d].path /\ ContentsOf(docs)[d] = docs[d].content
         /\ \A d \in 1..Len(docs) : Before(Paths(docs), d) \in Nat /\ Before(ContentsOf(docs), d) \in Nat
         /\ \A d \in 1..Len(docs) : docs[d].path \in Seq(Nat) /\ docs[d].content \in Seq(Nat)
<1> DEFINE docs == index.docs
<1>1. PICK n \in Nat : n = Len(docs) /\ DOMAIN docs = 1..n
  BY DEF BuiltIndex
<1>2. \A d \in 1..n : docs[d].path \in Seq(Bytes) /\ docs[d].content \in Seq(Bytes)
  <2> DEFINE Texts == Seq(Bytes)
             Files == [path : Texts, content : Texts]
  <2>1. docs \in Seq(Files)
    BY DEF BuiltIndex
  <2> HIDE DEF Files, docs
  <2>2. \A d \in 1..n : docs[d] \in Files
    BY <1>1, <2>1
  <2> HIDE DEF Texts
  <2>3. \A d \in 1..n : docs[d].path \in Texts /\ docs[d].content \in Texts
    BY <2>2 DEF Files
  <2> QED BY <2>3 DEF Texts
<1> HIDE DEF docs
<1>3. \A text \in Seq(Bytes) : text \in Seq(Nat)
  <2>1. Bytes \subseteq Nat
    BY DEF Bytes
  <2> QED BY <2>1, SeqGrows
<1>4. \A d \in 1..n : docs[d].path \in Seq(Nat) /\ docs[d].content \in Seq(Nat)
  BY <1>2, <1>3
<1>5. /\ Paths(docs) \in Seq(Seq(Nat)) /\ Len(Paths(docs)) = n
      /\ ContentsOf(docs) \in Seq(Seq(Nat)) /\ Len(ContentsOf(docs)) = n
  <2> DEFINE T == Seq(Nat)
  <2>1. \A d \in 1..n : docs[d].path \in T /\ docs[d].content \in T
    BY <1>4
  <2> HIDE DEF T
  <2>2. Paths(docs) \in [1..n -> T] /\ ContentsOf(docs) \in [1..n -> T]
    BY <1>1, <2>1 DEF Paths, ContentsOf
  <2>3. Paths(docs) \in Seq(T) /\ Len(Paths(docs)) = n /\ ContentsOf(docs) \in Seq(T) /\ Len(ContentsOf(docs)) = n
    BY <2>2
  <2> QED BY <2>3 DEF T
<1>6. \A d \in 1..n : Paths(docs)[d] = docs[d].path /\ ContentsOf(docs)[d] = docs[d].content
  BY <1>1 DEF Paths, ContentsOf
<1>7. \A d \in 1..n : Before(Paths(docs), d) \in Nat /\ Before(ContentsOf(docs), d) \in Nat
  BY <1>5, FlattenHas
<1> QED BY <1>1, <1>4, <1>5, <1>6, <1>7 DEF docs

\* The entries of the document table have four cells each.
LEMMA EntryCells ==
  ASSUME NEW index, BuiltIndex(index)
  PROVE  LET docs == index.docs IN
         /\ DocEntries(docs) \in Seq(Seq(Nat)) /\ Len(DocEntries(docs)) = Len(docs)
         /\ \A d \in 1..Len(docs) : DocEntries(docs)[d] = DocEntry(docs, d) /\ DocEntry(docs, d) \in Seq(Nat) /\ Len(DocEntry(docs, d)) = 4
<1> DEFINE docs == index.docs
<1>0. \A m \in Nat : U32(m) \in Nat
  BY IndexLayoutConstants DEF U32
<1>1. PICK n \in Nat : n = Len(docs) /\ DOMAIN docs = 1..n
  BY DocCells
<1>2. ASSUME NEW d \in 1..n PROVE DocEntry(docs, d) \in Seq(Nat) /\ Len(DocEntry(docs, d)) = 4
  <2>1. /\ Before(Paths(docs), d) \in Nat /\ Before(ContentsOf(docs), d) \in Nat
        /\ docs[d].path \in Seq(Nat) /\ docs[d].content \in Seq(Nat)
    BY <1>1, DocCells
  <2>2. Len(docs[d].path) \in Nat /\ Len(docs[d].content) \in Nat
    BY SMTT(30), <2>1
  <2> HIDE DEF docs
  <2>3. PICK a \in Nat, b \in Nat, c \in Nat, e \in Nat : DocEntry(docs, d) = <<a, b, c, e>>
    BY <1>0, <2>1, <2>2 DEF DocEntry
  <2> QED BY <2>3
<1> HIDE DEF docs
<1> DEFINE T == Seq(Nat)
<1>3. \A d \in 1..n : DocEntry(docs, d) \in T
  BY <1>2
<1> HIDE DEF T
<1>4. DocEntries(docs) \in [1..n -> T] /\ \A d \in 1..n : DocEntries(docs)[d] = DocEntry(docs, d)
  BY <1>1, <1>3 DEF DocEntries
<1>5. DocEntries(docs) \in Seq(T) /\ Len(DocEntries(docs)) = n
  BY <1>4
<1> QED BY <1>1, <1>2, <1>4, <1>5 DEF docs, T

\* What is written of the postings: numbered lists, finite and not empty, in order.
LEMMA PostingCells ==
  ASSUME NEW index, BuiltIndex(index)
  PROVE  LET postings == index.postings IN
         /\ Len(postings) \in Nat /\ DOMAIN postings = 1..Len(postings)
         /\ \A i \in 1..Len(postings) :
              /\ postings[i].trigram \in TrigramValues
              /\ postings[i].ids \in SUBSET (0..(Len(index.docs) - 1)) /\ postings[i].ids # {}
              /\ IsFiniteSet(postings[i].ids) /\ Cardinality(postings[i].ids) \in Nat \ {0}
              /\ LET ids == Ascending(postings[i].ids) IN
                   /\ ids \in Seq(Nat) /\ Len(ids) = Cardinality(postings[i].ids)
                   /\ {ids[j] : j \in 1..Len(ids)} = postings[i].ids
<1> DEFINE postings == index.postings
           Lists == (SUBSET (0..(Len(index.docs) - 1))) \ {{}}
           Entries == [trigram : TrigramValues, ids : Lists]
<1>1. PICK n \in Nat : n = Len(postings) /\ DOMAIN postings = 1..n
  BY DEF BuiltIndex
<1>2. \A i \in 1..n : postings[i].trigram \in TrigramValues /\ postings[i].ids \in Lists
  <2>1. postings \in Seq(Entries)
    BY DEF BuiltIndex
  <2> HIDE DEF Entries, postings
  <2>2. \A i \in 1..n : postings[i] \in Entries
    BY <1>1, <2>1
  <2> HIDE DEF Lists
  <2> QED BY <2>2 DEF Entries
<1> HIDE DEF postings
<1>3. Len(index.docs) \in Nat
  BY DocCells
<1>4. ASSUME NEW i \in 1..n
      PROVE  /\ postings[i].ids \in SUBSET (0..(Len(index.docs) - 1)) /\ postings[i].ids # {}
             /\ IsFiniteSet(postings[i].ids) /\ Cardinality(postings[i].ids) \in Nat \ {0}
             /\ LET ids == Ascending(postings[i].ids) IN
                  /\ ids \in Seq(Nat) /\ Len(ids) = Cardinality(postings[i].ids)
                  /\ {ids[j] : j \in 1..Len(ids)} = postings[i].ids
  <2>1. PICK ids \in Lists : ids = postings[i].ids
    BY <1>2
  <2>2. ids \subseteq 0..(Len(index.docs) - 1) /\ ids # {} /\ ids \in SUBSET Nat
    BY <1>3
  <2>3. IsFiniteSet(ids) /\ Cardinality(ids) \in Nat \ {0}
    <3>1. IsFiniteSet(0..(Len(index.docs) - 1))
      BY <1>3, FS_Interval
    <3>2. IsFiniteSet(ids)
      BY <2>2, <3>1, FS_Subset
    <3> QED BY <2>2, <3>2, FS_CardinalityType, FS_EmptySet
  <2> DEFINE order == Ascending(ids)
  <2>4. /\ order \in Seq(ids) /\ Len(order) = Cardinality(ids)
        /\ {order[j] : j \in 1..Cardinality(ids)} = ids
    BY <2>2, <2>3, AscendingHasAll
  <2> HIDE DEF order
  <2>5. order \in Seq(Nat)
    BY <2>2, <2>4
  <2>6. /\ order \in Seq(Nat) /\ Len(order) = Cardinality(ids)
        /\ {order[j] : j \in 1..Len(order)} = ids
    BY <2>4, <2>5
  <2> QED BY <2>1, <2>2, <2>3, <2>6 DEF order
<1> QED BY <1>1, <1>2, <1>4 DEF postings

\* Trigrams and the flag are numbers.
LEMMA FlagType == InlineFlag \in Nat /\ TrigramValues \subseteq Nat
<1>1. InlineFlag \in Nat
  BY SMT DEF InlineFlag
<1>2. \A t \in TrigramValues : t \in Nat
  BY <1>1 DEF TrigramValues
<1> QED BY <1>1, <1>2

\* One cell and three more.
LEMMA FourInARow ==
  ASSUME NEW S, NEW a \in S, NEW r \in Seq(S), Len(r) = 3
  PROVE  LET s == <<a>> \o r IN
         s \in Seq(S) /\ Len(s) = 4 /\ s[1] = a /\ \A j \in 1..3 : s[j + 1] = r[j]
<1>1. <<a>> \in Seq(S) /\ Len(<<a>>) = 1 /\ <<a>>[1] = a
  OBVIOUS
<1> DEFINE one == <<a>>
<1>2. one \in Seq(S) /\ Len(one) = 1 /\ one[1] = a
  BY <1>1
<1> HIDE DEF one
<1> SUFFICES one \o r \in Seq(S) /\ Len(one \o r) = 4 /\ (one \o r)[1] = a
             /\ \A j \in 1..3 : (one \o r)[j + 1] = r[j]
  BY DEF one
<1>3. /\ one \o r \in Seq(S) /\ Len(one \o r) = 4
      /\ \A i \in 1..4 : (one \o r)[i] = IF i <= 1 THEN one[i] ELSE r[i - 1]
  <2>1. one \o r \in Seq(S) /\ Len(one \o r) = Len(one) + Len(r)
    BY <1>2, ConcatProperties
  <2>2. \A i \in 1..(Len(one) + Len(r)) :
          (one \o r)[i] = IF i <= Len(one) THEN one[i] ELSE r[i - Len(one)]
    BY <1>2, ConcatProperties
  <2>3. Len(one) + Len(r) = 4 /\ Len(one) = 1
    BY <1>2
  <2> QED BY <2>1, <2>2, <2>3
<1>4. \A j \in 1..3 : j + 1 \in 1..4 /\ ~(j + 1 <= 1) /\ (j + 1) - 1 = j
  OBVIOUS
<1> QED BY <1>2, <1>3, <1>4

\* The entries of the trigram index have four cells each; the longer lists are cells.
LEMMA TrigramCells ==
  ASSUME NEW index, BuiltIndex(index)
  PROVE  LET postings == index.postings IN
         /\ Blobs(postings) \in Seq(Seq(Nat)) /\ Len(Blobs(postings)) = Len(postings)
         /\ \A i \in 1..Len(postings) : Blobs(postings)[i] =
              IF Inline(postings[i].ids) THEN <<>> ELSE Ascending(postings[i].ids)
         /\ TrigramEntries(postings) \in Seq(Seq(Nat)) /\ Len(TrigramEntries(postings)) = Len(postings)
         /\ \A i \in 1..Len(postings) :
              /\ TrigramEntries(postings)[i] = TrigramEntry(postings, i)
              /\ TrigramEntry(postings, i) \in Seq(Nat) /\ Len(TrigramEntry(postings, i)) = 4
<1> DEFINE postings == index.postings
           T == Seq(Nat)
<1>1. PICK n \in Nat : n = Len(postings) /\ DOMAIN postings = 1..n
  BY PostingCells
<1>2. \A i \in 1..n : /\ Ascending(postings[i].ids) \in Seq(Nat)
                      /\ postings[i].trigram \in Nat
                      /\ Len(Ascending(postings[i].ids)) = Cardinality(postings[i].ids)
                      /\ Cardinality(postings[i].ids) \in Nat \ {0}
  <2>1. \A t \in TrigramValues : t \in Nat
    BY FlagType DEF TrigramValues
  <2> QED BY <1>1, <2>1, PostingCells
<1> HIDE DEF postings
<1>3. <<>> \in T
  OBVIOUS
<1>4. \A i \in 1..n : Ascending(postings[i].ids) \in T
  BY <1>2
<1>5. Blobs(postings) \in Seq(T) /\ Len(Blobs(postings)) = n
      /\ \A i \in 1..n : Blobs(postings)[i] =
           IF Inline(postings[i].ids) THEN <<>> ELSE Ascending(postings[i].ids)
  <2> HIDE DEF T
  <2>1. Blobs(postings) \in [1..n -> T]
    BY <1>1, <1>3, <1>4 DEF Blobs
  <2>2. Blobs(postings) \in Seq(T) /\ Len(Blobs(postings)) = n
    BY <2>1
  <2> QED BY <1>1, <2>2 DEF Blobs
<1>6. ASSUME NEW i \in 1..n
      PROVE  TrigramEntry(postings, i) \in Seq(Nat) /\ Len(TrigramEntry(postings, i)) = 4
  <2>1. Before(Blobs(postings), i) \in Nat
    BY <1>5, FlattenHas
  <2>2. PICK ids \in Seq(Nat) : ids = Ascending(postings[i].ids) /\ Len(ids) \in Nat \ {0}
    BY <1>2
  <2>3. CASE Inline(postings[i].ids)
    <3> DEFINE word == postings[i].trigram + InlineFlag + (Len(ids) - 1) * (2 * InlineFlag)
               rest == [j \in 1..3 |-> IF j <= Len(ids) THEN ids[j] ELSE 0]
    <3>1. word \in Nat
      <4>1. (Len(ids) - 1) * (2 * InlineFlag) \in Nat
        BY <2>2, FlagType
      <4> QED BY <1>2, <2>2, <4>1, FlagType
    <3>2. rest \in Seq(Nat) /\ Len(rest) = 3
      OBVIOUS
    <3>3. TrigramEntry(postings, i) = <<word>> \o rest
      BY <2>2, <2>3 DEF TrigramEntry
    <3> HIDE DEF word, rest
    <3> QED BY <3>1, <3>2, <3>3, FourInARow
  <2>4. CASE ~Inline(postings[i].ids)
    <3>1. TrigramEntry(postings, i) = <<postings[i].trigram, Before(Blobs(postings), i), Len(ids), 0>>
      BY <2>2, <2>4 DEF TrigramEntry
    <3> QED BY <1>2, <2>1, <2>2, <3>1
  <2> QED BY <2>3, <2>4
<1>7. \A i \in 1..n : TrigramEntry(postings, i) \in T
  BY <1>6
<1> HIDE DEF T
<1>8. /\ TrigramEntries(postings) \in [1..n -> T]
      /\ \A i \in 1..n : TrigramEntries(postings)[i] = TrigramEntry(postings, i)
  BY <1>1, <1>7 DEF TrigramEntries
<1>9. TrigramEntries(postings) \in Seq(T) /\ Len(TrigramEntries(postings)) = n
  BY <1>8
<1> QED BY <1>1, <1>5, <1>6, <1>8, <1>9 DEF postings, T

-----------------------------------------------------------------------------
\* Six sequences, one after the other, are each where the lengths before it add up to.
LEMMA SixParts ==
  ASSUME NEW S, NEW h \in Seq(S), NEW t \in Seq(S), NEW p \in Seq(S), NEW x \in Seq(S),
         NEW b \in Seq(S), NEW c \in Seq(S)
  PROVE  LET whole == h \o t \o p \o x \o b \o c IN
         /\ whole \in Seq(S)
         /\ HasPart(whole, 0, h) /\ HasPart(whole, Len(h), t)
         /\ HasPart(whole, Len(h) + Len(t), p)
         /\ HasPart(whole, Len(h) + Len(t) + Len(p), x)
         /\ HasPart(whole, Len(h) + Len(t) + Len(p) + Len(x), b)
         /\ HasPart(whole, Len(h) + Len(t) + Len(p) + Len(x) + Len(b), c)
<1>0. \A u, v \in Seq(S) : u \o v \in Seq(S) /\ Len(u \o v) = Len(u) + Len(v)
  BY ConcatProperties
<1>0a. \A u, v \in Seq(S) :
          /\ HasPart(u \o v, Len(u), v)
          /\ \A off \in Nat, part \in Seq(S) : HasPart(u, off, part) => HasPart(u \o v, off, part)
  BY ConcatHas
<1>1. HasPart(h, 0, h)
  BY DEF HasPart
<1>2. PICK s2 \in Seq(S) : s2 = h \o t /\ Len(s2) = Len(h) + Len(t)
  BY <1>0
<1>3. PICK s3 \in Seq(S) : s3 = s2 \o p /\ Len(s3) = Len(s2) + Len(p)
  BY <1>0
<1>4. PICK s4 \in Seq(S) : s4 = s3 \o x /\ Len(s4) = Len(s3) + Len(x)
  BY <1>0
<1>5. PICK s5 \in Seq(S) : s5 = s4 \o b /\ Len(s5) = Len(s4) + Len(b)
  BY <1>0
<1>6. PICK s6 \in Seq(S) : s6 = s5 \o c
  BY <1>0
<1>7. /\ Len(h) \in Nat /\ Len(s2) \in Nat /\ Len(s3) \in Nat /\ Len(s4) \in Nat /\ Len(s5) \in Nat
  OBVIOUS
<1>8. HasPart(s6, 0, h)
  BY <1>0a, <1>1, <1>2, <1>3, <1>4, <1>5, <1>6, <1>7
<1>9. HasPart(s6, Len(h), t)
  BY <1>0a, <1>2, <1>3, <1>4, <1>5, <1>6, <1>7
<1>10. HasPart(s6, Len(s2), p)
  BY <1>0a, <1>3, <1>4, <1>5, <1>6, <1>7
<1>11. HasPart(s6, Len(s3), x)
  BY <1>0a, <1>4, <1>5, <1>6, <1>7
<1>12. HasPart(s6, Len(s4), b) /\ HasPart(s6, Len(s5), c)
  BY <1>0a, <1>5, <1>6, <1>7
<1>13. s6 = h \o t \o p \o x \o b \o c
  BY <1>2, <1>3, <1>4, <1>5, <1>6
<1>14. /\ Len(s2) = Len(h) + Len(t) /\ Len(s3) = Len(h) + Len(t) + Len(p)
       /\ Len(s4) = Len(h) + Len(t) + Len(p) + Len(x)
       /\ Len(s5) = Len(h) + Len(t) + Len(p) + Len(x) + Len(b)
  BY <1>2, <1>3, <1>4, <1>5
<1> HIDE DEF HasPart
<1> QED BY <1>8, <1>9, <1>10, <1>11, <1>12, <1>13, <1>14

\* The regions of a written file, where its header says they are.
Regions(written, index) ==
  /\ written \in Seq(Nat) /\ written # Refused
  /\ Header(written).doc_count = Len(index.docs)
  /\ Header(written).trigram_count = Len(index.postings)
  /\ Header(written).doc_table \in Nat /\ Header(written).path_data \in Nat
  /\ Header(written).trigram_idx \in Nat /\ Header(written).posting \in Nat
  /\ Header(written).content \in Nat
  /\ HasPart(written, Header(written).doc_table, FlattenSeq(DocEntries(index.docs)))
  /\ HasPart(written, Header(written).path_data, FlattenSeq(Paths(index.docs)))
  /\ HasPart(written, Header(written).trigram_idx, FlattenSeq(TrigramEntries(index.postings)))
  /\ HasPart(written, Header(written).posting, FlattenSeq(Blobs(index.postings)))
  /\ HasPart(written, Header(written).content, FlattenSeq(ContentsOf(index.docs)))

\* write_index puts every region where the header says it is.
LEMMA FileHas ==
  ASSUME NEW index, BuiltIndex(index), ~TooLarge(index.docs), ~TooMany(index)
  PROVE  Regions(WriteIndex(index), index)
<1> DEFINE docs == index.docs
           postings == index.postings
<1>1. PICK table \in Seq(Nat) : table = FlattenSeq(DocEntries(docs)) /\ table = DocTable(docs)
                                /\ Len(table) = Len(docs) * 4
  <2>1. /\ DocEntries(docs) \in Seq(Seq(Nat)) /\ Len(DocEntries(docs)) = Len(docs)
        /\ \A d \in 1..Len(docs) : Len(DocEntries(docs)[d]) = 4
    BY EntryCells
  <2>2. Len(FlattenSeq(DocEntries(docs))) = 4 * Len(docs)
    BY <2>1, FourCells
  <2>3. FlattenSeq(DocEntries(docs)) \in Seq(Nat)
    BY <2>1, UptoEnds
  <2>4. DocTable(docs) = FlattenSeq(DocEntries(docs))
    BY DEF DocTable, DocEntries
  <2>5. Len(docs) \in Nat
    BY DocCells
  <2> QED BY <2>2, <2>3, <2>4, <2>5
<1>2. PICK paths \in Seq(Nat) : paths = FlattenSeq(Paths(docs))
  BY DocCells, UptoEnds
<1>3. PICK contents \in Seq(Nat) : contents = FlattenSeq(ContentsOf(docs))
  BY DocCells, UptoEnds
<1>4. PICK trigrams \in Seq(Nat) : /\ trigrams = FlattenSeq(TrigramEntries(postings))
                                   /\ trigrams = TrigramIndex(postings)
                                   /\ Len(trigrams) = Len(postings) * 4
  <2>1. /\ TrigramEntries(postings) \in Seq(Seq(Nat)) /\ Len(TrigramEntries(postings)) = Len(postings)
        /\ \A i \in 1..Len(postings) : Len(TrigramEntries(postings)[i]) = 4
    BY TrigramCells
  <2>2. Len(FlattenSeq(TrigramEntries(postings))) = 4 * Len(postings)
    BY <2>1, FourCells
  <2>3. FlattenSeq(TrigramEntries(postings)) \in Seq(Nat)
    BY <2>1, UptoEnds
  <2>4. TrigramIndex(postings) = FlattenSeq(TrigramEntries(postings))
    BY DEF TrigramIndex, TrigramEntries
  <2>5. Len(postings) \in Nat
    BY PostingCells
  <2> QED BY <2>2, <2>3, <2>4, <2>5
<1>5. PICK blobs \in Seq(Nat) : blobs = FlattenSeq(Blobs(postings))
  BY TrigramCells, UptoEnds
<1>6. PICK n \in Nat, m \in Nat : n = Len(docs) /\ m = Len(postings)
  BY DocCells, PostingCells
<1> DEFINE path_data == 7 + n * 4
           trigram_idx == path_data + Len(paths)
           posting == trigram_idx + m * 4
           content == posting + Len(blobs)
           header == <<n, m, 7, path_data, trigram_idx, posting, content>>
           whole == header \o table \o paths \o trigrams \o blobs \o contents
<1>7. WriteIndex(index) = whole
  BY <1>1, <1>2, <1>3, <1>4, <1>5, <1>6
     DEF WriteIndex, HeaderSize, DocEntrySize, TrigramEntrySize
<1>8. /\ path_data \in Nat /\ trigram_idx \in Nat /\ posting \in Nat /\ content \in Nat
  OBVIOUS
<1>9. /\ Len(table) = n * 4 /\ Len(trigrams) = m * 4
  BY <1>1, <1>4, <1>6
<1> HIDE DEF docs, postings
<1>10. /\ path_data = 7 + Len(table) /\ trigram_idx = 7 + Len(table) + Len(paths)
       /\ posting = 7 + Len(table) + Len(paths) + Len(trigrams)
       /\ content = 7 + Len(table) + Len(paths) + Len(trigrams) + Len(blobs)
  BY <1>9
<1> HIDE DEF path_data, trigram_idx, posting, content
<1>11. header \in Seq(Nat) /\ Len(header) = 7
  BY <1>8
<1>12. /\ header[1] = n /\ header[2] = m /\ header[3] = 7 /\ header[4] = path_data
       /\ header[5] = trigram_idx /\ header[6] = posting /\ header[7] = content
  OBVIOUS
<1> HIDE DEF header
<1>13. /\ whole \in Seq(Nat)
       /\ HasPart(whole, 0, header) /\ HasPart(whole, Len(header), table)
       /\ HasPart(whole, Len(header) + Len(table), paths)
       /\ HasPart(whole, Len(header) + Len(table) + Len(paths), trigrams)
       /\ HasPart(whole, Len(header) + Len(table) + Len(paths) + Len(trigrams), blobs)
       /\ HasPart(whole, Len(header) + Len(table) + Len(paths) + Len(trigrams) + Len(blobs), contents)
  BY ZenonT(60), <1>11, SixParts
<1> HIDE DEF whole
<1>14. /\ HasPart(whole, 7, table) /\ HasPart(whole, path_data, paths)
       /\ HasPart(whole, trigram_idx, trigrams) /\ HasPart(whole, posting, blobs)
       /\ HasPart(whole, content, contents)
  BY <1>10, <1>11, <1>13
<1>15. /\ \A k \in 1..7 : whole[k] = header[k]
       /\ whole # <<>>
  <2>1. 0 + 7 <= Len(whole) /\ \A k \in 1..7 : whole[0 + k] = header[k]
    BY <1>11, <1>13 DEF HasPart
  <2>2. \A k \in 1..7 : 0 + k = k
    OBVIOUS
  <2> QED BY <2>1, <2>2
<1>16. /\ whole[1] = n /\ whole[2] = m /\ whole[3] = 7 /\ whole[4] = path_data
       /\ whole[5] = trigram_idx /\ whole[6] = posting /\ whole[7] = content
  BY SMTT(30), <1>12, <1>15
<1>17. /\ Header(whole).doc_count = n /\ Header(whole).trigram_count = m
       /\ Header(whole).doc_table = 7 /\ Header(whole).path_data = path_data
       /\ Header(whole).trigram_idx = trigram_idx /\ Header(whole).posting = posting
       /\ Header(whole).content = content
  <2>1. /\ 0 + 1 = 1 /\ 1 + 1 = 2 /\ 2 + 1 = 3 /\ 3 + 1 = 4 /\ 4 + 1 = 5 /\ 5 + 1 = 6 /\ 6 + 1 = 7
    OBVIOUS
  <2> QED BY <1>16, <2>1 DEF Header, Cell
<1>18. Regions(whole, index)
  BY <1>1, <1>2, <1>3, <1>4, <1>5, <1>6, <1>8, <1>13, <1>14, <1>15, <1>17
     DEF Regions, Refused, docs, postings
<1> QED BY <1>7, <1>18

\* A number within the limit of a field is not changed by it.
LEMMA FitsU32 == ASSUME NEW n \in Nat, ~(n > MaxPathOffset) PROVE U32(n) = n
  BY IndexLayoutConstants DEF U32

\* Four cells at an offset.
LEMMA CellsOf ==
  ASSUME NEW seq \in Seq(Nat), NEW off \in Nat, NEW four \in Seq(Nat), Len(four) = 4, HasPart(seq, off, four)
  PROVE  /\ Cell(seq, off) = four[1] /\ Cell(seq, off + 1) = four[2]
         /\ Cell(seq, off + 2) = four[3] /\ Cell(seq, off + 3) = four[4]
<1>1. \A k \in 1..4 : seq[off + k] = four[k]
  BY DEF HasPart
<1>2. /\ seq[off + 1] = four[1] /\ seq[off + 2] = four[2] /\ seq[off + 3] = four[3] /\ seq[off + 4] = four[4]
  BY <1>1
<1>3. (off + 1) + 1 = off + 2 /\ (off + 2) + 1 = off + 3 /\ (off + 3) + 1 = off + 4
  OBVIOUS
<1> QED BY <1>2, <1>3 DEF Cell

\* doc_path and doc_content return the path and the content a document was built with.
LEMMA DocReads ==
  ASSUME NEW index, BuiltIndex(index), ~TooLarge(index.docs), NEW written, Regions(written, index),
         NEW d \in 1..Len(index.docs)
  PROVE  /\ DocPath(written, d - 1) = index.docs[d].path
         /\ DocContent(written, d - 1) = index.docs[d].content
<1> DEFINE docs == index.docs
           head == Header(written)
           entry == DocEntry(docs, d)
           at == head.doc_table + (d - 1) * 4
<1>1. PICK n \in Nat : n = Len(docs) /\ d \in 1..n /\ DOMAIN docs = 1..n
  BY DocCells
<1>2. /\ entry \in Seq(Nat) /\ Len(entry) = 4
      /\ DocEntries(docs) \in Seq(Seq(Nat)) /\ Len(DocEntries(docs)) = n
      /\ \A c \in 1..n : DocEntries(docs)[c] = DocEntry(docs, c) /\ Len(DocEntry(docs, c)) = 4
  BY <1>1, EntryCells
<1>3. /\ docs[d].path \in Seq(Nat) /\ docs[d].content \in Seq(Nat)
      /\ Before(Paths(docs), d) \in Nat /\ Before(ContentsOf(docs), d) \in Nat
      /\ Paths(docs) \in Seq(Seq(Nat)) /\ Len(Paths(docs)) = n
      /\ ContentsOf(docs) \in Seq(Seq(Nat)) /\ Len(ContentsOf(docs)) = n
      /\ Paths(docs)[d] = docs[d].path /\ ContentsOf(docs)[d] = docs[d].content
  BY <1>1, DocCells
<1>4. ~(Before(Paths(docs), d) > MaxPathOffset) /\ ~(Len(docs[d].path) > MaxPathOffset)
  BY <1>1 DEF TooLarge
<1>5. PICK p \in Seq(Nat), c \in Seq(Nat), po \in Nat, co \in Nat :
          /\ p = docs[d].path /\ c = docs[d].content
          /\ po = Before(Paths(docs), d) /\ co = Before(ContentsOf(docs), d)
  BY <1>3
<1>6. entry = <<po, Len(p), co, Len(c)>>
  <2>1. Len(p) \in Nat
    OBVIOUS
  <2>2. U32(po) = po /\ U32(Len(p)) = Len(p)
    BY <1>4, <1>5, <2>1, FitsU32
  <2> QED BY <1>5, <2>2 DEF DocEntry
<1> HIDE DEF docs, entry
<1>7. /\ head.doc_table \in Nat /\ head.path_data \in Nat /\ head.content \in Nat
      /\ written \in Seq(Nat)
      /\ HasPart(written, head.doc_table, FlattenSeq(DocEntries(docs)))
      /\ HasPart(written, head.path_data, FlattenSeq(Paths(docs)))
      /\ HasPart(written, head.content, FlattenSeq(ContentsOf(docs)))
  BY DEF Regions, docs
<1> HIDE DEF head
<1>8. HasPart(written, at, entry)
  <2>1. /\ HasPart(FlattenSeq(DocEntries(docs)), Before(DocEntries(docs), d), DocEntries(docs)[d])
        /\ FlattenSeq(DocEntries(docs)) \in Seq(Nat)
    BY <1>1, <1>2, FlattenHas, UptoEnds
  <2>2. Before(DocEntries(docs), d) = 4 * (d - 1)
    <3>1. \A e \in 1..Len(DocEntries(docs)) : Len(DocEntries(docs)[e]) = 4
      BY <1>2
    <3> QED BY <1>1, <1>2, <3>1, FourCells
  <2>3. DocEntries(docs)[d] = entry
    BY <1>1, <1>2 DEF entry
  <2>4. PICK back \in Nat : back = 4 * (d - 1)
    BY <1>1
  <2>5. HasPart(FlattenSeq(DocEntries(docs)), back, entry)
    BY <2>1, <2>2, <2>3, <2>4
  <2>6. HasPart(written, head.doc_table + back, entry)
    BY <1>2, <1>7, <2>1, <2>4, <2>5, PartHas
  <2>7. at = head.doc_table + back
    BY <1>1, <1>7, <2>4
  <2> QED BY <2>6, <2>7
<1>9. at \in Nat
  BY <1>1, <1>7
<1>10. /\ Cell(written, at) = po /\ Cell(written, at + 1) = Len(p)
       /\ Cell(written, at + 2) = co /\ Cell(written, at + 3) = Len(c)
  <2>1. /\ Cell(written, at) = entry[1] /\ Cell(written, at + 1) = entry[2]
        /\ Cell(written, at + 2) = entry[3] /\ Cell(written, at + 3) = entry[4]
    <3> HIDE DEF at
    <3> QED BY <1>2, <1>7, <1>8, <1>9, CellsOf
  <2> QED BY <1>6, <2>1
<1> HIDE DEF at
<1>11. HasPart(written, head.path_data + po, p) /\ HasPart(written, head.content + co, c)
  <2>1. /\ HasPart(FlattenSeq(Paths(docs)), po, p) /\ FlattenSeq(Paths(docs)) \in Seq(Nat)
    BY <1>1, <1>3, <1>5, FlattenHas, UptoEnds DEF docs
  <2>2. /\ HasPart(FlattenSeq(ContentsOf(docs)), co, c) /\ FlattenSeq(ContentsOf(docs)) \in Seq(Nat)
    BY <1>1, <1>3, <1>5, FlattenHas, UptoEnds DEF docs
  <2> QED BY <1>7, <2>1, <2>2, PartHas
<1>12. /\ head.path_data + po \in Nat /\ head.content + co \in Nat
  BY SMTT(30), <1>7
<1>13. Slice(written, head.path_data + po, Len(p)) = p /\ Slice(written, head.content + co, Len(c)) = c
  BY <1>7, <1>11, <1>12, PartIsSlice
<1>14. DocPath(written, d - 1) = p /\ DocContent(written, d - 1) = c
  BY <1>10, <1>13 DEF DocPath, DocContent, DocEntrySize, head, at
<1> QED BY <1>5, <1>14 DEF docs

-----------------------------------------------------------------------------
\* The word of an inline entry, taken apart: k is the length of the list, less one.
LEMMA InlineWord ==
  ASSUME NEW t \in TrigramValues, NEW k \in 0..2,
         NEW w, w = t + InlineFlag + k * (2 * InlineFlag)
  PROVE  /\ w \in Nat /\ w % InlineFlag = t /\ (w \div InlineFlag) % 2 = 1 /\ (w \div (2 * InlineFlag)) % 4 = k
         /\ t % InlineFlag = t /\ (t \div InlineFlag) % 2 = 0
<1>1. t \in Nat /\ t < InlineFlag /\ (k = 0 \/ k = 1 \/ k = 2)
  BY FlagType, SMT DEF TrigramValues
<1>2. w % InlineFlag = t
  BY <1>1, SMT DEF InlineFlag
<1>3. (w \div InlineFlag) % 2 = 1
  BY <1>1, SMT DEF InlineFlag
<1>4. (w \div (2 * InlineFlag)) % 4 = k
  BY <1>1, SMT DEF InlineFlag
<1>5. t % InlineFlag = t /\ (t \div InlineFlag) % 2 = 0
  BY <1>1, SMT DEF InlineFlag
<1>6. w \in Nat
  BY <1>1, SMT DEF InlineFlag
<1> QED BY <1>2, <1>3, <1>4, <1>5, <1>6

\* The postings as they are read: the list, and whether the entry holds it.
AsRead(postings, i) == [inline |-> Inline(postings[i].ids), ids |-> postings[i].ids]
EntryAt(written, i) == Header(written).trigram_idx + i * 4

\* An entry of the trigram index gives back its trigram and its list.
LEMMA PostingReads ==
  ASSUME NEW index, BuiltIndex(index), NEW written, Regions(written, index),
         NEW i \in 1..Len(index.postings)
  PROVE  /\ Cell(written, EntryAt(written, i - 1)) % InlineFlag = index.postings[i].trigram
         /\ Posting(written, EntryAt(written, i - 1)) = AsRead(index.postings, i)
<1> DEFINE postings == index.postings
           head == Header(written)
           entry == TrigramEntry(postings, i)
           at == head.trigram_idx + (i - 1) * 4
           word == Cell(written, at)
<1>1. PICK n \in Nat : n = Len(postings) /\ i \in 1..n /\ DOMAIN postings = 1..n
  BY PostingCells
<1>2. /\ entry \in Seq(Nat) /\ Len(entry) = 4
      /\ TrigramEntries(postings) \in Seq(Seq(Nat)) /\ Len(TrigramEntries(postings)) = n
      /\ \A c \in 1..n : TrigramEntries(postings)[c] = TrigramEntry(postings, c) /\ Len(TrigramEntry(postings, c)) = 4
      /\ Blobs(postings) \in Seq(Seq(Nat)) /\ Len(Blobs(postings)) = n
      /\ Blobs(postings)[i] = IF Inline(postings[i].ids) THEN <<>> ELSE Ascending(postings[i].ids)
  BY <1>1, TrigramCells
<1>3. PICK ids \in Seq(Nat) : ids = Ascending(postings[i].ids) /\ DOMAIN ids = 1..Len(ids)
  <2>1. Ascending(postings[i].ids) \in Seq(Nat)
    BY <1>1, PostingCells
  <2>2. \A s \in Seq(Nat) : DOMAIN s = 1..Len(s)
    OBVIOUS
  <2> QED BY <2>1, <2>2
<1>3a. PICK count \in Nat : count = Len(ids) /\ count = Cardinality(postings[i].ids) /\ count > 0
  BY <1>1, <1>3, PostingCells
<1>3b. DOMAIN ids = 1..count
  BY <1>3, <1>3a
<1>3c. {ids[j] : j \in 1..count} = postings[i].ids
  <2>1. {Ascending(postings[i].ids)[j] : j \in 1..Len(Ascending(postings[i].ids))} = postings[i].ids
    BY <1>1, PostingCells
  <2> HIDE DEF postings
  <2> QED BY <1>3, <1>3a, <2>1, Zenon
<1>4. PICK t \in TrigramValues : t = postings[i].trigram /\ t \in Nat
  BY <1>1, PostingCells, FlagType
<1>5. PICK before \in Nat : before = Before(Blobs(postings), i)
  BY <1>1, <1>2, FlattenHas
<1> HIDE DEF postings, entry
<1>6. /\ head.trigram_idx \in Nat /\ head.posting \in Nat /\ written \in Seq(Nat)
      /\ HasPart(written, head.trigram_idx, FlattenSeq(TrigramEntries(postings)))
      /\ HasPart(written, head.posting, FlattenSeq(Blobs(postings)))
  BY DEF Regions, postings
<1> HIDE DEF head
<1>7. HasPart(written, at, entry)
  <2>1. /\ HasPart(FlattenSeq(TrigramEntries(postings)), Before(TrigramEntries(postings), i), TrigramEntries(postings)[i])
        /\ FlattenSeq(TrigramEntries(postings)) \in Seq(Nat)
    BY <1>1, <1>2, FlattenHas, UptoEnds
  <2>2. Before(TrigramEntries(postings), i) = 4 * (i - 1)
    <3>1. \A c \in 1..Len(TrigramEntries(postings)) : Len(TrigramEntries(postings)[c]) = 4
      BY <1>2
    <3> QED BY <1>1, <1>2, <3>1, FourCells
  <2>3. TrigramEntries(postings)[i] = entry
    BY <1>1, <1>2 DEF entry
  <2>4. PICK back \in Nat : back = 4 * (i - 1)
    BY <1>1
  <2>5. HasPart(FlattenSeq(TrigramEntries(postings)), back, entry)
    BY <2>1, <2>2, <2>3, <2>4
  <2>6. HasPart(written, head.trigram_idx + back, entry)
    BY <1>2, <1>6, <2>1, <2>4, <2>5, PartHas
  <2>7. at = head.trigram_idx + back
    BY <1>1, <1>6, <2>4
  <2> QED BY <2>6, <2>7
<1>8. at \in Nat /\ EntryAt(written, i - 1) = at
  BY <1>1, <1>6 DEF EntryAt, head
<1> HIDE DEF at
<1>9. word = entry[1] /\ Cell(written, at + 1) = entry[2] /\ Cell(written, at + 2) = entry[3]
  BY <1>2, <1>6, <1>7, <1>8, CellsOf
<1>10. CASE Inline(postings[i].ids)
  <2> DEFINE full == t + InlineFlag + (count - 1) * (2 * InlineFlag)
             rest == [j \in 1..3 |-> IF j <= count THEN ids[j] ELSE 0]
  <2>1. count <= 3 /\ count - 1 \in 0..2 /\ count \in 1..3
    BY <1>3a, <1>10 DEF Inline
  <2>2. entry = <<full>> \o rest
    BY <1>3, <1>3a, <1>4, <1>10 DEF TrigramEntry, entry
  <2>3. /\ full \in Nat /\ full % InlineFlag = t /\ (full \div InlineFlag) % 2 = 1
        /\ (full \div (2 * InlineFlag)) % 4 = count - 1
    <3>1. PICK k \in 0..2 : k = count - 1
      BY <2>1
    <3>2. full = t + InlineFlag + k * (2 * InlineFlag)
      BY <3>1
    <3> HIDE DEF full
    <3> QED BY <3>1, <3>2, InlineWord
  <2>4. rest \in Seq(Nat) /\ Len(rest) = 3 /\ \A j \in 1..count : rest[j] = ids[j]
    <3>1. \A j \in 1..count : ids[j] \in Nat
      BY <1>3, <1>3b
    <3>2. \A j \in 1..3 : j <= count => ids[j] \in Nat
      BY <1>3a, <3>1
    <3>3. rest \in Seq(Nat) /\ Len(rest) = 3
      BY <3>2
    <3> QED BY <2>1, <3>3
  <2> HIDE DEF full, rest
  <2>6. entry[1] = full /\ \A j \in 1..3 : entry[j + 1] = rest[j]
    BY <2>2, <2>3, <2>4, FourInARow
  <2>7. HasPart(written, at + 1, ids)
    <3>1. ASSUME NEW j \in 1..count PROVE written[at + 1 + j] = ids[j]
      <4>1. j \in 1..3 /\ j + 1 \in 1..4
        BY <2>1
      <4>2. written[at + (j + 1)] = entry[j + 1]
        BY <1>2, <1>7, <4>1 DEF HasPart
      <4>3. entry[j + 1] = ids[j]
        BY <2>4, <2>6, <4>1
      <4>4. at + 1 + j = at + (j + 1)
        BY <1>8
      <4> QED BY <4>2, <4>3, <4>4
    <3>2. at + 1 + count <= Len(written)
      BY <1>2, <1>6, <1>7, <1>8, <2>1 DEF HasPart
    <3> QED BY <1>3a, <3>1, <3>2 DEF HasPart
  <2>8. Slice(written, at + 1, count) = ids
    <3>1. at + 1 \in Nat
      BY <1>8
    <3> QED BY <1>3, <1>3a, <1>6, <2>7, <3>1, PartIsSlice
  <2>9. (count - 1) + 1 = count
    BY <1>3a
  <2> HIDE DEF word
  <2>10. Posting(written, at) = [inline |-> TRUE, ids |-> {ids[j] : j \in 1..count}]
    <3>1. (Cell(written, at) \div InlineFlag) % 2 = 1
      BY <1>9, <2>3, <2>6 DEF word
    <3>2. ((Cell(written, at) \div (2 * InlineFlag)) % 4) + 1 = count
      BY <1>9, <2>3, <2>6, <2>9 DEF word
    <3> QED BY <1>3b, <2>8, <3>1, <3>2, ZenonT(60) DEF Posting
  <2> QED
    <3>1. word % InlineFlag = t
      BY <1>9, <2>3, <2>6
    <3>2. Posting(written, at) = AsRead(postings, i)
      BY <1>3c, <1>10, <2>10 DEF AsRead
    <3> QED BY <1>4, <1>8, <3>1, <3>2 DEF postings, word
<1>11. CASE ~Inline(postings[i].ids)
  <2>1. entry = <<t, before, count, 0>>
    BY <1>3, <1>3a, <1>4, <1>5, <1>11 DEF TrigramEntry, entry
  <2>2. entry[1] = t /\ entry[2] = before /\ entry[3] = count
    BY <2>1
  <2>3. t % InlineFlag = t /\ (t \div InlineFlag) % 2 = 0
    <3>1. PICK w : w = t + InlineFlag + 0 * (2 * InlineFlag)
      OBVIOUS
    <3>2. 0 \in 0..2
      OBVIOUS
    <3> QED BY <3>1, <3>2, InlineWord
  <2>4. HasPart(written, head.posting + before, ids)
    <3>1. /\ HasPart(FlattenSeq(Blobs(postings)), Before(Blobs(postings), i), Blobs(postings)[i])
          /\ FlattenSeq(Blobs(postings)) \in Seq(Nat)
      BY <1>1, <1>2, FlattenHas, UptoEnds
    <3>2. HasPart(FlattenSeq(Blobs(postings)), before, ids)
      BY <1>2, <1>3, <1>5, <1>11, <3>1
    <3> QED BY <1>6, <3>1, <3>2, PartHas
  <2>5. Slice(written, head.posting + before, count) = ids
    <3>1. head.posting + before \in Nat
      BY <1>6
    <3> QED BY <1>3, <1>3a, <1>6, <2>4, <3>1, PartIsSlice
  <2>6. 0 # 1
    OBVIOUS
  <2> HIDE DEF word
  <2>7. Posting(written, at) = [inline |-> FALSE, ids |-> {ids[j] : j \in 1..count}]
    <3>1. (Cell(written, at) \div InlineFlag) % 2 # 1
      BY <1>9, <2>2, <2>3, <2>6 DEF word
    <3>2. Slice(written, Header(written).posting + Cell(written, at + 1), Cell(written, at + 2)) = ids
      BY <1>9, <2>2, <2>5 DEF head
    <3> QED BY <1>3b, <3>1, <3>2, Zenon DEF Posting
  <2> QED
    <3>1. word % InlineFlag = t
      BY <1>9, <2>2, <2>3
    <3>2. Posting(written, at) = AsRead(postings, i)
      <4>1. Inline(postings[i].ids) = FALSE
        BY <1>11 DEF Inline
      <4> QED BY <1>3c, <2>7, <4>1, Zenon DEF AsRead
    <3> QED BY <1>4, <1>8, <3>1, <3>2 DEF postings, word
<1> QED BY <1>10, <1>11

\* The binary search comes to an end, and finds what is there.
LEMMA LookupFinds ==
  ASSUME NEW index, BuiltIndex(index), NEW written, Regions(written, index), NEW trigram \in Nat
  PROVE  /\ \A i \in 1..Len(index.postings) :
              index.postings[i].trigram = trigram =>
                LookupTrigram(written, trigram) = AsRead(index.postings, i)
         /\ (\A i \in 1..Len(index.postings) : index.postings[i].trigram # trigram) =>
              LookupTrigram(written, trigram) = NotFound
<1> DEFINE postings == index.postings
           n == Header(written).trigram_count
           at(m) == Header(written).trigram_idx + m * TrigramEntrySize
           found(m) == Posting(written, at(m))
           stored(m) == Cell(written, at(m)) % InlineFlag
           middle(lo, hi) == lo + (hi - lo) \div 2
           D == (0..n) \X (0..n)
           next(g, lo, hi) ==
             IF lo >= hi THEN NotFound
             ELSE IF stored(middle(lo, hi)) = trigram THEN found(middle(lo, hi))
             ELSE IF stored(middle(lo, hi)) < trigram THEN g[<<middle(lo, hi) + 1, hi>>]
             ELSE g[<<lo, middle(lo, hi)>>]
           V == {NotFound} \cup {found(m) : m \in 0..n}
           rank == [r \in D |-> IF r[1] < r[2] THEN r[2] - r[1] ELSE 0]
           R == [r \in D |-> [g \in [D -> V] |-> next(g, r[1], r[2])]]
           search[range \in (0..n) \X (0..n)] ==
                LET lo == range[1]
                    hi == range[2]
                    mid == lo + (hi - lo) \div 2
                    off == Header(written).trigram_idx + mid * TrigramEntrySize
                    here == Cell(written, off) % InlineFlag
                IN  IF lo >= hi THEN NotFound
                    ELSE IF here = trigram THEN Posting(written, off)
                    ELSE IF here < trigram THEN search[<<mid + 1, hi>>]
                    ELSE search[<<lo, mid>>]
<1>1. LookupTrigram(written, trigram) = search[<<0, n>>]
  BY DEF LookupTrigram
<1> HIDE DEF search
<1>2. n \in Nat /\ n = Len(postings)
  BY PostingCells DEF Regions
<1>3. \A m \in 0..(n - 1) :
         /\ stored(m) = postings[m + 1].trigram /\ stored(m) \in Nat
         /\ found(m) = AsRead(postings, m + 1)
  <2> SUFFICES ASSUME NEW m \in 0..(n - 1)
               PROVE  /\ stored(m) = postings[m + 1].trigram /\ stored(m) \in Nat
                      /\ found(m) = AsRead(postings, m + 1)
    OBVIOUS
  <2>1. m + 1 \in 1..Len(postings) /\ (m + 1) - 1 = m
    BY <1>2
  <2>2. /\ Cell(written, EntryAt(written, m)) % InlineFlag = postings[m + 1].trigram
        /\ Posting(written, EntryAt(written, m)) = AsRead(postings, m + 1)
    BY <2>1, PostingReads
  <2>3. at(m) = EntryAt(written, m)
    BY DEF EntryAt, TrigramEntrySize
  <2>4. postings[m + 1].trigram \in Nat
    BY <2>1, PostingCells, FlagType
  <2> QED BY <2>2, <2>3, <2>4
<1>4. \A i, j \in 1..n : i < j => postings[i].trigram < postings[j].trigram
  BY <1>2, PostingCells DEF BuiltIndex
<1> HIDE DEF at, found, stored, postings, n
<1>5. \A lo, hi \in 0..n : lo < hi =>
         /\ middle(lo, hi) \in 0..(n - 1) /\ lo <= middle(lo, hi) /\ middle(lo, hi) < hi
         /\ <<middle(lo, hi) + 1, hi>> \in D /\ <<lo, middle(lo, hi)>> \in D
  <2> SUFFICES ASSUME NEW lo \in 0..n, NEW hi \in 0..n, lo < hi
               PROVE  /\ middle(lo, hi) \in 0..(n - 1) /\ lo <= middle(lo, hi) /\ middle(lo, hi) < hi
                      /\ <<middle(lo, hi) + 1, hi>> \in D /\ <<lo, middle(lo, hi)>> \in D
    OBVIOUS
  <2>1. PICK m \in Int : m = middle(lo, hi)
    BY <1>2
  <2>2. lo <= m /\ m < hi
    BY <1>2, <2>1
  <2>3. m \in 0..(n - 1) /\ m \in 0..n /\ m + 1 \in 0..n
    BY <1>2, <2>1, <2>2
  <2> HIDE DEF middle
  <2> QED BY <2>1, <2>2, <2>3
<1> HIDE DEF middle
<1>6. \A r \in D : r[1] \in 0..n /\ r[2] \in 0..n /\ r = <<r[1], r[2]>>
  OBVIOUS
<1>7. \A lo, hi \in 0..n : <<lo, hi>> \in D /\ rank[<<lo, hi>>] = IF lo < hi THEN hi - lo ELSE 0
  OBVIOUS
<1>8. rank \in [D -> Nat] /\ V # {}
  BY <1>2, <1>6
<1>9. \A lo, hi \in 0..n : lo < hi =>
         /\ rank[<<middle(lo, hi) + 1, hi>>] < rank[<<lo, hi>>]
         /\ rank[<<lo, middle(lo, hi)>>] < rank[<<lo, hi>>]
  <2> SUFFICES ASSUME NEW lo \in 0..n, NEW hi \in 0..n, lo < hi
               PROVE  /\ rank[<<middle(lo, hi) + 1, hi>>] < rank[<<lo, hi>>]
                      /\ rank[<<lo, middle(lo, hi)>>] < rank[<<lo, hi>>]
    OBVIOUS
  <2>1. PICK m \in 0..(n - 1) : m = middle(lo, hi) /\ lo <= m /\ m < hi
    BY <1>5
  <2>2. m \in 0..n /\ m + 1 \in 0..n
    BY <1>2
  <2>3. /\ rank[<<m + 1, hi>>] = IF m + 1 < hi THEN hi - (m + 1) ELSE 0
        /\ rank[<<lo, m>>] = IF lo < m THEN m - lo ELSE 0
        /\ rank[<<lo, hi>>] = hi - lo
    BY <1>7, <2>2
  <2> HIDE DEF rank, D
  <2>4. rank[<<m + 1, hi>>] < rank[<<lo, hi>>] /\ rank[<<lo, m>>] < rank[<<lo, hi>>]
    BY <1>2, <2>1, <2>3
  <2> QED BY <2>1, <2>4
<1> HIDE DEF rank
<1>10. \A g \in [D -> V] : \A lo, hi \in 0..n : next(g, lo, hi) \in V
  <2> SUFFICES ASSUME NEW g \in [D -> V], NEW lo \in 0..n, NEW hi \in 0..n
               PROVE  next(g, lo, hi) \in V
    OBVIOUS
  <2>1. CASE lo >= hi
    BY <2>1
  <2>2. CASE ~(lo >= hi)
    <3>1. lo < hi
      BY <1>2, <2>2
    <3>2. /\ middle(lo, hi) \in 0..n
          /\ <<middle(lo, hi) + 1, hi>> \in D /\ <<lo, middle(lo, hi)>> \in D
      BY <1>2, <1>5, <3>1
    <3>3. found(middle(lo, hi)) \in V
      BY <3>2
    <3> HIDE DEF V, D
    <3>4. g[<<middle(lo, hi) + 1, hi>>] \in V /\ g[<<lo, middle(lo, hi)>>] \in V
      BY <3>2
    <3> QED BY <2>2, <3>3, <3>4
  <2> QED BY <2>1, <2>2
<1> HIDE DEF V
<1>11. R \in [D -> [[D -> V] -> V]]
  <2> HIDE DEF D, next
  <2> QED BY <1>6, <1>10
<1>12. \A r \in D : \A g, h \in [D -> V] : Agree(g, h, Below(rank, r)) => R[r][g] = R[r][h]
  <2>0. \A r \in D : \A g \in [D -> V] : R[r][g] = next(g, r[1], r[2])
    <3> HIDE DEF D, next
    <3> QED OBVIOUS
  <2> HIDE DEF R
  <2> SUFFICES ASSUME NEW r \in D, NEW g \in [D -> V], NEW h \in [D -> V], Agree(g, h, Below(rank, r))
               PROVE  next(g, r[1], r[2]) = next(h, r[1], r[2])
    <3> HIDE DEF D, next
    <3> QED BY <2>0
  <2>1. PICK lo \in 0..n, hi \in 0..n : lo = r[1] /\ hi = r[2] /\ r = <<lo, hi>>
    BY <1>6
  <2>2. DOMAIN rank = D
    BY <1>8
  <2> HIDE DEF D
  <2>3. CASE lo < hi
    <3>1. /\ <<middle(lo, hi) + 1, hi>> \in Below(rank, r)
          /\ <<lo, middle(lo, hi)>> \in Below(rank, r)
      BY <1>5, <1>9, <2>1, <2>2, <2>3 DEF Below
    <3>2. /\ g[<<middle(lo, hi) + 1, hi>>] = h[<<middle(lo, hi) + 1, hi>>]
          /\ g[<<lo, middle(lo, hi)>>] = h[<<lo, middle(lo, hi)>>]
      BY <3>1 DEF Agree
    <3>3. next(g, lo, hi) = next(h, lo, hi)
      BY <3>2
    <3> QED BY <2>1, <3>3
  <2>4. CASE ~(lo < hi)
    <3>1. lo >= hi
      BY <1>2, <2>4
    <3> QED BY <2>1, <3>1
  <2> QED BY <2>3, <2>4
<1>13. PICK f : Solves(f, R, D, V)
  <2> HIDE DEF R, D, next
  <2>1. IsRecursion(R, D, V, rank)
    BY <1>8, <1>11, <1>12 DEF IsRecursion
  <2> QED BY <2>1, Recursion
<1>14. f = [r \in D |-> next(f, r[1], r[2])]
  <2> HIDE DEF next, D
  <2> QED BY <1>13 DEF Solves
<1>15. search = [r \in D |-> next(search, r[1], r[2])]
  BY <1>14, Zenon DEF search, found, stored, at, middle
<1>16. \A lo, hi \in 0..n : search[<<lo, hi>>] = next(search, lo, hi)
  <2> SUFFICES ASSUME NEW lo \in 0..n, NEW hi \in 0..n PROVE search[<<lo, hi>>] = next(search, lo, hi)
    OBVIOUS
  <2>1. <<lo, hi>> \in D /\ <<lo, hi>>[1] = lo /\ <<lo, hi>>[2] = hi
    OBVIOUS
  <2> HIDE DEF D, next
  <2> QED BY <1>15, <2>1
<1> DEFINE right(lo, hi) ==
             /\ \A i \in 1..n : lo < i /\ i <= hi /\ postings[i].trigram = trigram =>
                  search[<<lo, hi>>] = AsRead(postings, i)
             /\ (\A i \in 1..n : lo < i /\ i <= hi => postings[i].trigram # trigram) =>
                  search[<<lo, hi>>] = NotFound
           P == {r \in D : right(r[1], r[2])}
<1>17. ASSUME NEW lo \in 0..n, NEW hi \in 0..n,
              \A k, l \in 0..n : rank[<<k, l>>] < rank[<<lo, hi>>] => right(k, l)
       PROVE  right(lo, hi)
  <2>1. CASE lo >= hi
    <3>1. search[<<lo, hi>>] = NotFound
      BY <1>16, <2>1
    <3>2. \A i \in 1..n : ~(lo < i /\ i <= hi)
      BY <1>2, <2>1
    <3> QED BY <3>1, <3>2
  <2>2. CASE ~(lo >= hi)
    <3>0. lo < hi
      BY <1>2, <2>2
    <3>1. PICK m \in 0..(n - 1) : m = middle(lo, hi) /\ lo <= m /\ m < hi
      BY <1>5, <3>0
    <3>2. /\ m \in 0..n /\ m + 1 \in 0..n /\ m + 1 \in 1..n /\ lo < m + 1 /\ m + 1 <= hi
          /\ lo < hi
      BY <1>2, <3>1
    <3>3. stored(m) = postings[m + 1].trigram /\ stored(m) \in Nat /\ found(m) = AsRead(postings, m + 1)
      BY <1>3, <3>1
    <3>4. search[<<lo, hi>>] =
             IF stored(m) = trigram THEN found(m)
             ELSE IF stored(m) < trigram THEN search[<<m + 1, hi>>] ELSE search[<<lo, m>>]
      BY <1>16, <2>2, <3>1
    <3>5. right(m + 1, hi) /\ right(lo, m)
      BY <1>9, <1>17, <3>1, <3>2
    <3>6. CASE stored(m) = trigram
      <4>1. ASSUME NEW i \in 1..n, postings[i].trigram = trigram PROVE i = m + 1
        <5>1. ~(i < m + 1) /\ ~(m + 1 < i)
          <6>1. postings[i].trigram = postings[m + 1].trigram /\ postings[i].trigram \in Nat
            BY <3>3, <3>6, <4>1
          <6>2. ~(postings[i].trigram < postings[m + 1].trigram) /\ ~(postings[m + 1].trigram < postings[i].trigram)
            BY <6>1
          <6> QED BY <1>4, <3>2, <6>2
        <5> QED BY <3>2, <5>1
      <4>2. search[<<lo, hi>>] = AsRead(postings, m + 1)
        BY <3>3, <3>4, <3>6
      <4>3. postings[m + 1].trigram = trigram
        BY <3>3, <3>6
      <4> QED BY <3>2, <4>1, <4>2, <4>3
    <3>7. CASE stored(m) # trigram /\ stored(m) < trigram
      <4>1. search[<<lo, hi>>] = search[<<m + 1, hi>>]
        BY <3>4, <3>7
      <4>2. ASSUME NEW i \in 1..n, postings[i].trigram = trigram PROVE m + 1 < i
        <5>1. ~(i < m + 1) /\ i # m + 1
          <6>1. ~(postings[i].trigram < postings[m + 1].trigram) /\ postings[i].trigram # postings[m + 1].trigram
            BY <3>3, <3>7, <4>2
          <6> QED BY <1>4, <3>2, <6>1
        <5> QED BY <3>2, <5>1
      <4>3. \A i \in 1..n : m + 1 < i => lo < i
        BY <1>2, <3>2
      <4> QED BY <3>5, <4>1, <4>2, <4>3
    <3>8. CASE stored(m) # trigram /\ ~(stored(m) < trigram)
      <4>1. search[<<lo, hi>>] = search[<<lo, m>>]
        BY <3>4, <3>8
      <4>2. ASSUME NEW i \in 1..n, postings[i].trigram = trigram PROVE i <= m
        <5>1. ~(m + 1 < i) /\ i # m + 1
          <6>1. ~(postings[m + 1].trigram < postings[i].trigram) /\ postings[i].trigram # postings[m + 1].trigram
            BY <3>3, <3>8, <4>2
          <6> QED BY <1>4, <3>2, <6>1
        <5> QED BY <3>1, <3>2, <5>1
      <4>3. \A i \in 1..n : i <= m => i <= hi
        BY <1>2, <3>1, <3>2
      <4> QED BY <3>5, <4>1, <4>2, <4>3
    <3> QED BY <3>6, <3>7, <3>8
  <2> QED BY <2>1, <2>2
<1> HIDE DEF right
<1>18. ASSUME NEW r \in D, \A q \in D : rank[q] < rank[r] => q \in P PROVE r \in P
  <2>1. PICK lo \in 0..n, hi \in 0..n : lo = r[1] /\ hi = r[2] /\ r = <<lo, hi>>
    BY <1>6
  <2>2. ASSUME NEW k \in 0..n, NEW l \in 0..n, rank[<<k, l>>] < rank[<<lo, hi>>] PROVE right(k, l)
    <3>1. <<k, l>> \in D /\ <<k, l>>[1] = k /\ <<k, l>>[2] = l
      OBVIOUS
    <3> HIDE DEF D
    <3>2. <<k, l>> \in P
      <4> HIDE DEF P
      <4> QED BY <1>18, <2>1, <2>2, <3>1
    <3> QED BY <3>1, <3>2
  <2>3. right(lo, hi)
    BY <1>17, <2>2
  <2> HIDE DEF D
  <2> QED BY <2>1, <2>3
<1>19. <<0, n>> \in P
  <2>1. D \subseteq P
    <3> HIDE DEF P, D
    <3> QED BY <1>8, <1>18, RankInduction
  <2>2. <<0, n>> \in D
    BY <1>2
  <2> HIDE DEF P, D
  <2> QED BY <2>1, <2>2
<1>20. right(0, n)
  <2>1. <<0, n>>[1] = 0 /\ <<0, n>>[2] = n
    OBVIOUS
  <2> QED BY <1>19, <2>1
<1>21. \A i \in 1..n : 0 < i /\ i <= n
  BY <1>2
<1> QED BY <1>1, <1>2, <1>20, <1>21 DEF right, postings

\* A search finds the documents that have all the trigrams, whichever they are.
LEMMA SearchIsHolding ==
  ASSUME NEW index, BuiltIndex(index), NEW written, Regions(written, index),
         NEW trigrams \in SUBSET Nat
  PROVE  SearchFile(written, trigrams) = Holding(index, trigrams)
<1> DEFINE postings == index.postings
           Ids == 0..(Len(index.docs) - 1)
           at(t) == LookupTrigram(written, t)
           found == {LookupTrigram(written, t) : t \in trigrams}
           inline == {p.ids : p \in {q \in found : q.inline}}
           serialized == {p.ids : p \in {q \in found : ~q.inline}}
           base == Shortest(IF inline # {} THEN inline ELSE serialized)
           holds(d, t) == \E i \in DOMAIN postings : postings[i].trigram = t /\ d \in postings[i].ids
<1>1. PICK n \in Nat : n = Len(postings) /\ DOMAIN postings = 1..n
  BY PostingCells
<1>2. PICK N \in Nat : N = Len(index.docs)
  BY DocCells
<1>3. \A i \in 1..n : postings[i].ids \in SUBSET Ids /\ postings[i].ids # {}
  BY <1>1, PostingCells
<1>4. \A t \in trigrams : \A i \in 1..n : postings[i].trigram = t => at(t) = AsRead(postings, i)
  BY <1>1, LookupFinds
<1>5. \A t \in trigrams : (\A i \in 1..n : postings[i].trigram # t) => at(t) = NotFound
  BY <1>1, LookupFinds
<1> HIDE DEF at
<1>6. /\ SearchFile(written, trigrams) =
           IF found = {} \/ NotFound \in found THEN {}
           ELSE Intersect(Intersect(base, inline \ {base}), serialized \ {base})
      /\ Holding(index, trigrams) = {d \in Ids : trigrams # {} /\ \A t \in trigrams : holds(d, t)}
  BY DEF SearchFile, Holding
<1>7. found = {at(t) : t \in trigrams}
  BY DEF at
<1> HIDE DEF found
<1>8. CASE trigrams = {}
  <2>1. found = {}
    BY <1>7, <1>8
  <2> HIDE DEF holds, Ids, base, inline, serialized
  <2> QED BY <1>6, <1>8, <2>1
<1>9. CASE trigrams # {} /\ \E t \in trigrams : \A i \in 1..n : postings[i].trigram # t
  <2>1. PICK t \in trigrams : \A i \in 1..n : postings[i].trigram # t
    BY <1>9
  <2>2. NotFound \in found
    BY <1>5, <1>7, <2>1
  <2>3. \A d \in Ids : ~holds(d, t)
    BY <1>1, <2>1
  <2> HIDE DEF holds, Ids, base, inline, serialized
  <2> QED BY <1>6, <2>2, <2>3
<1>10. CASE trigrams # {} /\ \A t \in trigrams : \E i \in 1..n : postings[i].trigram = t
  <2>1. \A t \in trigrams : \A d \in Ids : holds(d, t) <=> d \in at(t).ids
    <3> SUFFICES ASSUME NEW t \in trigrams, NEW d \in Ids PROVE holds(d, t) <=> d \in at(t).ids
      OBVIOUS
    <3>1. PICK i \in 1..n : postings[i].trigram = t
      BY <1>10
    <3>2. \A k \in 1..n : postings[k].trigram = t => at(t).ids = postings[k].ids
      BY <1>4 DEF AsRead
    <3> QED BY <1>1, <3>1, <3>2
  <2>2. \A t \in trigrams : at(t).ids \in SUBSET Ids /\ at(t).inline \in BOOLEAN /\ at(t) # NotFound
    <3> SUFFICES ASSUME NEW t \in trigrams
                 PROVE  at(t).ids \in SUBSET Ids /\ at(t).inline \in BOOLEAN /\ at(t) # NotFound
      OBVIOUS
    <3>1. PICK i \in 1..n : postings[i].trigram = t
      BY <1>10
    <3>2. at(t) = AsRead(postings, i)
      BY <1>4, <3>1
    <3>3. at(t).ids = postings[i].ids /\ at(t).inline = Inline(postings[i].ids)
      BY <3>2 DEF AsRead
    <3>4. at(t) # NotFound
      BY <1>3, <3>3 DEF NotFound
    <3>5. Inline(postings[i].ids) \in BOOLEAN
      BY DEF Inline
    <3> QED BY <1>3, <3>3, <3>4, <3>5
  <2>3. found # {} /\ NotFound \notin found
    BY <1>7, <1>10, <2>2
  <2>4. \A l : l \in inline \/ l \in serialized <=> \E t \in trigrams : l = at(t).ids
    BY <1>7, <2>2
  <2>5. inline \in SUBSET SUBSET Ids /\ serialized \in SUBSET SUBSET Ids
    <3> HIDE DEF inline, serialized, Ids
    <3>1. \A l : l \in inline \/ l \in serialized => l \in SUBSET Ids
      BY <2>2, <2>4
    <3> QED BY <3>1
  <2>6. inline # {} \/ serialized # {}
    <3>1. PICK t \in trigrams : TRUE
      BY <1>10
    <3> QED BY <2>4, <3>1
  <2> HIDE DEF inline, serialized
  <2>7. base \in inline \/ base \in serialized
    <3> DEFINE from == IF inline # {} THEN inline ELSE serialized
    <3>1. from \in SUBSET SUBSET (0..(N - 1)) /\ from # {}
      BY <1>2, <2>5, <2>6
    <3>2. Shortest(from) \in from
      <4> HIDE DEF from
      <4> QED BY <1>2, <3>1, SmallestAndLargest
    <3> QED BY <3>2
  <2> HIDE DEF base
  <2>8. ASSUME NEW some \in SUBSET SUBSET Ids, NEW start
        PROVE  Intersect(start, some \ {base}) = {d \in start : \A l \in some \ {base} : d \in l}
    <3> DEFINE rest == some \ {base}
               All == SUBSET (0..(N - 1))
    <3>1. rest \in SUBSET SUBSET (0..(N - 1))
      BY <1>2
    <3>2. IsFiniteSet(rest)
      <4>1. IsFiniteSet(0..(N - 1))
        BY <1>2, FS_Interval
      <4>2. IsFiniteSet(All)
        BY <4>1, FS_SUBSET
      <4>3. rest \subseteq All
        BY <3>1
      <4> HIDE DEF rest, All
      <4> QED BY <4>2, <4>3, FS_Subset
    <3> HIDE DEF rest
    <3>3. Intersect(start, rest) = {d \in start : \A l \in rest : d \in l}
      BY <1>2, <3>1, <3>2, IntersectIsExact
    <3> QED BY <3>3 DEF rest
  <2> DEFINE first == Intersect(base, inline \ {base})
  <2>9. first = {d \in base : \A l \in inline \ {base} : d \in l}
    BY <2>5, <2>8
  <2>10. Intersect(first, serialized \ {base}) = {d \in first : \A l \in serialized \ {base} : d \in l}
    <3> HIDE DEF first
    <3> QED BY <2>5, <2>8
  <2>11. SearchFile(written, trigrams) = {d \in first : \A l \in serialized \ {base} : d \in l}
    BY <1>6, <2>3, <2>10
  <2> HIDE DEF first
  <2>12. \A d : d \in SearchFile(written, trigrams) <=>
            d \in Ids /\ \A t \in trigrams : d \in at(t).ids
    <3>1. \A d : d \in SearchFile(written, trigrams) <=>
             d \in base /\ \A l : l \in inline \/ l \in serialized => d \in l
      BY <2>7, <2>9, <2>11
    <3>2. base \in SUBSET Ids
      BY <2>5, <2>7
    <3> QED BY <2>4, <2>7, <3>1, <3>2
  <2>13. \A d : d \in Holding(index, trigrams) <=> d \in Ids /\ \A t \in trigrams : holds(d, t)
    <3> HIDE DEF holds, Ids
    <3> QED BY <1>6, <1>10
  <2>14. \A d : d \in SearchFile(written, trigrams) <=> d \in Holding(index, trigrams)
    <3> HIDE DEF holds, Ids
    <3> QED BY <2>1, <2>12, <2>13
  <2>15. Holding(index, trigrams) \subseteq Ids
    BY DEF Holding
  <2> DEFINE X == SearchFile(written, trigrams)
             Y == Holding(index, trigrams)
  <2> HIDE DEF X, Y
  <2>16. X = Y
    BY <2>11, <2>14, Zenon DEF X, Y
  <2> QED BY <2>16 DEF X, Y
<1> QED BY <1>8, <1>9, <1>10

-----------------------------------------------------------------------------
\* A path beyond the limit makes all the paths longer than it.
LEMMA TooLargeIsLong ==
  ASSUME NEW index, BuiltIndex(index), TooLarge(index.docs)
  PROVE  WriteIndex(index) = Refused /\ PathBytes(index) > MaxPathOffset
<1> DEFINE docs == index.docs
           whole == FlattenSeq(Paths(docs))
<1>1. PICK d \in 1..Len(docs) : Before(Paths(docs), d) > MaxPathOffset \/ Len(docs[d].path) > MaxPathOffset
  BY DocCells DEF TooLarge
<1>2. /\ Before(Paths(docs), d) \in Nat /\ HasPart(whole, Before(Paths(docs), d), docs[d].path)
      /\ docs[d].path \in Seq(Nat)
  BY DocCells, FlattenHas
<1>3. whole \in Seq(Nat)
  BY DocCells, UptoEnds
<1> HIDE DEF whole, docs
<1>4. Before(Paths(docs), d) + Len(docs[d].path) <= Len(whole)
  BY <1>2 DEF HasPart
<1>5. Len(whole) > MaxPathOffset
  <2>1. PICK b \in Nat, l \in Nat, w \in Nat :
           b = Before(Paths(docs), d) /\ l = Len(docs[d].path) /\ w = Len(whole)
    BY <1>2, <1>3
  <2>2. MaxPathOffset \in Nat
    BY IndexLayoutConstants
  <2> QED BY <1>1, <1>4, <2>1, <2>2
<1> QED BY <1>5 DEF WriteIndex, PathBytes, whole, docs

\* What a search may be asked for are numbers.
LEMMA AskedAreNumbers ==
  ASSUME NEW index, BuiltIndex(index)
  PROVE  UNION {kSubset(k, Asked(index)) : k \in 0..3} \subseteq SUBSET Nat
<1>1. Asked(index) \subseteq Nat
  <2> DEFINE known == {index.postings[i].trigram : i \in DOMAIN index.postings}
  <2>1. \A t \in known : t \in Nat
    BY PostingCells, FlagType
  <2> HIDE DEF known
  <2>2. \A t \in known \ {0} : t - 1 \in Nat
    BY <2>1
  <2>3. \A t \in known : t + 1 \in Nat
    BY <2>1
  <2>4. Asked(index) = known \cup {t - 1 : t \in known \ {0}} \cup {t + 1 : t \in known \ {InlineFlag - 1}}
    BY DEF Asked, known
  <2> QED BY <2>1, <2>2, <2>3, <2>4
<1>2. \A k : kSubset(k, Asked(index)) \subseteq SUBSET Asked(index)
  BY DEF kSubset
<1> QED BY <1>1, <1>2

\* Every built index is refused for its size, or read back as it was: paths,
\* contents, and for a search the documents that have all its trigrams.
THEOREM LayoutReadsBack ==
  ASSUME NEW index, BuiltIndex(index)
  PROVE  ReadsBack(index)
<1> DEFINE written == WriteIndex(index)
<1>1. CASE TooLarge(index.docs)
  BY <1>1, TooLargeIsLong DEF ReadsBack
<1>3. CASE TooMany(index)
  BY <1>3 DEF WriteIndex, ReadsBack
<1>2. CASE ~TooLarge(index.docs) /\ ~TooMany(index)
  <2>1. Regions(written, index)
    BY <1>2, FileHas
  <2>2. written # Refused
    BY <2>1 DEF Regions
  <2> HIDE DEF written
  <2>3. ASSUME NEW id \in 0..(Len(index.docs) - 1)
        PROVE  /\ DocPath(written, id) = index.docs[id + 1].path
               /\ DocContent(written, id) = index.docs[id + 1].content
    <3>1. PICK d \in 1..Len(index.docs) : d = id + 1 /\ d - 1 = id
      BY DocCells
    <3> QED BY <1>2, <2>1, <3>1, DocReads
  <2>4. ASSUME NEW trigrams \in UNION {kSubset(k, Asked(index)) : k \in 0..3}
        PROVE  SearchFile(written, trigrams) = Holding(index, trigrams)
    <3>1. trigrams \in SUBSET Nat
      BY AskedAreNumbers
    <3> QED BY <2>1, <3>1, SearchIsHolding
  <2> QED BY <2>2, <2>3, <2>4 DEF ReadsBack, written
<1> QED BY <1>1, <1>2, <1>3

\* No state of the file protocol bears on it: what TLC tries on some indexes holds
\* of all that are built.
THEOREM LayoutsAreReadBack == Spec => []AllReadBack
<1>1. AllReadBack
  BY IndexLayoutConstants, LayoutReadsBack DEF AllReadBack
<1> QED BY <1>1, PTL

=============================================================================

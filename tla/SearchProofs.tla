---------------------------- MODULE SearchProofs ----------------------------
(***************************************************************************)
(* Theorems about SearchStream, for any number of readers and documents,   *)
(* any limit, any finding of the scans and any interleaving of the         *)
(* workers, the blocking tasks and the client.                             *)
(***************************************************************************)
EXTENDS SearchStream, FiniteSetTheorems, SequenceTheorems, TLAPS

-----------------------------------------------------------------------------
\* The union of finitely many finite sets.
LEMMA FiniteUnion ==
  ASSUME NEW S, IsFiniteSet(S), NEW F, F = [x \in S |-> F[x]], \A x \in S : IsFiniteSet(F[x])
  PROVE  IsFiniteSet(UNION {F[x] : x \in S})
  <1> DEFINE T == {F[x] : x \in S}
  <1>1. F \in Surjection(S, T)
    BY DEF Surjection
  <1>2. IsFiniteSet(T)
    BY <1>1, FS_Surjection
  <1> QED
    BY <1>2, FS_UNION

\* The ranges of two sets of files that share none add up.
LEMMA RangesAddUp ==
  ASSUME ExecTypeOK, NEW S \in SUBSET Docs, NEW T \in SUBSET Docs, S \cap T = {}
  PROVE  /\ RangesIn(S) \in Nat /\ RangesIn(T) \in Nat
         /\ RangesIn(S \cup T) = RangesIn(S) + RangesIn(T)
         /\ \A d \in Docs : RangesIn({d}) = RangesFound(d) /\ RangesFound(d) \in Nat
  <1> DEFINE In(files) == UNION {Occurrences(d) : d \in files}
  <1>1. ASSUME NEW d \in Docs
        PROVE  IsFiniteSet(Occurrences(d)) /\ \A o \in Occurrences(d) : o[1][1] = d
    <2> DEFINE lines == {j \in DOMAIN ranges[d] : j <= MaxMatchesPerFile}
               F == [i \in lines |-> {<<d, i>>} \X (1..ranges[d][i])]
    <2>1. ranges[d] \in Seq(Nat \ {0}) /\ IsFiniteSet(1..Len(ranges[d]))
      BY FS_Interval DEF ExecTypeOK
    <2>2. lines \subseteq 1..Len(ranges[d]) /\ \A i \in lines : ranges[d][i] \in Nat
      BY <2>1
    <2>3. IsFiniteSet(lines)
      BY <2>1, <2>2, FS_Subset
    <2>4. ASSUME NEW i \in lines PROVE IsFiniteSet(F[i])
      <3> DEFINE line == {<<d, i>>}
                 ks   == 1..ranges[d][i]
      <3>1. IsFiniteSet(ks)
        <4>1. ranges[d][i] \in Int /\ 1 \in Int
          BY <2>2
        <4> QED
          BY <4>1, FS_Interval
      <3>2. IsFiniteSet(line)
        BY FS_Singleton
      <3>3. F[i] = line \X ks
        OBVIOUS
      <3> HIDE DEF line, ks, F
      <3> QED
        BY <3>1, <3>2, <3>3, FS_Product
    <2>5. IsFiniteSet(UNION {F[i] : i \in lines})
      <3> HIDE DEF lines
      <3>1. F = [i \in lines |-> F[i]]
        OBVIOUS
      <3> HIDE DEF F
      <3> QED
        BY <2>3, <2>4, <3>1, FiniteUnion
    <2>6. UNION {F[i] : i \in lines} = Occurrences(d)
      BY DEF Occurrences
    <2>7. \A o \in Occurrences(d) : o[1][1] = d
      BY DEF Occurrences
    <2> HIDE DEF lines, F
    <2> QED
      BY <2>5, <2>6, <2>7
  <1>2. ASSUME NEW files \in SUBSET Docs PROVE IsFiniteSet(In(files))
    <2> DEFINE F == [d \in files |-> Occurrences(d)]
    <2>1. IsFiniteSet(files)
      BY SearchExecutionConstants, FS_Subset
    <2>2. F = [d \in files |-> F[d]] /\ \A d \in files : IsFiniteSet(F[d])
      BY <1>1
    <2>3. In(files) = UNION {F[d] : d \in files}
      OBVIOUS
    <2> HIDE DEF F, In
    <2> QED
      BY <2>1, <2>2, <2>3, FiniteUnion
  <1>3. In(S \cup T) = In(S) \cup In(T)
    OBVIOUS
  <1>4. In(S) \cap In(T) = {}
    BY <1>1
  <1>5. \A d \in Docs : In({d}) = Occurrences(d)
    OBVIOUS
  <1>6. /\ Cardinality(In(S)) \in Nat /\ Cardinality(In(T)) \in Nat
        /\ Cardinality(In(S) \cap In(T)) = 0
        /\ Cardinality(In(S \cup T)) =
             Cardinality(In(S)) + Cardinality(In(T)) - Cardinality(In(S) \cap In(T))
    <2>1. IsFiniteSet(In(S)) /\ IsFiniteSet(In(T))
      BY <1>2
    <2> HIDE DEF In
    <2> QED
      BY <1>3, <1>4, <2>1, FS_CardinalityType, FS_EmptySet, FS_Union
  <1>7. \A d \in Docs : RangesFound(d) \in Nat
    BY <1>1, FS_CardinalityType DEF RangesFound
  <1>8. /\ \A files : RangesIn(files) = Cardinality(In(files))
        /\ \A d : RangesFound(d) = Cardinality(Occurrences(d))
    BY DEF RangesIn, RangesFound
  <1> HIDE DEF In
  <1>9. \A d \in Docs : RangesIn({d}) = RangesFound(d)
    BY <1>5, <1>8
  <1>10. RangesIn(S \cup T) = RangesIn(S) + RangesIn(T)
    BY <1>6, <1>8
  <1> QED
    BY <1>6, <1>7, <1>8, <1>9, <1>10

-----------------------------------------------------------------------------
\* The candidates of a reader that are at one of the steps.
At(r, steps) == {d \in CandidatesOf(r) : doc[d] \in steps}

Found     == {"over", "over_counted", "listed", "overflowed"}
PastLimit == {"over", "over_counted", "overflowed"}
Counted   == {"over_counted", "overflowed"}

\* A scanned document is where its ranges say it is.
ScansRight == \A d \in candidates :
    /\ doc[d] = "rejected" => ranges[d] = <<>>
    /\ doc[d] \in {"matched"} \cup Found => ranges[d] # <<>>

\* The counters count what they are there to count, and the files found
\* before the limit was reached are the listed ones.
CountsRight == \A r \in Readers :
    /\ found_count[r] = Cardinality(At(r, {"listed"})) + Cardinality(At(r, PastLimit))
    /\ Cardinality(At(r, {"listed"})) =
           IF found_count[r] > limit THEN limit ELSE found_count[r]
    /\ overflow_files[r] = Cardinality(At(r, Counted))
    /\ overflow_matches[r] = RangesIn(At(r, {"overflowed"}))

ExecInv == ExecTypeOK /\ ScansRight /\ CountsRight /\ FilesExact /\ MatchesExact

\* The sets counted are finite.
LEMMA AtFinite ==
  ASSUME ExecTypeOK, NEW r, NEW steps
  PROVE  /\ At(r, steps) \in SUBSET Docs
         /\ IsFiniteSet(At(r, steps))
         /\ Cardinality(At(r, steps)) \in Nat
  <1>1. At(r, steps) \subseteq Docs /\ IsFiniteSet(Docs)
    BY SearchExecutionConstants DEF At, CandidatesOf, ExecTypeOK
  <1>2. IsFiniteSet(At(r, steps))
    BY <1>1, FS_Subset
  <1> QED
    BY <1>1, <1>2, FS_CardinalityType

\* A document that moves is one of the candidates, and while it moves its reader
\* has not returned: no answer changes.
LEMMA DocMoves ==
  ASSUME ExecInv, NEW d \in Docs, NEW from, NEW to \in DocSteps,
         Move(d, from, to), UNCHANGED <<inputs, phase, result>>
  PROVE  /\ d \in candidates /\ ReaderOf[d] \in Readers /\ doc[d] = from
         /\ doc' \in [Docs -> DocSteps]
         /\ \A e \in Docs : doc'[e] = IF e = d THEN to ELSE doc[e]
         /\ FilesExact' /\ MatchesExact'
  <1> USE DEF ExecInv
  <1>1. /\ d \in candidates /\ ReaderOf[d] \in Readers
        /\ doc[d] = from /\ doc' = [doc EXCEPT ![d] = to]
        /\ doc' \in [Docs -> DocSteps]
        /\ phase[ReaderOf[d]] # "returned"
        /\ UNCHANGED <<limit, candidates, ranges, phase, result>>
    BY SearchExecutionConstants DEF Move, Working, ExecTypeOK, inputs
  <1>2. /\ \A e \in Docs : doc'[e] = IF e = d THEN to ELSE doc[e]
        /\ \A files : RangesIn(files)' = RangesIn(files)
        /\ \A r : Matching(r)' = Matching(r)
    BY <1>1 DEF ExecTypeOK, RangesIn, Occurrences, Matching, CandidatesOf
  <1>3. FilesExact' /\ MatchesExact'
    BY <1>1, <1>2 DEF FilesExact, MatchesExact, RangesIn, Occurrences
  <1> QED BY <1>1, <1>2, <1>3

\* It enters or leaves the sets of its reader only.
LEMMA MoveKeeps ==
  ASSUME ExecInv, NEW d \in Docs, NEW from, NEW to \in DocSteps,
         Move(d, from, to), UNCHANGED <<inputs, phase, result>>
  PROVE  \A r \in Readers : \A steps :
              /\ r # ReaderOf[d] \/ (from \in steps <=> to \in steps) =>
                   /\ At(r, steps)' = At(r, steps)
                   /\ RangesIn(At(r, steps))' = RangesIn(At(r, steps))
              /\ r = ReaderOf[d] /\ from \notin steps /\ to \in steps =>
                   d \notin At(r, steps) /\ At(r, steps)' = At(r, steps) \cup {d}
              /\ Cardinality(At(r, steps)') = Cardinality(At(r, steps)) +
                   (IF r # ReaderOf[d] \/ (from \in steps <=> to \in steps) THEN 0
                    ELSE IF to \in steps THEN 1 ELSE -1)
  <1> USE DEF ExecInv
  <1>1. /\ d \in candidates /\ ReaderOf[d] \in Readers /\ doc[d] = from
        /\ doc' \in [Docs -> DocSteps]
        /\ \A e \in Docs : doc'[e] = IF e = d THEN to ELSE doc[e]
        /\ UNCHANGED <<candidates, ranges>>
    BY DocMoves DEF inputs
  <1>2. \A r : CandidatesOf(r)' = CandidatesOf(r) /\ CandidatesOf(r) \subseteq Docs
    BY <1>1 DEF ExecTypeOK, CandidatesOf
  <1>4. ASSUME NEW r \in Readers, NEW steps
        PROVE  /\ r # ReaderOf[d] => At(r, steps)' = At(r, steps)
               /\ r = ReaderOf[d] => At(r, steps)' =
                    IF to \in steps THEN At(r, steps) \cup {d} ELSE At(r, steps) \ {d}
               /\ d \in At(r, steps) <=> r = ReaderOf[d] /\ from \in steps
    BY <1>1, <1>2 DEF At, CandidatesOf
  <1>5. ASSUME NEW r \in Readers, NEW steps
        PROVE  /\ r # ReaderOf[d] \/ (from \in steps <=> to \in steps) =>
                    At(r, steps)' = At(r, steps)
               /\ r = ReaderOf[d] /\ from \notin steps /\ to \in steps =>
                    d \notin At(r, steps) /\ At(r, steps)' = At(r, steps) \cup {d}
               /\ Cardinality(At(r, steps)') = Cardinality(At(r, steps)) +
                    (IF r # ReaderOf[d] \/ (from \in steps <=> to \in steps) THEN 0
                     ELSE IF to \in steps THEN 1 ELSE -1)
    <2> DEFINE S == At(r, steps)
    <2>1. IsFiniteSet(S) /\ Cardinality(S) \in Nat
      BY AtFinite
    <2>2. /\ Cardinality(S \cup {d}) = IF d \in S THEN Cardinality(S) ELSE Cardinality(S) + 1
          /\ Cardinality(S \ {d}) = IF d \in S THEN Cardinality(S) - 1 ELSE Cardinality(S)
      BY <2>1, FS_AddElement, FS_RemoveElement
    <2>3. /\ r # ReaderOf[d] => S' = S
          /\ r = ReaderOf[d] => S' = IF to \in steps THEN S \cup {d} ELSE S \ {d}
          /\ d \in S <=> r = ReaderOf[d] /\ from \in steps
      BY <1>4
    <2> HIDE DEF S
    <2>4. CASE r # ReaderOf[d]
      BY <2>1, <2>3, <2>4 DEF S
    <2>5. CASE r = ReaderOf[d] /\ to \in steps
      <3>1. S' = S \cup {d} /\ (d \in S <=> from \in steps)
        BY <2>3, <2>5
      <3>2. d \in S => S \cup {d} = S
        OBVIOUS
      <3> QED
        BY <2>1, <2>2, <2>5, <3>1, <3>2 DEF S
    <2>6. CASE r = ReaderOf[d] /\ to \notin steps
      <3>1. S' = S \ {d} /\ (d \in S <=> from \in steps)
        BY <2>3, <2>6
      <3>2. d \notin S => S \ {d} = S
        OBVIOUS
      <3> QED
        BY <2>1, <2>2, <2>6, <3>1, <3>2 DEF S
    <2> QED
      BY <2>4, <2>5, <2>6
  <1>6. ASSUME NEW r, NEW steps, At(r, steps)' = At(r, steps)
        PROVE  RangesIn(At(r, steps))' = RangesIn(At(r, steps))
    BY <1>1, <1>6 DEF RangesIn, Occurrences
  <1> QED
    BY <1>5, <1>6

\* The steps of one worker.
LEMMA WorkerStep ==
  ASSUME ExecInv, NEW d \in Docs, VerifyStep(d)
  PROVE  ExecInv'
  <1> USE DEF ExecInv
  <1> DEFINE r == ReaderOf[d]
  <1>1. r \in Readers
    BY SearchExecutionConstants
  <1>2. CASE Verify(d)
    <2> DEFINE to == IF ranges[d] = <<>> THEN "rejected" ELSE "matched"
    <2>1. Move(d, "queued", to) /\ UNCHANGED <<inputs, phase, counters, result>>
      BY <1>2 DEF Verify
    <2>2. UNCHANGED <<limit, candidates, ranges, phase, result, found_count,
                       overflow_files, overflow_matches>>
      BY <2>1 DEF inputs, counters
    <2>3. /\ to \in DocSteps
          /\ to = "rejected" => ranges[d] = <<>>
          /\ to = "matched" => ranges[d] # <<>>
          /\ to \in {"rejected", "matched"}
      BY DEF DocSteps
    <2> HIDE DEF to
    <2>4. /\ doc' \in [Docs -> DocSteps] /\ FilesExact' /\ MatchesExact'
          /\ \A e \in Docs : doc'[e] = IF e = d THEN to ELSE doc[e]
      BY <2>1, <2>3, DocMoves
    <2>5. ExecTypeOK' /\ ScansRight'
      BY <2>2, <2>3, <2>4 DEF ExecTypeOK, ScansRight, Found
    <2>6. CountsRight'
      <3> SUFFICES ASSUME NEW s \in Readers PROVE CountsRight!(s)'
        BY DEF CountsRight
      <3>1. /\ At(s, {"listed"})' = At(s, {"listed"})
            /\ At(s, PastLimit)' = At(s, PastLimit)
            /\ At(s, Counted)' = At(s, Counted)
            /\ RangesIn(At(s, {"overflowed"}))' = RangesIn(At(s, {"overflowed"}))
        BY <2>1, <2>3, MoveKeeps DEF PastLimit, Counted
      <3>2. CountsRight!(s)
        BY DEF CountsRight
      <3> QED
        BY <2>2, <3>1, <3>2
    <2> QED
      BY <2>4, <2>5, <2>6
  <1>3. CASE CountFound(d)
    <2> DEFINE to == IF found_count[r] >= limit THEN "over" ELSE "listed"
    <2>1. Move(d, "matched", to) /\ UNCHANGED <<inputs, phase, result>>
      BY <1>3 DEF CountFound
    <2>2. /\ UNCHANGED <<limit, candidates, ranges, phase, result, overflow_files, overflow_matches>>
          /\ found_count' = [found_count EXCEPT ![r] = @ + 1]
      BY <1>3 DEF CountFound, inputs, Add
    <2>3. to \in DocSteps /\ to \in Found /\ to \in {"over", "listed"}
      BY DEF DocSteps, Found
    <2>4. /\ doc' \in [Docs -> DocSteps] /\ FilesExact' /\ MatchesExact'
          /\ \A e \in Docs : doc'[e] = IF e = d THEN to ELSE doc[e]
          /\ d \in candidates /\ doc[d] = "matched"
      BY <2>1, <2>3, DocMoves
    <2>5. ExecTypeOK'
      BY <1>1, <2>2, <2>4 DEF ExecTypeOK
    <2>6. ScansRight'
      BY <2>2, <2>3, <2>4 DEF ExecTypeOK, ScansRight, Found
    <2>7. CountsRight'
      <3> SUFFICES ASSUME NEW s \in Readers PROVE CountsRight!(s)'
        BY DEF CountsRight
      <3> HIDE DEF to
      <3>1. /\ Cardinality(At(s, {"listed"})') = Cardinality(At(s, {"listed"})) +
                   (IF s = r /\ to = "listed" THEN 1 ELSE 0)
            /\ Cardinality(At(s, PastLimit)') = Cardinality(At(s, PastLimit)) +
                   (IF s = r /\ to = "over" THEN 1 ELSE 0)
            /\ At(s, Counted)' = At(s, Counted)
            /\ RangesIn(At(s, {"overflowed"}))' = RangesIn(At(s, {"overflowed"}))
        <4>1. /\ "matched" \notin {"listed"} /\ (to \in {"listed"} <=> to = "listed")
              /\ "matched" \notin PastLimit /\ (to \in PastLimit <=> to = "over")
              /\ "matched" \notin Counted /\ to \notin Counted
              /\ "matched" \notin {"overflowed"} /\ to \notin {"overflowed"}
          BY <2>3 DEF PastLimit, Counted
        <4>2. /\ Cardinality(At(s, {"listed"})) \in Nat
              /\ Cardinality(At(s, PastLimit)) \in Nat
          BY AtFinite
        <4> QED
          BY <2>1, <2>3, <4>1, <4>2, MoveKeeps
      <3>2. /\ found_count'[s] = found_count[s] + (IF s = r THEN 1 ELSE 0)
            /\ found_count[s] \in Nat /\ limit \in Nat
            /\ Cardinality(At(s, {"listed"})) \in Nat /\ Cardinality(At(s, PastLimit)) \in Nat
        BY <1>1, <2>2, AtFinite DEF ExecTypeOK
      <3>3. CountsRight!(s)
        BY DEF CountsRight
      <3>4. CASE s # r
        BY <2>2, <3>1, <3>2, <3>3, <3>4
      <3>5. CASE s = r /\ found_count[r] >= limit
        BY <2>2, <3>1, <3>2, <3>3, <3>5 DEF to
      <3>6. CASE s = r /\ ~(found_count[r] >= limit)
        BY <2>2, <3>1, <3>2, <3>3, <3>6 DEF to
      <3> QED
        BY <3>4, <3>5, <3>6
    <2> QED
      BY <2>4, <2>5, <2>6, <2>7
  <1>4. CASE CountOverflowFile(d)
    <2>1. Move(d, "over", "over_counted") /\ UNCHANGED <<inputs, phase, result>>
      BY <1>4 DEF CountOverflowFile
    <2>2. /\ UNCHANGED <<limit, candidates, ranges, phase, result, found_count, overflow_matches>>
          /\ overflow_files' = [overflow_files EXCEPT ![r] = @ + 1]
      BY <1>4 DEF CountOverflowFile, inputs, Add
    <2>3. /\ doc' \in [Docs -> DocSteps] /\ FilesExact' /\ MatchesExact'
          /\ \A e \in Docs : doc'[e] = IF e = d THEN "over_counted" ELSE doc[e]
          /\ d \in candidates /\ doc[d] = "over"
      <3>1. "over_counted" \in DocSteps
        BY DEF DocSteps
      <3> QED
        BY <2>1, <3>1, DocMoves
    <2>4. ExecTypeOK' /\ ScansRight'
      BY <1>1, <2>2, <2>3 DEF ExecTypeOK, ScansRight, Found
    <2>5. CountsRight'
      <3> SUFFICES ASSUME NEW s \in Readers PROVE CountsRight!(s)'
        BY DEF CountsRight
      <3>1. /\ At(s, {"listed"})' = At(s, {"listed"})
            /\ At(s, PastLimit)' = At(s, PastLimit)
            /\ Cardinality(At(s, Counted)') = Cardinality(At(s, Counted)) + (IF s = r THEN 1 ELSE 0)
            /\ RangesIn(At(s, {"overflowed"}))' = RangesIn(At(s, {"overflowed"}))
        BY <2>1, MoveKeeps, AtFinite DEF PastLimit, Counted, DocSteps
      <3>2. overflow_files'[s] = overflow_files[s] + (IF s = r THEN 1 ELSE 0)
        BY <1>1, <2>2 DEF ExecTypeOK
      <3>3. CountsRight!(s)
        BY DEF CountsRight
      <3> QED
        BY <2>2, <3>1, <3>2, <3>3
    <2> QED
      BY <2>3, <2>4, <2>5
  <1>5. CASE CountOverflowMatches(d)
    <2>1. Move(d, "over_counted", "overflowed") /\ UNCHANGED <<inputs, phase, result>>
      BY <1>5 DEF CountOverflowMatches
    <2>2. /\ UNCHANGED <<limit, candidates, ranges, phase, result, found_count, overflow_files>>
          /\ overflow_matches' = [overflow_matches EXCEPT ![r] = @ + RangesFound(d)]
      BY <1>5 DEF CountOverflowMatches, inputs, Add
    <2>3. /\ doc' \in [Docs -> DocSteps] /\ FilesExact' /\ MatchesExact'
          /\ \A e \in Docs : doc'[e] = IF e = d THEN "overflowed" ELSE doc[e]
          /\ d \in candidates /\ doc[d] = "over_counted"
      <3>1. "overflowed" \in DocSteps
        BY DEF DocSteps
      <3> QED
        BY <2>1, <3>1, DocMoves
    <2>4. /\ RangesFound(d) \in Nat /\ RangesIn({d}) = RangesFound(d)
          /\ \A S \in SUBSET Docs : d \notin S =>
               RangesIn(S) \in Nat /\ RangesIn(S \cup {d}) = RangesIn(S) + RangesFound(d)
      <3>1. {d} \in SUBSET Docs /\ {} \in SUBSET Docs
        OBVIOUS
      <3>2. RangesFound(d) \in Nat /\ RangesIn({d}) = RangesFound(d)
        BY <3>1, RangesAddUp
      <3>3. ASSUME NEW S \in SUBSET Docs, d \notin S
            PROVE  RangesIn(S) \in Nat /\ RangesIn(S \cup {d}) = RangesIn(S) + RangesIn({d})
        <4>1. S \cap {d} = {}
          BY <3>3
        <4> QED
          BY <3>1, <4>1, RangesAddUp
      <3> QED
        BY <3>2, <3>3
    <2>5. ExecTypeOK' /\ ScansRight'
      BY SMTT(30), <1>1, <2>2, <2>3, <2>4 DEF ExecTypeOK, ScansRight, Found
    <2>6. CountsRight'
      <3> SUFFICES ASSUME NEW s \in Readers PROVE CountsRight!(s)'
        BY DEF CountsRight
      <3> DEFINE S == At(s, {"overflowed"})
      <3>1. /\ At(s, {"listed"})' = At(s, {"listed"})
            /\ At(s, PastLimit)' = At(s, PastLimit)
            /\ At(s, Counted)' = At(s, Counted)
            /\ s # r => RangesIn(S)' = RangesIn(S)
            /\ s = r => d \notin S /\ S' = S \cup {d}
        BY <2>1, MoveKeeps DEF PastLimit, Counted, DocSteps
      <3>2. s = r => RangesIn(S)' = RangesIn(S \cup {d})
        <4> HIDE DEF S
        <4>1. ASSUME NEW T, S' = T PROVE RangesIn(S)' = RangesIn(T)
          BY <2>2, <4>1 DEF RangesIn, Occurrences
        <4> QED
          BY <3>1, <4>1
      <3>3. overflow_matches'[s] = overflow_matches[s] + (IF s = r THEN RangesFound(d) ELSE 0)
        BY <1>1, <2>2, <2>4 DEF ExecTypeOK
      <3>4. CountsRight!(s)
        BY DEF CountsRight
      <3>5. s = r => overflow_matches'[s] = RangesIn(S)'
        <4>1. S \in SUBSET Docs
          BY AtFinite
        <4> HIDE DEF S
        <4> QED
          BY <2>4, <3>1, <3>2, <3>3, <3>4, <4>1 DEF S
      <3>6. overflow_matches'[s] = RangesIn(S)'
        BY <3>1, <3>3, <3>4, <3>5 DEF ExecTypeOK
      <3> QED
        BY <2>2, <3>1, <3>4, <3>6
    <2> QED
      BY <2>3, <2>5, <2>6
  <1> QED
    BY <1>2, <1>3, <1>4, <1>5 DEF VerifyStep

\* A reader returns: its answer is exact.
LEMMA CollectStep ==
  ASSUME ExecInv, NEW r \in Readers, Collect(r)
  PROVE  ExecInv'
  <1> USE DEF ExecInv
  <1> DEFINE listed == At(r, {"listed"})
             past   == At(r, PastLimit)
             files  == Truncate(Listed(r))
             answer == [files |-> files,
                        total_file_count |-> Cardinality(files) + overflow_files[r],
                        total_match_count |-> RangesIn(files) + overflow_matches[r]]
  <1>1. /\ \A d \in CandidatesOf(r) : doc[d] \in {"rejected", "listed", "overflowed"}
        /\ phase' = [phase EXCEPT ![r] = "returned"]
        /\ result' = [result EXCEPT ![r] = answer]
        /\ UNCHANGED <<limit, candidates, ranges, doc, found_count, overflow_files, overflow_matches>>
    BY DEF Collect, inputs, counters
  <1>2. /\ listed \in SUBSET Docs /\ IsFiniteSet(listed) /\ Cardinality(listed) \in Nat
        /\ past \in SUBSET Docs /\ IsFiniteSet(past) /\ Cardinality(past) \in Nat
    BY AtFinite
  <1>3. Listed(r) = listed /\ files = listed
    <2>1. Listed(r) = listed
      BY DEF Listed, At
    <2>2. Cardinality(listed) <= limit /\ limit \in Nat /\ listed \subseteq Nat
      <3>1. found_count[r] \in Nat /\ limit \in Nat
        BY DEF ExecTypeOK
      <3>2. Cardinality(listed) = IF found_count[r] > limit THEN limit ELSE found_count[r]
        BY DEF CountsRight
      <3>3. listed \subseteq Nat
        BY <1>2, SearchExecutionConstants
      <3> HIDE DEF listed
      <3> QED
        BY <3>1, <3>2, <3>3
    <2>3. ASSUME NEW d \in listed PROVE Cardinality({e \in listed : e < d}) < limit
      <3> DEFINE before == {e \in listed : e < d}
      <3>1. before \in SUBSET (listed \ {d})
        BY <2>2
      <3>2. IsFiniteSet(listed \ {d}) /\ Cardinality(listed \ {d}) = Cardinality(listed) - 1
        BY <1>2, FS_RemoveElement
      <3>3. IsFiniteSet(before) /\ Cardinality(before) <= Cardinality(listed \ {d})
        BY <3>1, <3>2, FS_Subset
      <3>4. Cardinality(before) \in Nat
        BY <3>3, FS_CardinalityType
      <3> QED
        BY <1>2, <2>2, <3>2, <3>3, <3>4
    <2>4. Truncate(listed) = listed
      BY <2>3 DEF Truncate
    <2> QED
      BY <2>1, <2>4
  <1>4. /\ Matching(r) = listed \cup past
        /\ listed \cap past = {}
        /\ past = At(r, Counted) /\ past = At(r, {"overflowed"})
    <2>1. \A d \in CandidatesOf(r) : d \in Matching(r) <=> doc[d] \in {"listed", "overflowed"}
      BY <1>1 DEF ScansRight, Matching, CandidatesOf, Found
    <2> QED
      BY <1>1, <2>1 DEF At, Matching, PastLimit, Counted
  <1>5. Cardinality(Matching(r)) = Cardinality(listed) + Cardinality(past)
    <2>1. Cardinality(listed \cup past) =
              Cardinality(listed) + Cardinality(past) - Cardinality(listed \cap past)
      BY <1>2, FS_Union
    <2>2. Cardinality(listed \cap past) = 0
      BY <1>4, FS_EmptySet
    <2> QED
      BY <1>2, <1>4, <2>1, <2>2
  <1>6. /\ Cardinality(Matching(r)) = found_count[r]
        /\ Cardinality(listed) = IF found_count[r] > limit THEN limit ELSE found_count[r]
        /\ overflow_files[r] = Cardinality(past)
        /\ overflow_matches[r] = RangesIn(past)
    BY <1>4, <1>5 DEF CountsRight
  <1>7. /\ RangesIn(listed) \in Nat /\ RangesIn(past) \in Nat
        /\ RangesIn(Matching(r)) = RangesIn(listed) + RangesIn(past)
    BY <1>2, <1>4, RangesAddUp
  <1>8. /\ answer.files = listed
        /\ answer.total_file_count = Cardinality(Matching(r))
        /\ answer.total_match_count = RangesIn(Matching(r))
        /\ answer \in SearchResult
    BY <1>2, <1>3, <1>5, <1>6, <1>7 DEF SearchResult
  <1> HIDE DEF answer, files
  <1>9. /\ \A s \in Readers : phase'[s] = IF s = r THEN "returned" ELSE phase[s]
        /\ \A s \in Readers : result'[s] = IF s = r THEN answer ELSE result[s]
    BY <1>1 DEF ExecTypeOK
  <1>10. ExecTypeOK'
    BY <1>1, <1>8 DEF ExecTypeOK
  <1>11. ScansRight' /\ CountsRight'
    <2>1. \A s, steps : At(s, steps)' = At(s, steps)
      BY <1>1 DEF At, CandidatesOf
    <2>2. ASSUME NEW s \in Readers PROVE CountsRight!(s)'
      <3>1. CountsRight!(s)
        BY DEF CountsRight
      <3>2. RangesIn(At(s, {"overflowed"}))' = RangesIn(At(s, {"overflowed"}))
        BY SMTT(30), <1>1, <2>1 DEF RangesIn, Occurrences
      <3>3. /\ At(s, {"listed"})' = At(s, {"listed"})
            /\ At(s, PastLimit)' = At(s, PastLimit)
            /\ At(s, Counted)' = At(s, Counted)
        BY <2>1
      <3> QED
        BY <1>1, <3>1, <3>2, <3>3
    <2>3. CountsRight'
      BY <2>2 DEF CountsRight
    <2> QED
      BY <1>1, <2>3 DEF ScansRight
  <1>12. /\ \A s : Matching(s)' = Matching(s)
         /\ \A s : RangesIn(Matching(s))' = RangesIn(Matching(s))
    BY <1>1 DEF Matching, CandidatesOf, RangesIn, Occurrences
  <1>13. FilesExact'
    <2> SUFFICES ASSUME NEW s \in Readers, phase'[s] = "returned" PROVE FilesExact!(s)!2'
      BY DEF FilesExact
    <2>1. CASE s = r
      BY <1>1, <1>4, <1>6, <1>8, <1>9, <1>12, <2>1
    <2>2. CASE s # r
      <3>1. FilesExact!(s)!2
        BY <1>9, <2>2 DEF FilesExact
      <3> QED
        BY <1>1, <1>9, <1>12, <2>2, <3>1
    <2> QED
      BY <2>1, <2>2
  <1>14. MatchesExact'
    BY <1>8, <1>9, <1>12 DEF MatchesExact
  <1> QED
    BY <1>10, <1>11, <1>13, <1>14

\* What at most starts searches of readers, or ends them by a panic, keeps everything.
LEMMA StartKeeps ==
  ASSUME ExecInv, UNCHANGED <<inputs, doc, counters, result>>,
         phase' \in [Readers -> {"idle", "running", "returned", "panicked"}],
         \A r \in Readers : phase'[r] \in {phase[r], "running", "panicked"}
  PROVE  ExecInv'
  <1> USE DEF ExecInv
  <1>1. UNCHANGED <<limit, candidates, ranges, doc, found_count, overflow_files, overflow_matches, result>>
    BY DEF inputs, counters
  <1>2. ExecTypeOK' /\ ScansRight'
    BY <1>1 DEF ExecTypeOK, ScansRight
  <1>3. \A r : Matching(r)' = Matching(r) /\ RangesIn(Matching(r))' = RangesIn(Matching(r))
    BY <1>1 DEF Matching, CandidatesOf, RangesIn, Occurrences
  <1>4. ASSUME NEW r \in Readers PROVE CountsRight!(r)'
    <2>1. CountsRight!(r)
      BY DEF CountsRight
    <2> QED
      BY <1>1, <2>1 DEF At, CandidatesOf, RangesIn, Occurrences
  <1>5. ASSUME NEW r \in Readers, phase'[r] = "returned"
        PROVE  FilesExact!(r)!2' /\ (result[r].total_match_count = RangesIn(Matching(r)))'
    <2>1. FilesExact!(r)!2 /\ result[r].total_match_count = RangesIn(Matching(r))
      BY <1>5 DEF FilesExact, MatchesExact
    <2> QED
      BY <1>1, <1>3, <2>1
  <1> QED
    BY <1>2, <1>4, <1>5 DEF CountsRight, FilesExact, MatchesExact

\* However the workers of a reader interleave, its answer lists as many files
\* as there is room for, counts every matching file once and every occurrence
\* in them once.
THEOREM AnswersExact == Spec => [](ExecInv /\ ResultExact)
  <1>1. Init => ExecInv
    <2> SUFFICES ASSUME Init PROVE ExecInv
      OBVIOUS
    <2>1. ExecTypeOK /\ ScansRight /\ FilesExact /\ MatchesExact
      BY DEF Init, Idle, ExecInit, ExecTypeOK, SearchResult, NoResult, ScansRight,
             FilesExact, MatchesExact, DocSteps, Found
    <2>2. ASSUME NEW r \in Readers PROVE CountsRight!(r)
      <3>1. /\ found_count[r] = 0 /\ overflow_files[r] = 0 /\ overflow_matches[r] = 0
            /\ limit \in Nat /\ \A d \in Docs : doc[d] = "queued"
        BY DEF Init, Idle, ExecInit
      <3>2. /\ At(r, {"listed"}) = {} /\ At(r, PastLimit) = {}
            /\ At(r, Counted) = {} /\ At(r, {"overflowed"}) = {}
        BY <2>1, <3>1 DEF At, CandidatesOf, PastLimit, Counted, ExecTypeOK
      <3>3. RangesIn({}) = Cardinality({}) /\ Cardinality({}) = 0
        <4>1. UNION {Occurrences(d) : d \in {}} = {}
          OBVIOUS
        <4> QED
          BY <4>1, FS_EmptySet DEF RangesIn
      <3> QED
        BY <3>1, <3>2, <3>3
    <2> QED
      BY <2>1, <2>2 DEF ExecInv, CountsRight
  <1>2. ExecInv /\ [Next]_vars => ExecInv'
    <2> SUFFICES ASSUME ExecInv, [Next]_vars PROVE ExecInv'
      OBVIOUS
    <2>1. CASE ExecuteStep
      BY <2>1, WorkerStep, CollectStep DEF ExecuteStep, ExecNext
    <2>2. CASE SearchAll
      BY <2>2, StartKeeps DEF SearchAll, ExecInv, ExecTypeOK
    <2>3. CASE Spawn
      BY <2>3, StartKeeps DEF Spawn, Execute, ExecInv, ExecTypeOK
    <2>4. ASSUME UNCHANGED execVars PROVE ExecInv'
      BY <2>4, StartKeeps DEF execVars, ExecInv, ExecTypeOK
    <2>5. CASE Refuse \/ SpawnTask \/ Respond \/ StartJoining \/ Join \/ SendDone \/ Reading
      BY <2>4, <2>5 DEF Refuse, SpawnTask, Respond, StartJoining, Join, SendDone,
                        Reading, Receive, EndOfStream, Disconnect
    <2>6. ASSUME NEW r \in Readers, TaskResult(r) \/ SendResult(r) PROVE ExecInv'
      BY <2>4, <2>6 DEF TaskResult, SendResult
    <2>7. CASE UNCHANGED vars
      BY <2>4, <2>7 DEF vars
    <2>8. ASSUME NEW r \in Readers, TaskPanics(r) PROVE ExecInv'
      BY <2>8, StartKeeps DEF TaskPanics, ExecInv, ExecTypeOK
    <2> QED
      BY <2>1, <2>2, <2>3, <2>5, <2>6, <2>7, <2>8 DEF Next, Handler
  <1>3. ExecInv => ResultExact
    BY DEF ExecInv, ResultExact
  <1> QED
    BY <1>1, <1>2, <1>3, PTL DEF Spec

\* Every state is well typed, of the workers, the handlers and the channel.
THEOREM TypeCorrect == Spec => []TypeOK
  <1>1. Init => TypeOK
    BY SearchExecutionConstants, SearchStreamConstants
       DEF Init, Idle, ExecInit, TypeOK, ExecTypeOK, SearchResult, NoResult, DocSteps, Stages,
           TaskStates, Response, NoResponse
  <1>2. ExecInv /\ ExecInv' /\ TypeOK /\ [Next]_vars => TypeOK'
    <2> SUFFICES ASSUME ExecInv, ExecInv', TypeOK, [Next]_vars PROVE TypeOK'
      OBVIOUS
    <2>1. ExecTypeOK /\ ExecTypeOK'
      BY DEF ExecInv
    <2>2. NumReaders \in Nat /\ ChannelCapacity \in Nat \ {0}
      BY SearchExecutionConstants, SearchStreamConstants
    <2>3. \A r \in Readers : Result(r) \in Events
      BY <2>1, <2>2 DEF Result, Events, ExecTypeOK, SearchResult, Readers
    <2>4. Done \in Events
      BY <2>2 DEF Done, Events, TypeOK
    <2> HIDE DEF Events
    <2>5. ASSUME NEW event \in Events, Send(event)
          PROVE  channel' \in Seq(Events) /\ Len(channel') <= ChannelCapacity
      <3>1. channel \in Seq(Events) /\ Len(channel) <= ChannelCapacity
        BY DEF TypeOK
      <3> QED
        BY <2>2, <2>5, <3>1 DEF Send
    <2>6. CASE Refuse \/ SearchAll \/ SpawnTask
      BY <2>1, <2>6 DEF Refuse, SearchAll, SpawnTask, TypeOK, Stages, request, stream
    <2>7. CASE Respond
      <3>1. response' \in Response
        <4> DEFINE results == {r \in selected : result[r].files # {}}
        <4>1. TotalFiles(results) \in Nat
          <5>1. IsFiniteSet(results) /\ \A r \in results : r \in Readers
            <6>1. IsFiniteSet(Readers)
              BY <2>2, FS_Interval DEF Readers
            <6>2. results \in SUBSET Readers
              BY DEF TypeOK
            <6> QED
              BY <6>1, <6>2, FS_Subset
          <5> DEFINE F == [r \in results |-> {r} \X (1..result[r].total_file_count)]
          <5>2. ASSUME NEW r \in results PROVE IsFiniteSet(F[r])
            <6> DEFINE one == {r}
                       ks  == 1..result[r].total_file_count
            <6>1. result[r].total_file_count \in Int
              BY <2>1, <5>1 DEF ExecTypeOK, SearchResult
            <6>2. IsFiniteSet(ks)
              BY <6>1, FS_Interval
            <6>3. IsFiniteSet(one)
              BY FS_Singleton
            <6>4. F[r] = one \X ks
              OBVIOUS
            <6> HIDE DEF one, ks, F
            <6> QED
              BY <6>2, <6>3, <6>4, FS_Product
          <5>3. TotalFiles(results) = Cardinality(UNION {F[r] : r \in results})
            BY DEF TotalFiles
          <5>4. F = [r \in results |-> F[r]]
            OBVIOUS
          <5> HIDE DEF F, results
          <5> QED
            BY <5>1, <5>2, <5>3, <5>4, FiniteUnion, FS_CardinalityType
        <4>2. UNION {result[r].files : r \in results} \subseteq Docs
          BY <2>1 DEF ExecTypeOK, SearchResult, TypeOK
        <4>3. response' = [files |-> UNION {result[r].files : r \in results},
                           total_files |-> TotalFiles(results),
                           truncated |-> \E r \in results :
                               result[r].total_file_count > Cardinality(result[r].files)]
          BY <2>7 DEF Respond
        <4> HIDE DEF results
        <4> QED
          BY <4>1, <4>2, <4>3 DEF Response
      <3> QED
        BY <2>1, <2>7, <3>1 DEF Respond, TypeOK, Stages, request, stream
    <2>8. CASE Spawn
      BY <2>1, <2>2, <2>8 DEF Spawn, TypeOK, TaskStates, Readers, request
    <2>9. CASE StartJoining
      BY <2>1, <2>2, <2>9 DEF StartJoining, TypeOK, Stages, request
    <2>10. CASE Join
      <3>1. result[next].total_file_count \in Nat
        BY <2>1, <2>10 DEF Join, ExecTypeOK, SearchResult
      <3> QED
        BY <2>1, <2>2, <2>10, <3>1 DEF Join, TypeOK, Readers, request
    <2>11. CASE SendDone
      BY <2>1, <2>4, <2>5, <2>11 DEF SendDone, TypeOK, Stages, request, stream
    <2>12. CASE ExecuteStep
      BY <2>1, <2>12 DEF ExecuteStep, TypeOK, request, stream
    <2>13. ASSUME NEW r \in Readers, TaskResult(r) PROVE TypeOK'
      BY <2>1, <2>13 DEF TaskResult, TypeOK, TaskStates, request
    <2>14. ASSUME NEW r \in Readers, SendResult(r) PROVE TypeOK'
      BY <2>1, <2>3, <2>5, <2>14 DEF SendResult, TypeOK, TaskStates, request
    <2>15. CASE Receive
      <3>1. channel \in Seq(Events) /\ received \in Seq(Events) /\ channel # <<>>
        BY <2>15 DEF Receive, TypeOK
      <3>2. /\ Head(channel) \in Events
            /\ Tail(channel) \in Seq(Events) /\ Len(Tail(channel)) <= Len(channel)
        BY <3>1
      <3>3. channel' \in Seq(Events) /\ received' \in Seq(Events) /\ Len(channel') <= ChannelCapacity
        BY <2>2, <2>15, <3>1, <3>2 DEF Receive, TypeOK
      <3> QED
        BY <2>1, <2>15, <3>3 DEF Receive, TypeOK, request, stream
    <2>16. CASE EndOfStream \/ Disconnect
      <3>1. <<>> \in Seq(Events) /\ Len(<<>>) <= ChannelCapacity
        BY <2>2
      <3>2. channel' \in Seq(Events) /\ Len(channel') <= ChannelCapacity
        BY <2>16, <3>1 DEF EndOfStream, Disconnect, TypeOK
      <3> QED
        BY <2>1, <2>16, <3>2 DEF EndOfStream, Disconnect, TypeOK, request, stream
    <2>17. CASE UNCHANGED vars
      BY <2>1, <2>17 DEF vars, TypeOK, request, stream
    <2>18. ASSUME NEW r \in Readers, TaskPanics(r) PROVE TypeOK'
      BY <2>1, <2>18 DEF TaskPanics, TypeOK, TaskStates, request
    <2> QED
      BY <2>6, <2>7, <2>8, <2>9, <2>10, <2>11, <2>12, <2>13, <2>14, <2>15, <2>16, <2>17, <2>18
         DEF Next, Handler, Reading
  <1> QED
    BY <1>1, <1>2, AnswersExact, PTL DEF Spec

-----------------------------------------------------------------------------
\* The matching files of some readers.
Matched(readers) == UNION {Matching(r) : r \in readers}

\* The matching files are finitely many, each of one reader.
LEMMA MatchedFinite ==
  ASSUME ExecTypeOK, NEW readers \in SUBSET Readers
  PROVE  /\ Matched(readers) \in SUBSET Docs
         /\ IsFiniteSet(Matched(readers)) /\ Cardinality(Matched(readers)) \in Nat
         /\ \A r \in readers : /\ Matching(r) \subseteq Matched(readers)
                               /\ IsFiniteSet(Matching(r)) /\ Cardinality(Matching(r)) \in Nat
                               /\ \A d \in Matching(r) : ReaderOf[d] = r
  <1>1. /\ Matched(readers) \in SUBSET Docs /\ IsFiniteSet(Docs)
        /\ \A r \in readers : /\ Matching(r) \in SUBSET Docs
                              /\ Matching(r) \subseteq Matched(readers)
                              /\ \A d \in Matching(r) : ReaderOf[d] = r
    <2>1. \A r : Matching(r) \subseteq Docs /\ \A d \in Matching(r) : ReaderOf[d] = r
      BY DEF Matching, CandidatesOf, ExecTypeOK
    <2> QED
      BY <2>1, SearchExecutionConstants DEF Matched
  <1>2. \A S \in SUBSET Docs : IsFiniteSet(S) /\ Cardinality(S) \in Nat
    BY <1>1, FS_Subset, FS_CardinalityType
  <1> QED
    BY <1>1, <1>2

\* The counts of readers that have returned add up to the files there are.
LEMMA TotalsAddUp ==
  ASSUME ExecInv, NEW readers \in SUBSET Readers, \A r \in readers : phase[r] = "returned"
  PROVE  TotalFiles(readers) = Cardinality(Matched(readers))
  <1> USE DEF ExecInv
  <1> DEFINE count(r) == result[r].total_file_count
             Counts   == UNION {{r} \X (1..count(r)) : r \in readers}
             number   == [r \in readers |-> CHOOSE f : f \in Bijection(1..count(r), Matching(r))]
             place    == [c \in Counts |-> number[c[1]][c[2]]]
  <1>1. ASSUME NEW r \in readers
        PROVE  number[r] \in Bijection(1..count(r), Matching(r))
    <2>1. count(r) = Cardinality(Matching(r))
      BY DEF FilesExact
    <2>2. ExistsBijection(1..count(r), Matching(r))
      BY <2>1, MatchedFinite, FS_CardinalityType
    <2> QED
      BY <2>2 DEF ExistsBijection
  <1>2. \A c \in Counts : c[1] \in readers /\ c[2] \in 1..count(c[1]) /\ c = <<c[1], c[2]>>
    OBVIOUS
  <1>3. \A r \in readers : \A i \in 1..count(r) : <<r, i>> \in Counts
    OBVIOUS
  <1>4. \A r \in readers : \A d \in Matching(r) : ReaderOf[d] = r /\ d \in Matched(readers)
    BY MatchedFinite
  <1>5. \A d \in Matched(readers) : \E r \in readers : d \in Matching(r)
    BY DEF Matched
  <1> HIDE DEF number, Counts
  <1>6. /\ \A r \in readers : \A i \in 1..count(r) : number[r][i] \in Matching(r)
        /\ \A r \in readers : \A i, j \in 1..count(r) : number[r][i] = number[r][j] => i = j
        /\ \A r \in readers : \A d \in Matching(r) : \E i \in 1..count(r) : number[r][i] = d
    BY <1>1 DEF Bijection, Injection, Surjection, IsInjective
  <1> HIDE DEF count
  <1>7. place \in [Counts -> Matched(readers)]
    BY <1>2, <1>4, <1>6
  <1>8. \A b, c \in Counts : place[b] = place[c] => b = c
    <2> SUFFICES ASSUME NEW b \in Counts, NEW c \in Counts, place[b] = place[c] PROVE b = c
      OBVIOUS
    <2>1. number[b[1]][b[2]] = number[c[1]][c[2]]
      OBVIOUS
    <2>2. b[1] = c[1]
      BY <1>2, <1>4, <1>6, <2>1
    <2> QED
      BY <1>2, <1>6, <2>1, <2>2
  <1>9. \A d \in Matched(readers) : \E c \in Counts : place[c] = d
    <2> SUFFICES ASSUME NEW d \in Matched(readers) PROVE \E c \in Counts : place[c] = d
      OBVIOUS
    <2>1. PICK r \in readers : d \in Matching(r)
      BY <1>5
    <2>2. PICK i \in 1..count(r) : number[r][i] = d
      BY <1>6, <2>1
    <2>3. <<r, i>> \in Counts /\ place[<<r, i>>] = d
      BY <1>3, <2>2
    <2> QED
      BY <2>3
  <1> HIDE DEF place
  <1>10. place \in Bijection(Counts, Matched(readers))
    BY <1>7, <1>8, <1>9 DEF Bijection, Injection, Surjection, IsInjective
  <1>11. IsFiniteSet(Matched(readers)) /\ place \in Injection(Counts, Matched(readers))
         /\ place \in Surjection(Counts, Matched(readers))
    BY <1>10, MatchedFinite DEF Bijection
  <1>12. Cardinality(Counts) = Cardinality(Matched(readers))
    BY <1>11, FS_Injection
  <1> QED
    BY <1>12 DEF TotalFiles, Counts, count

\* The JSON answer: every matching file is returned or it says it is truncated,
\* and its total is that of the files there are.
THEOREM TruncationIsReported == Spec => []TruncationIsHonest
  <1>1. Init => TruncationIsHonest
    BY DEF Init, Idle, TruncationIsHonest
  <1>2. ExecInv /\ selected \in SUBSET Readers /\ TruncationIsHonest /\ [Next]_vars => TruncationIsHonest'
    <2> SUFFICES ASSUME ExecInv, selected \in SUBSET Readers, TruncationIsHonest, [Next]_vars
                 PROVE  TruncationIsHonest'
      OBVIOUS
    <2>1. CASE Respond
      <3> DEFINE results == {r \in selected : result[r].files # {}}
                 found   == Matched(selected)
                 shown   == UNION {result[r].files : r \in results}
      <3> SUFFICES ASSUME limit > 0
                   PROVE  /\ response'.truncated <=> response'.files # found
                          /\ response'.total_files = Cardinality(found)
        BY <2>1 DEF Respond, TruncationIsHonest, execVars, inputs, request, Matched, Matching, CandidatesOf
      <3>1. ASSUME NEW r \in selected
            PROVE  /\ phase[r] = "returned"
                   /\ IsFiniteSet(Matching(r)) /\ Cardinality(Matching(r)) \in Nat
                   /\ result[r].files \in SUBSET Matching(r)
                   /\ Cardinality(result[r].files) =
                        (IF Cardinality(Matching(r)) > limit THEN limit ELSE Cardinality(Matching(r)))
                   /\ result[r].total_file_count = Cardinality(Matching(r))
                   /\ \A d \in Matching(r) : ReaderOf[d] = r
        BY <2>1, MatchedFinite DEF Respond, ExecInv, FilesExact
      <3>2. \A r \in selected : result[r].files = {} <=> Matching(r) = {}
        <4> SUFFICES ASSUME NEW r \in selected, result[r].files = {} PROVE Matching(r) = {}
          BY <3>1
        <4>1. Cardinality(result[r].files) = 0
          BY FS_EmptySet
        <4>2. Cardinality(Matching(r)) = 0
          <5>1. limit \in Nat
            BY DEF ExecInv, ExecTypeOK
          <5>2. Cardinality(Matching(r)) \in Nat /\ Cardinality(result[r].files) =
                  (IF Cardinality(Matching(r)) > limit THEN limit ELSE Cardinality(Matching(r)))
            BY <3>1
          <5> QED
            BY <4>1, <5>1, <5>2
        <4> QED
          BY <3>1, <4>2, FS_EmptySet
      <3>3. /\ response'.files = shown
            /\ response'.total_files = TotalFiles(results)
            /\ response'.truncated <=>
                 \E r \in results : result[r].total_file_count > Cardinality(result[r].files)
        BY <2>1 DEF Respond
      <3>4. Matched(results) = found
        BY <3>2 DEF Matched
      <3>5. TotalFiles(results) = Cardinality(found)
        BY <3>1, <3>4, TotalsAddUp
      <3>6. \A r \in selected :
              result[r].total_file_count > Cardinality(result[r].files) <=> result[r].files # Matching(r)
        <4> SUFFICES ASSUME NEW r \in selected
                     PROVE  Cardinality(Matching(r)) > Cardinality(result[r].files) <=>
                                result[r].files # Matching(r)
          BY <3>1
        <4>1. /\ Cardinality(result[r].files) <= Cardinality(Matching(r))
              /\ Cardinality(result[r].files) = Cardinality(Matching(r)) => result[r].files = Matching(r)
              /\ Cardinality(result[r].files) \in Nat
          BY <3>1, FS_Subset, FS_CardinalityType
        <4> QED
          BY <3>1, <4>1
      <3>7. shown # found <=> \E r \in results : result[r].files # Matching(r)
        <4>1. shown = UNION {result[r].files : r \in selected}
          OBVIOUS
        <4>2. \A r \in selected \ results : result[r].files = Matching(r)
          BY <3>2
        <4>3. \A r \in selected : result[r].files = {d \in shown : ReaderOf[d] = r}
          BY <3>1, <4>1
        <4>4. \A r \in selected : Matching(r) = {d \in found : ReaderOf[d] = r}
          BY <3>1 DEF Matched
        <4> HIDE DEF shown, found
        <4>5. shown = found => \A r \in results : result[r].files = Matching(r)
          BY <4>3, <4>4
        <4>6. (\A r \in selected : result[r].files = Matching(r)) => shown = found
          BY <4>1 DEF found, Matched
        <4> QED
          BY <4>2, <4>5, <4>6
      <3> QED
        BY <3>3, <3>5, <3>6, <3>7
    <2>2. ASSUME UNCHANGED <<inputs, request, response>>, stage' = stage
          PROVE  TruncationIsHonest'
      BY <2>2 DEF TruncationIsHonest, inputs, request, Matching, CandidatesOf
    <2>3. CASE Refuse \/ SearchAll \/ SpawnTask \/ StartJoining \/ SendDone
      BY <2>3 DEF Refuse, SearchAll, SpawnTask, StartJoining, SendDone, TruncationIsHonest
    <2>4. CASE Spawn \/ Join \/ Reading
      BY <2>2, <2>4 DEF Spawn, Join, Reading, Receive, EndOfStream, Disconnect, execVars
    <2>5. CASE ExecuteStep
      BY <2>2, <2>5 DEF ExecuteStep, ExecNext, VerifyStep, Verify, CountFound, CountOverflowFile,
                        CountOverflowMatches, Collect
    <2>6. ASSUME NEW r \in Readers, TaskResult(r) \/ TaskPanics(r) \/ SendResult(r)
          PROVE  TruncationIsHonest'
      BY <2>2, <2>6 DEF TaskResult, TaskPanics, SendResult, execVars
    <2>7. CASE UNCHANGED vars
      BY <2>2, <2>7 DEF vars, execVars
    <2> QED
      BY <2>1, <2>3, <2>4, <2>5, <2>6, <2>7 DEF Next, Handler
  <1>3. TypeOK => selected \in SUBSET Readers
    BY DEF TypeOK
  <1> QED
    BY <1>1, <1>2, <1>3, TypeCorrect, AnswersExact, PTL DEF Spec

-----------------------------------------------------------------------------
\* The event of a reader whose task has sent its result.
Announced(r) == [event |-> "result", reader |-> r, files |-> Cardinality(Matching(r))]

Before(n) == {r \in Answering : r < n}

\* The tasks that have sent a result.
Senders == {r \in Answering : task[r] = "finished" /\ Matching(r) # {}}

\* Before the stream and without it there are no tasks and no events.
NotBegun == stage \in {"received", "refused", "searching", "responded"} =>
    /\ \A r \in Readers : task[r] = "none"
    /\ next = 1 /\ total = 0
    /\ channel = <<>> /\ received = <<>>

\* A task belongs to a selected reader and goes on only when its search has
\* returned, or ends with it; all are started before the first is joined.
TasksRight == \A r \in Readers :
    /\ phase[r] # "returned" => result[r] = NoResult
    /\ task[r] # "none" => r \in selected
    /\ task[r] = "sending" => phase[r] = "returned"
    /\ task[r] = "finished" => phase[r] \in {"returned", "panicked"}
    /\ phase[r] = "panicked" => task[r] = "finished"
    /\ task[r] = "sending" => Matching(r) # {}
    /\ stage = "received" => phase[r] = "idle"
    /\ stage \in {"spawning", "joining", "finished"} /\ task[r] = "none" => phase[r] = "idle"
    /\ stage = "spawning" => (task[r] # "none" <=> r \in selected /\ r < next)
    /\ stage \in {"joining", "finished"} /\ r \in selected => task[r] # "none"
    /\ stage \in {"joining", "finished"} /\ r < next => task[r] \in {"none", "finished"}

\* The total is that of the readers joined so far.
TotalRight ==
    /\ stage = "spawning" => total = 0
    /\ stage \in {"joining", "finished"} => total = Cardinality(Matched(Before(next)))
    /\ stage = "finished" => next \notin Readers

\* While the client is there, the events sent are one for each task that has
\* sent its result and, once the loop is over, the final one, in the last place.
EventsRight == client # "gone" =>
    /\ Len(Sent) = Cardinality(Senders) + (IF stage = "finished" THEN 1 ELSE 0)
    /\ \A i \in DOMAIN Sent : Sent[i].event = "done" =>
           stage = "finished" /\ i = Len(Sent) /\ Sent[i].files = total
    /\ \A i \in DOMAIN Sent : Sent[i].event = "result" =>
           \E r \in Senders : Sent[i] = Announced(r)
    /\ \A r \in Senders : \E j \in DOMAIN Sent :
           \A k \in DOMAIN Sent : Sent[k] = Announced(r) <=> k = j

StreamInv == NotBegun /\ TasksRight /\ TotalRight /\ EventsRight

\* No step changes what is asked or what there is to find.
LEMMA SameRequest ==
  ASSUME [Next]_vars
  PROVE  /\ UNCHANGED <<limit, candidates, ranges, handler, selected>>
         /\ \A r : Matching(r)' = Matching(r)
         /\ \A r : Announced(r)' = Announced(r)
         /\ \A readers : Matched(readers)' = Matched(readers)
  <1>1. UNCHANGED <<limit, candidates, ranges, handler, selected>>
    BY DEF Next, Handler, Reading, vars, request, Refuse, SearchAll, Respond, SpawnTask, Spawn,
           StartJoining, Join, SendDone, ExecuteStep, TaskResult, TaskPanics, SendResult,
           Receive, EndOfStream, Disconnect, execVars, inputs, ExecNext, VerifyStep, Verify, CountFound,
           CountOverflowFile, CountOverflowMatches, Collect
  <1>2. \A r : Matching(r)' = Matching(r)
    BY <1>1 DEF Matching, CandidatesOf
  <1> QED
    BY <1>1, <1>2 DEF Announced, Matched

\* Only a panic takes a reader from those that answer.
LEMMA AnsweringStays ==
  ASSUME TypeOK, ExecInv, TasksRight, [Next]_vars, \A r \in Readers : ~TaskPanics(r)
  PROVE  Answering' = Answering
  <1>1. selected' = selected /\ selected \in SUBSET Readers
    BY SameRequest DEF TypeOK
  <1>2. phase \in [Readers -> {"idle", "running", "returned", "panicked"}]
    BY DEF ExecInv, ExecTypeOK
  <1> SUFFICES ASSUME NEW r \in Readers PROVE phase'[r] = "panicked" <=> phase[r] = "panicked"
    BY <1>1 DEF Answering
  <1>3. UNCHANGED phase => (phase'[r] = "panicked" <=> phase[r] = "panicked")
    OBVIOUS
  <1>4. CASE SearchAll
    <2>1. phase[r] = "idle" /\ phase'[r] \in {"idle", "running"}
      BY <1>4 DEF SearchAll, TasksRight
    <2> QED BY <2>1
  <1>5. CASE Spawn
    <2>1. CASE UNCHANGED phase
      BY <1>3, <2>1
    <2>2. CASE ~UNCHANGED phase
      <3>1. phase[next] = "idle" /\ phase' = [phase EXCEPT ![next] = "running"]
        BY <1>5, <2>2 DEF Spawn, Execute
      <3> QED BY <1>2, <3>1
    <2> QED BY <2>1, <2>2
  <1>6. CASE ExecuteStep
    <2>1. ASSUME NEW d \in Docs, VerifyStep(d) PROVE UNCHANGED phase
      BY <2>1 DEF VerifyStep, Verify, CountFound, CountOverflowFile, CountOverflowMatches
    <2>2. ASSUME NEW q \in Readers, Collect(q)
          PROVE  phase[q] = "running" /\ phase' = [phase EXCEPT ![q] = "returned"]
      BY <2>2 DEF Collect
    <2> QED BY <1>2, <1>3, <1>6, <2>1, <2>2 DEF ExecuteStep, ExecNext
  <1>7. CASE Refuse \/ Respond \/ SpawnTask \/ StartJoining \/ Join \/ SendDone \/ Reading \/ UNCHANGED vars
    <2>1. UNCHANGED phase
      BY <1>7 DEF Refuse, Respond, SpawnTask, StartJoining, Join, SendDone, Reading, Receive,
                  EndOfStream, Disconnect, vars, execVars
    <2> QED BY <1>3, <2>1
  <1>8. ASSUME NEW q \in Readers, TaskResult(q) \/ SendResult(q)
        PROVE  phase'[r] = "panicked" <=> phase[r] = "panicked"
    <2>1. UNCHANGED phase
      BY <1>8 DEF TaskResult, SendResult, execVars
    <2> QED BY <1>3, <2>1
  <1> QED BY <1>4, <1>5, <1>6, <1>7, <1>8 DEF Next, Handler

\* A task that panics has not been joined and has sent nothing.
LEMMA PanicKeeps ==
  ASSUME TypeOK, ExecInv, TasksRight, NEW r \in Readers, TaskPanics(r)
  PROVE  /\ stage \in {"joining", "finished"} => Before(next)' = Before(next)
         /\ \A q : Matching(q)' = Matching(q)
         /\ Senders' = Senders
  <1>1. /\ phase \in [Readers -> {"idle", "running", "returned", "panicked"}]
        /\ task \in [Readers -> TaskStates] /\ selected \in SUBSET Readers
    BY DEF ExecInv, ExecTypeOK, TypeOK
  <1>2. /\ task[r] = "executing" /\ phase[r] = "running"
        /\ phase' = [phase EXCEPT ![r] = "panicked"] /\ task' = [task EXCEPT ![r] = "finished"]
        /\ UNCHANGED <<next, selected, candidates, ranges, stage>>
    BY DEF TaskPanics, inputs, request
  <1>3. Answering' = Answering \ {r}
    BY <1>1, <1>2 DEF Answering
  <1>4. \A q : Matching(q)' = Matching(q)
    BY <1>2 DEF Matching, CandidatesOf
  <1>5. stage \in {"joining", "finished"} => ~(r < next)
    BY <1>2 DEF TasksRight
  <1>6. Senders' = Senders
    <2>1. \A q \in Readers \ {r} : task'[q] = task[q]
      BY <1>1, <1>2
    <2>2. Answering \in SUBSET Readers
      BY <1>1 DEF Answering
    <2> QED BY <1>2, <1>3, <1>4, <2>1, <2>2 DEF Senders
  <1>7. stage \in {"joining", "finished"} => Before(next)' = Before(next)
    BY <1>2, <1>3, <1>5 DEF Before
  <1> QED BY <1>4, <1>6, <1>7

\* The tasks and the loop of the stream keep to their order.
LEMMA LoopStep ==
  ASSUME TypeOK, ExecInv, NotBegun, TasksRight, TotalRight, [Next]_vars,
         \A r \in Readers : ~TaskPanics(r)
  PROVE  NotBegun' /\ TasksRight' /\ TotalRight'
  <1>1. /\ ExecTypeOK /\ FilesExact
        /\ NumReaders \in Nat /\ Readers = 1..NumReaders
        /\ selected \subseteq Readers /\ next \in 1..(NumReaders + 1)
        /\ task \in [Readers -> TaskStates]
        /\ phase \in [Readers -> {"idle", "running", "returned", "panicked"}]
        /\ result \in [Readers -> SearchResult]
    BY SearchExecutionConstants DEF ExecInv, TypeOK, ExecTypeOK, Readers
  <1>2. /\ selected' = selected
        /\ \A r : Matching(r)' = Matching(r)
    BY SameRequest
  <1>3. ASSUME NEW n, next' = n PROVE Matched(Before(next))' = Matched(Before(n))
    <2>1. Answering' = Answering
      BY AnsweringStays
    <2> QED BY <1>2, <1>3, <2>1 DEF Matched, Before
  <1>4. \A r \in selected : phase[r] = "returned" =>
            /\ result[r].total_file_count = Cardinality(Matching(r))
            /\ result[r].total_file_count = 0 <=> Matching(r) = {}
    <2> SUFFICES ASSUME NEW r \in selected, phase[r] = "returned"
                 PROVE  /\ result[r].total_file_count = Cardinality(Matching(r))
                        /\ result[r].total_file_count = 0 <=> Matching(r) = {}
      OBVIOUS
    <2>1. IsFiniteSet(Matching(r))
      BY <1>1, MatchedFinite
    <2> QED
      BY <1>1, <2>1, FS_EmptySet DEF FilesExact
  <1>5. CASE Refuse \/ Respond \/ EndOfStream \/ Disconnect \/ Receive \/ UNCHANGED vars
    <2>1. /\ UNCHANGED <<next, total, task, phase, result>>
          /\ \/ stage' = stage
             \/ stage = "received" /\ stage' = "refused"
             \/ stage = "searching" /\ stage' = "responded"
      BY <1>5 DEF Refuse, Respond, EndOfStream, Disconnect, Receive, vars, execVars, stream
    <2>2. NotBegun'
      BY <1>5, <2>1 DEF NotBegun, Refuse, Respond, EndOfStream, Disconnect, Receive, vars
    <2>3. TasksRight'
      BY <1>2, <2>1 DEF TasksRight
    <2>4. TotalRight'
      BY <1>3, <2>1 DEF TotalRight
    <2> QED
      BY <2>2, <2>3, <2>4
  <1>6. CASE SearchAll
    <2>1. /\ stage = "received" /\ stage' = "searching"
          /\ UNCHANGED <<next, total, task, result, channel, received>>
          /\ \A r \in Readers : phase'[r] \in {"running", phase[r]}
      BY <1>6 DEF SearchAll, stream
    <2> QED
      BY <1>2, <2>1 DEF NotBegun, TasksRight, TotalRight
  <1>7. CASE SpawnTask
    <2>1. /\ stage = "received" /\ stage' = "spawning"
          /\ UNCHANGED <<next, total, task, phase, result>>
      BY <1>7 DEF SpawnTask, execVars, stream
    <2>2. \A r \in Readers : ~(r < 1)
      BY <1>1
    <2> QED
      BY <1>2, <2>1, <2>2 DEF NotBegun, TasksRight, TotalRight
  <1>8. CASE ExecuteStep
    <2>1. UNCHANGED <<stage, next, total, task, channel, received>>
      BY <1>8 DEF ExecuteStep, stream
    <2>2. \/ UNCHANGED <<phase, result>>
          \/ \E r \in Readers :
               /\ phase[r] = "running" /\ phase' = [phase EXCEPT ![r] = "returned"]
               /\ \A s \in Readers \ {r} : result'[s] = result[s]
      <3>1. ASSUME NEW d \in Docs, VerifyStep(d) PROVE UNCHANGED <<phase, result>>
        BY <3>1 DEF VerifyStep, Verify, CountFound, CountOverflowFile, CountOverflowMatches
      <3>2. ASSUME NEW r \in Readers, Collect(r)
            PROVE  /\ phase[r] = "running" /\ phase' = [phase EXCEPT ![r] = "returned"]
                   /\ \A s \in Readers \ {r} : result'[s] = result[s]
        BY <1>1, <3>2 DEF Collect
      <3> QED
        BY <1>8, <3>1, <3>2 DEF ExecuteStep, ExecNext
    <2>3. ASSUME NEW r \in Readers
          PROVE  \/ phase'[r] = phase[r] /\ result'[r] = result[r]
                 \/ phase[r] = "running" /\ phase'[r] = "returned"
      BY <1>1, <2>2
    <2>4. TasksRight'
      BY <1>2, <2>1, <2>3 DEF TasksRight
    <2> QED
      BY <1>3, <2>1, <2>4 DEF NotBegun, TotalRight
  <1>9. CASE Spawn
    <2>1. /\ stage = "spawning" /\ stage' = stage /\ total' = total /\ result' = result
          /\ next \in Readers /\ next' = next + 1
      BY <1>9 DEF Spawn
    <2>2. CASE next \in selected
      <3>1. /\ phase' = [phase EXCEPT ![next] = "running"]
            /\ task' = [task EXCEPT ![next] = "executing"]
        BY <1>9, <2>2 DEF Spawn, Execute
      <3>2. TasksRight'
        BY <1>1, <1>2, <2>1, <2>2, <3>1 DEF TasksRight
      <3> QED
        BY <2>1, <3>2 DEF NotBegun, TotalRight
    <2>3. CASE next \notin selected
      <3>1. UNCHANGED <<phase, task>>
        BY <1>9, <2>3 DEF Spawn
      <3>2. TasksRight'
        BY <1>1, <1>2, <2>1, <2>3, <3>1 DEF TasksRight
      <3> QED
        BY <2>1, <3>2 DEF NotBegun, TotalRight
    <2> QED
      BY <2>2, <2>3
  <1>10. CASE StartJoining
    <2>1. /\ stage = "spawning" /\ stage' = "joining"
          /\ next \notin Readers /\ next' = 1
          /\ UNCHANGED <<total, task, phase, result>>
      BY <1>10 DEF StartJoining, execVars
    <2>2. \A r \in Readers : r < next /\ ~(r < 1)
      BY <1>1, <2>1
    <2>3. TasksRight'
      BY <1>2, <2>1, <2>2 DEF TasksRight
    <2>4. TotalRight'
      <3>1. Matched(Before(1)) = {}
        <4>1. Before(1) = {}
          BY <1>1, <2>2 DEF Before, Answering
        <4> QED
          BY <4>1 DEF Matched
      <3> QED
        BY <1>3, <2>1, <3>1, FS_EmptySet DEF TotalRight
    <2> QED
      BY <2>1, <2>3, <2>4 DEF NotBegun
  <1>11. ASSUME NEW r \in Readers, TaskResult(r)
         PROVE  NotBegun' /\ TasksRight' /\ TotalRight'
    <2>1. /\ task[r] = "executing" /\ phase[r] = "returned" /\ r \in selected
          /\ task' = [task EXCEPT ![r] =
                         IF result[r].total_file_count = 0 THEN "finished" ELSE "sending"]
          /\ UNCHANGED <<stage, next, total, phase, result>>
      BY <1>11 DEF TaskResult, TasksRight, execVars
    <2>2. /\ \A s \in Readers \ {r} : task'[s] = task[s]
          /\ task'[r] = "finished" \/ (task'[r] = "sending" /\ Matching(r) # {})
      BY <1>1, <1>4, <2>1
    <2>3. TasksRight'
      BY <1>2, <2>1, <2>2 DEF TasksRight
    <2>4. TotalRight'
      BY <1>3, <2>1 DEF TotalRight
    <2> QED
      BY <2>1, <2>3, <2>4 DEF NotBegun
  <1>12. ASSUME NEW r \in Readers, SendResult(r)
         PROVE  NotBegun' /\ TasksRight' /\ TotalRight'
    <2>1. /\ task[r] = "sending"
          /\ task' = [task EXCEPT ![r] = "finished"]
          /\ UNCHANGED <<stage, next, total, phase, result>>
      BY <1>12 DEF SendResult, execVars
    <2>2. task'[r] = "finished" /\ \A s \in Readers \ {r} : task'[s] = task[s]
      BY <1>1, <2>1
    <2>3. TasksRight'
      BY <1>2, <2>1, <2>2 DEF TasksRight
    <2>4. TotalRight'
      BY <1>3, <2>1 DEF TotalRight
    <2> QED
      BY <2>1, <2>3, <2>4 DEF NotBegun
  <1>13. CASE Join
    <2>1. /\ stage = "joining" /\ stage' = stage
          /\ next \in Readers /\ next' = next + 1
          /\ task[next] \in {"none", "finished"}
          /\ total' = total + result[next].total_file_count
          /\ UNCHANGED <<task, phase, result>>
      BY <1>13 DEF Join, execVars
    <2>2. TasksRight'
      <3>1. \A r \in Readers : r < next + 1 => r < next \/ r = next
        BY <1>1, <2>1
      <3> QED
        BY <1>2, <2>1, <3>1 DEF TasksRight
    <2>3. total' = Cardinality(Matched(Before(next + 1)))
      <3>1. total = Cardinality(Matched(Before(next)))
        BY <2>1 DEF TotalRight
      <3>2. /\ ~(next < next) /\ next < next + 1
            /\ \A r \in selected : r < next + 1 <=> r < next \/ r = next
            /\ Answering \in SUBSET selected
        BY <1>1, <2>1 DEF Answering
      <3>3. CASE task[next] = "none" \/ phase[next] = "panicked"
        <4>1. next \notin Answering /\ result[next].total_file_count = 0
          BY <2>1, <3>3 DEF TasksRight, NoResult, Answering
        <4>2. Before(next + 1) = Before(next)
          BY <3>2, <4>1 DEF Before
        <4>3. Cardinality(Matched(Before(next))) \in Nat
          BY <1>1, <3>2, MatchedFinite DEF Before
        <4> QED
          BY <2>1, <3>1, <4>1, <4>2, <4>3
      <3>4. CASE task[next] = "finished" /\ phase[next] # "panicked"
        <4>1. next \in Answering /\ next \in selected /\ phase[next] = "returned"
          BY <2>1, <3>4 DEF TasksRight, Answering
        <4>2. result[next].total_file_count = Cardinality(Matching(next))
          BY <1>4, <4>1
        <4>3. Matched(Before(next + 1)) = Matched(Before(next)) \cup Matching(next)
          <5>1. Before(next + 1) = Before(next) \cup {next}
            BY <3>2, <4>1 DEF Before
          <5> QED
            BY <5>1 DEF Matched
        <4>4. Before(next) \in SUBSET Readers /\ next \notin Before(next) /\ {next} \in SUBSET Readers
          BY <1>1, <2>1, <3>2 DEF Before
        <4>5. /\ IsFiniteSet(Matched(Before(next))) /\ Cardinality(Matched(Before(next))) \in Nat
              /\ IsFiniteSet(Matching(next)) /\ Cardinality(Matching(next)) \in Nat
          BY <1>1, <4>4, MatchedFinite
        <4>6. Matched(Before(next)) \cap Matching(next) = {}
          <5>1. \A d \in Matched(Before(next)) : ReaderOf[d] \in Before(next)
            <6>1. \A r \in Before(next) : \A d \in Matching(r) : ReaderOf[d] = r
              BY <1>1, <4>4, MatchedFinite
            <6> QED
              BY <6>1 DEF Matched
          <5>2. \A d \in Matching(next) : ReaderOf[d] = next
            BY <1>1, <4>4, MatchedFinite
          <5> QED
            BY <4>4, <5>1, <5>2
        <4>7. Cardinality(Matched(Before(next + 1))) =
                Cardinality(Matched(Before(next))) + Cardinality(Matching(next))
          <5> DEFINE M == Matched(Before(next))
          <5>1. Cardinality(M \cap Matching(next)) = 0
            BY <4>6, FS_EmptySet
          <5>2. Cardinality(M \cup Matching(next)) =
                  Cardinality(M) + Cardinality(Matching(next)) - Cardinality(M \cap Matching(next))
            BY <4>5, FS_Union
          <5>3. Cardinality(Matched(Before(next + 1))) = Cardinality(M \cup Matching(next))
            BY <4>3
          <5>4. Cardinality(M) \in Nat /\ Cardinality(Matching(next)) \in Nat
            BY <4>5
          <5> QED
            BY <5>1, <5>2, <5>3, <5>4
        <4> QED
          BY <2>1, <3>1, <4>2, <4>7
      <3> QED
        BY <2>1, <3>3, <3>4
    <2> QED
      BY <1>3, <2>1, <2>2, <2>3 DEF NotBegun, TotalRight
  <1>14. CASE SendDone
    <2>1. /\ stage = "joining" /\ stage' = "finished" /\ next \notin Readers
          /\ UNCHANGED <<next, total, task, phase, result>>
      BY <1>14 DEF SendDone, execVars, stream
    <2>2. TasksRight'
      BY <1>2, <2>1 DEF TasksRight
    <2>3. TotalRight'
      BY <1>3, <2>1 DEF TotalRight
    <2> QED
      BY <2>1, <2>2, <2>3 DEF NotBegun
  <1> QED
    BY <1>5, <1>6, <1>7, <1>8, <1>9, <1>10, <1>11, <1>12, <1>13, <1>14 DEF Next, Handler, Reading

\* What is sent is one event for each task that has sent, and the final one.
LEMMA EventsStep ==
  ASSUME TypeOK, ExecInv, NotBegun, TasksRight, TotalRight, EventsRight, [Next]_vars,
         \A r \in Readers : ~TaskPanics(r)
  PROVE  EventsRight'
  <1>1. /\ ExecTypeOK /\ FilesExact /\ NumReaders \in Nat /\ selected \in SUBSET Readers
        /\ task \in [Readers -> TaskStates]
        /\ channel \in Seq(Events) /\ received \in Seq(Events)
    BY SearchExecutionConstants DEF ExecInv, TypeOK
  <1>2. /\ selected' = selected
        /\ \A r : Matching(r)' = Matching(r)
        /\ \A r : Announced(r)' = Announced(r)
        /\ Answering' = Answering /\ Answering \in SUBSET Readers
    BY <1>1, SameRequest, AnsweringStays DEF Answering
  <1>3. Sent \in Seq(Events) /\ Len(Sent) \in Nat /\ DOMAIN Sent = 1..Len(Sent)
    BY <1>1 DEF Sent
  <1>4. IsFiniteSet(Senders) /\ Cardinality(Senders) \in Nat
    <2>1. IsFiniteSet(Readers) /\ Senders \in SUBSET Readers
      <3>1. 1 \in Int /\ NumReaders \in Int
        BY <1>1
      <3> QED
        BY <1>2, <3>1, FS_Interval DEF Readers, Senders
    <2> QED
      BY <2>1, FS_Subset, FS_CardinalityType
  <1>5. ASSUME client' # "gone" => client # "gone" /\ Sent' = Sent,
               Senders' = Senders, stage' = "finished" <=> stage = "finished",
               stage = "finished" => total' = total
        PROVE  EventsRight'
    BY <1>2, <1>5 DEF EventsRight
  <1>6. UNCHANGED task => Senders' = Senders
    BY <1>2 DEF Senders
  <1>7. CASE Refuse \/ SearchAll \/ SpawnTask \/ Respond \/ StartJoining \/ Join
             \/ ExecuteStep \/ EndOfStream \/ Disconnect \/ UNCHANGED vars
    <2>1. UNCHANGED task
      BY <1>7 DEF Refuse, SearchAll, SpawnTask, Respond, StartJoining, Join, ExecuteStep,
                  EndOfStream, Disconnect, vars, stream
    <2>2. /\ stage' = "finished" <=> stage = "finished"
          /\ stage = "finished" => total' = total
      BY <1>7 DEF Refuse, SearchAll, SpawnTask, Respond, StartJoining, Join, ExecuteStep,
                  EndOfStream, Disconnect, vars, stream
    <2>3. client' # "gone" => client # "gone" /\ UNCHANGED <<received, channel>>
      BY <1>7 DEF Refuse, SearchAll, SpawnTask, Respond, StartJoining, Join, ExecuteStep,
                  EndOfStream, Disconnect, vars
    <2> QED
      BY <1>5, <1>6, <2>1, <2>2, <2>3 DEF Sent
  <1>8. CASE Spawn
    <2>1. /\ stage = "spawning" /\ stage' = stage /\ next \in Readers
          /\ UNCHANGED <<client, received, channel, total>>
          /\ task' = task \/ task' = [task EXCEPT ![next] = "executing"]
      BY <1>8 DEF Spawn
    <2>2. task[next] # "finished"
      <3>1. ~(next < next)
        BY <1>1, <2>1 DEF Readers
      <3> QED
        BY <2>1, <3>1 DEF TasksRight
    <2>3. Senders' = Senders
      BY <1>1, <1>2, <2>1, <2>2 DEF Senders
    <2> QED
      BY <1>5, <2>1, <2>3 DEF Sent
  <1>9. ASSUME NEW r \in Readers, TaskResult(r)
        PROVE  EventsRight'
    <2>1. /\ task[r] = "executing" /\ phase[r] = "returned" /\ r \in selected
          /\ task' = [task EXCEPT ![r] =
                         IF result[r].total_file_count = 0 THEN "finished" ELSE "sending"]
          /\ UNCHANGED <<stage, total, client, channel, received>>
      BY <1>9 DEF TaskResult, TasksRight
    <2>2. result[r].total_file_count = 0 => Matching(r) = {}
      <3>1. result[r].total_file_count = Cardinality(Matching(r)) /\ IsFiniteSet(Matching(r))
        BY <1>1, <2>1, MatchedFinite DEF FilesExact
      <3> QED
        BY <3>1, FS_EmptySet
    <2>3. Senders' = Senders
      BY <1>1, <1>2, <2>1, <2>2 DEF Senders
    <2> QED
      BY <1>5, <2>1, <2>3 DEF Sent
  <1>10. CASE Receive
    <2>1. /\ channel # <<>> /\ received' = Append(received, Head(channel))
          /\ channel' = Tail(channel)
          /\ UNCHANGED <<stage, total, task, client>>
      BY <1>10 DEF Receive, stream
    <2>2. Sent' = Sent
      <3>1. received \o channel = Append(received, Head(channel)) \o Tail(channel)
        BY <1>1, <2>1
      <3> QED
        BY <2>1, <3>1 DEF Sent
    <2> QED
      BY <1>5, <1>6, <2>1, <2>2
  <1>11. ASSUME NEW event, client = "connected", Send(event), UNCHANGED received
         PROVE  /\ Len(Sent') = Len(Sent) + 1 /\ Sent'[Len(Sent) + 1] = event
                /\ DOMAIN Sent' = 1..(Len(Sent) + 1)
                /\ \A i \in 1..Len(Sent) : Sent'[i] = Sent[i]
    <2>1. Sent' = received \o Append(channel, event)
      BY <1>11 DEF Send, Sent
    <2>2. received \o Append(channel, event) = Append(Sent, event)
      BY <1>1 DEF Sent
    <2> QED
      BY <1>3, <2>1, <2>2
  <1>12. ASSUME client # "gone", stage # "finished"
         PROVE  /\ \A i \in 1..Len(Sent) : Sent[i].event # "done"
                /\ \A i \in 1..Len(Sent) : Sent[i].event = "result" =>
                       \E s \in Senders : Sent[i] = Announced(s)
                /\ \A s \in Senders : \E j \in 1..Len(Sent) :
                       \A k \in 1..Len(Sent) : Sent[k] = Announced(s) <=> k = j
                /\ Len(Sent) = Cardinality(Senders)
    <2>1. /\ Len(Sent) = Cardinality(Senders) + 0
          /\ \A i \in DOMAIN Sent : Sent[i].event # "done"
          /\ \A i \in DOMAIN Sent : Sent[i].event = "result" =>
                 \E r \in Senders : Sent[i] = Announced(r)
          /\ \A r \in Senders : \E j \in DOMAIN Sent :
                 \A k \in DOMAIN Sent : Sent[k] = Announced(r) <=> k = j
      BY <1>12 DEF EventsRight
    <2>2. Len(Sent) = Cardinality(Senders)
      BY <1>4, <2>1
    <2>3. DOMAIN Sent = 1..Len(Sent)
      BY <1>3
    <2>4. ASSUME NEW s \in Senders
          PROVE  \E j \in 1..Len(Sent) : \A k \in 1..Len(Sent) : Sent[k] = Announced(s) <=> k = j
      <3>1. PICK j \in DOMAIN Sent : \A k \in DOMAIN Sent : Sent[k] = Announced(s) <=> k = j
        BY <2>1
      <3> QED
        BY <2>3, <3>1
    <2> QED
      BY <2>1, <2>2, <2>3, <2>4
  <1>13. ASSUME NEW r \in Readers, SendResult(r)
         PROVE  EventsRight'
    <2>1. /\ task[r] = "sending" /\ r \in selected /\ phase[r] = "returned" /\ Matching(r) # {}
          /\ task' = [task EXCEPT ![r] = "finished"]
          /\ UNCHANGED <<stage, total, client, received>>
          /\ Send(Result(r))
      BY <1>13 DEF SendResult, TasksRight
    <2>2. Senders' = Senders \cup {r} /\ r \notin Senders
      BY <1>1, <1>2, <2>1 DEF Senders, Answering
    <2>3. Cardinality(Senders') = Cardinality(Senders) + 1
      BY <1>4, <2>2, FS_AddElement
    <2>4. stage # "finished"
      <3> SUFFICES ASSUME stage = "finished" PROVE FALSE
        OBVIOUS
      <3>1. next \notin Readers /\ next \in 1..(NumReaders + 1)
        BY DEF TotalRight, TypeOK
      <3>2. r < next
        BY <1>1, <3>1 DEF Readers
      <3> QED
        BY <2>1, <3>2 DEF TasksRight
    <2>5. Result(r) = Announced(r)
      BY <1>1, <2>1 DEF Result, Announced, FilesExact
    <2>6. \A s \in Senders : Announced(s) # Announced(r)
      BY <2>2 DEF Announced
    <2>7. CASE client = "gone"
      BY <2>1, <2>7 DEF EventsRight
    <2>8. CASE client # "gone"
      <3>1. client = "connected"
        BY <2>1, <2>8 DEF Send
      <3>2. /\ Len(Sent') = Len(Sent) + 1 /\ Sent'[Len(Sent) + 1] = Announced(r)
            /\ DOMAIN Sent' = 1..(Len(Sent) + 1)
            /\ \A i \in 1..Len(Sent) : Sent'[i] = Sent[i]
        BY <1>11, <2>1, <2>5, <3>1
      <3>3. /\ \A i \in 1..(Len(Sent) + 1) : i \in 1..Len(Sent) \/ i = Len(Sent) + 1
            /\ \A i \in 1..Len(Sent) : i \in 1..(Len(Sent) + 1) /\ i # Len(Sent) + 1
            /\ Len(Sent) + 1 \in 1..(Len(Sent) + 1)
        BY <1>3
      <3>4. /\ \A i \in 1..Len(Sent) : Sent[i].event # "done"
            /\ \A i \in 1..Len(Sent) : Sent[i].event = "result" =>
                   \E s \in Senders : Sent[i] = Announced(s)
            /\ \A s \in Senders : \E j \in 1..Len(Sent) :
                   \A k \in 1..Len(Sent) : Sent[k] = Announced(s) <=> k = j
            /\ Len(Sent) = Cardinality(Senders)
        BY <1>12, <2>4, <2>8
      <3>5. \A i \in 1..Len(Sent) : Sent[i] # Announced(r)
        <4> SUFFICES ASSUME NEW i \in 1..Len(Sent), Sent[i] = Announced(r) PROVE FALSE
          OBVIOUS
        <4>1. Sent[i].event = "result"
          BY DEF Announced
        <4> QED
          BY <2>6, <3>4, <4>1
      <3>6. /\ Len(Sent') = Cardinality(Senders')
            /\ \A i \in DOMAIN Sent' : Sent'[i].event # "done"
        BY <2>3, <3>2, <3>3, <3>4 DEF Announced
      <3>7. \A i \in DOMAIN Sent' : Sent'[i].event = "result" =>
                \E s \in Senders' : Sent'[i] = Announced(s)
        BY <2>2, <3>2, <3>3, <3>4
      <3>8. ASSUME NEW s \in Senders'
            PROVE  \E j \in DOMAIN Sent' : \A k \in DOMAIN Sent' : Sent'[k] = Announced(s) <=> k = j
        <4>1. CASE s = r
          <5>1. \A k \in DOMAIN Sent' : Sent'[k] = Announced(r) <=> k = Len(Sent) + 1
            BY <3>2, <3>3, <3>5
          <5> QED
            BY <3>2, <3>3, <4>1, <5>1
        <4>2. CASE s \in Senders
          <5>1. PICK j \in 1..Len(Sent) : \A k \in 1..Len(Sent) : Sent[k] = Announced(s) <=> k = j
            BY <3>4, <4>2
          <5>2. Announced(s) # Announced(r)
            BY <2>6, <4>2
          <5>3. j \in DOMAIN Sent'
            BY <3>2, <3>3
          <5>4. \A k \in DOMAIN Sent' : Sent'[k] = Announced(s) <=> k = j
            BY <3>2, <3>3, <5>1, <5>2
          <5> QED
            BY <5>3, <5>4
        <4> QED
          BY <2>2, <4>1, <4>2
      <3>9. Len(Sent') \in Nat /\ Cardinality(Senders') \in Nat
        BY <1>3, <1>4, <2>3, <3>2
      <3> QED
        BY <1>2, <2>1, <2>4, <3>6, <3>7, <3>8, <3>9 DEF EventsRight
    <2> QED
      BY <2>7, <2>8
  <1>14. CASE SendDone
    <2>1. /\ stage = "joining" /\ stage' = "finished"
          /\ UNCHANGED <<total, task, client, received>>
          /\ Send(Done)
      BY <1>14 DEF SendDone, stream
    <2>2. Senders' = Senders
      BY <1>6, <2>1
    <2>3. CASE client = "gone"
      BY <2>1, <2>3 DEF EventsRight
    <2>4. CASE client # "gone"
      <3>1. client = "connected"
        BY <2>1, <2>4 DEF Send
      <3>2. /\ Len(Sent') = Len(Sent) + 1 /\ Sent'[Len(Sent) + 1] = Done
            /\ DOMAIN Sent' = 1..(Len(Sent) + 1)
            /\ \A i \in 1..Len(Sent) : Sent'[i] = Sent[i]
        BY <1>11, <2>1, <3>1
      <3>3. /\ \A i \in 1..(Len(Sent) + 1) : i \in 1..Len(Sent) \/ i = Len(Sent) + 1
            /\ \A i \in 1..Len(Sent) : i \in 1..(Len(Sent) + 1)
            /\ Len(Sent) + 1 \in 1..(Len(Sent) + 1)
        BY <1>3
      <3>4. /\ \A i \in 1..Len(Sent) : Sent[i].event # "done"
            /\ \A i \in 1..Len(Sent) : Sent[i].event = "result" =>
                   \E s \in Senders : Sent[i] = Announced(s)
            /\ \A s \in Senders : \E j \in 1..Len(Sent) :
                   \A k \in 1..Len(Sent) : Sent[k] = Announced(s) <=> k = j
            /\ Len(Sent) = Cardinality(Senders)
        BY <1>12, <2>1, <2>4
      <3>5. Done.event = "done" /\ Done.files = total
        BY DEF Done
      <3>6. \A s : Announced(s) # Done
        BY DEF Announced, Done
      <3>7. \A i \in DOMAIN Sent' : Sent'[i].event = "done" => i = Len(Sent') /\ Sent'[i].files = total'
        BY <2>1, <3>2, <3>3, <3>4, <3>5
      <3>8. \A i \in DOMAIN Sent' : Sent'[i].event = "result" =>
                \E s \in Senders' : Sent'[i] = Announced(s)
        BY <2>2, <3>2, <3>3, <3>4, <3>5
      <3>9. ASSUME NEW s \in Senders'
            PROVE  \E j \in DOMAIN Sent' : \A k \in DOMAIN Sent' : Sent'[k] = Announced(s) <=> k = j
        <4>1. PICK j \in 1..Len(Sent) : \A k \in 1..Len(Sent) : Sent[k] = Announced(s) <=> k = j
          BY <2>2, <3>4
        <4>2. j \in DOMAIN Sent'
          BY <3>2, <3>3
        <4>3. \A k \in DOMAIN Sent' : Sent'[k] = Announced(s) <=> k = j
          <5>1. j # Len(Sent) + 1
            BY <1>3
          <5> QED
            BY <3>2, <3>3, <3>6, <4>1, <5>1
        <4> QED
          BY <4>2, <4>3
      <3>10. Len(Sent') = Cardinality(Senders') + 1
        BY <2>2, <3>2, <3>4
      <3> QED
        BY <1>2, <2>1, <3>7, <3>8, <3>9, <3>10 DEF EventsRight
    <2> QED
      BY <2>3, <2>4
  <1> QED
    BY <1>7, <1>8, <1>9, <1>10, <1>13, <1>14 DEF Next, Handler, Reading

\* A panic leaves the order of the stream and what it has sent as they are.
LEMMA PanicStep ==
  ASSUME TypeOK, ExecInv, StreamInv, NEW r \in Readers, TaskPanics(r)
  PROVE  StreamInv'
  <1>1. /\ task[r] = "executing" /\ phase[r] = "running"
        /\ phase' = [phase EXCEPT ![r] = "panicked"] /\ task' = [task EXCEPT ![r] = "finished"]
        /\ UNCHANGED <<next, total, selected, stage, result, client, channel, received>>
    BY DEF TaskPanics, inputs, request
  <1>2. /\ \A q \in Readers \ {r} : task'[q] = task[q] /\ phase'[q] = phase[q]
        /\ task'[r] = "finished" /\ phase'[r] = "panicked"
    BY <1>1 DEF TypeOK, ExecTypeOK
  <1>3. /\ stage \in {"joining", "finished"} => Before(next)' = Before(next)
        /\ \A q : Matching(q)' = Matching(q)
        /\ Senders' = Senders
    BY PanicKeeps DEF StreamInv
  <1>4. NotBegun' /\ TasksRight'
    BY <1>1, <1>2, <1>3 DEF StreamInv, NotBegun, TasksRight
  <1>5. TotalRight'
    BY <1>1, <1>3 DEF StreamInv, TotalRight, Matched
  <1>6. EventsRight'
    <2>1. UNCHANGED <<client, stage, total, Sent, Senders>>
      BY <1>1, <1>3 DEF Sent
    <2>2. \A q : Announced(q)' = Announced(q)
      BY <1>3 DEF Announced
    <2> QED
      BY <2>1, <2>2 DEF StreamInv, EventsRight
  <1> QED
    BY <1>4, <1>5, <1>6 DEF StreamInv

\* The final event of a stream comes once and last, after one result of every
\* selected reader with matches, and its total is that of the files to find; a
\* reader whose search panicked is missing from both.
THEOREM DoneComesLast == Spec => [](StreamInv /\ DoneIsLast)
  <1>1. Init => StreamInv
    <2> SUFFICES ASSUME Init PROVE StreamInv
      OBVIOUS
    <2>1. NotBegun /\ TasksRight /\ TotalRight
      BY DEF Init, Idle, ExecInit, NotBegun, TasksRight, TotalRight
    <2>2. EventsRight
      <3>1. Senders = {} /\ Sent = <<>> /\ stage = "received"
        BY DEF Init, Idle, Senders, Answering, Sent
      <3>2. Cardinality(Senders) = 0
        BY <3>1, FS_EmptySet
      <3> QED
        BY <3>1, <3>2 DEF EventsRight
    <2> QED
      BY <2>1, <2>2 DEF StreamInv
  <1>2. TypeOK /\ ExecInv /\ StreamInv /\ [Next]_vars => StreamInv'
    <2>1. CASE \A r \in Readers : ~TaskPanics(r)
      BY <2>1, LoopStep, EventsStep DEF StreamInv
    <2>2. CASE \E r \in Readers : TaskPanics(r)
      BY <2>2, PanicStep
    <2> QED
      BY <2>1, <2>2
  <1>3. TypeOK /\ ExecInv /\ StreamInv => DoneIsLast
    <2> SUFFICES ASSUME TypeOK, ExecInv, StreamInv, client # "gone",
                        NEW i \in DOMAIN Sent, Sent[i].event = "done"
                 PROVE  DoneIsLast!2!(i)!2
      BY DEF DoneIsLast
    <2>1. /\ stage = "finished" /\ i = Len(Sent) /\ Sent[i].files = total
          /\ Len(Sent) = Cardinality(Senders) + 1
          /\ \A r \in Senders : \E j \in DOMAIN Sent :
                 \A k \in DOMAIN Sent : Sent[k] = Announced(r) <=> k = j
      BY DEF StreamInv, EventsRight
    <2>2. /\ ExecTypeOK /\ FilesExact /\ NumReaders \in Nat /\ selected \in SUBSET Readers
          /\ next \in 1..(NumReaders + 1) /\ next \notin Readers
          /\ Answering \in SUBSET selected
      BY <2>1, SearchExecutionConstants DEF ExecInv, TypeOK, StreamInv, TotalRight, Answering
    <2>3. \A r \in selected : r < next
      BY <2>2 DEF Readers
    <2>4. \A r \in Answering : task[r] = "finished" /\ phase[r] = "returned"
      BY <2>1, <2>2, <2>3 DEF StreamInv, TasksRight, Answering
    <2>5. /\ Senders = {r \in Answering : Matching(r) # {}}
          /\ Before(next) = Answering
      BY <2>2, <2>3, <2>4 DEF Senders, Before
    <2>6. Sent[i].files = Cardinality(UNION {Matching(r) : r \in Answering})
      BY <2>1, <2>5 DEF StreamInv, TotalRight, Matched
    <2>7. Cardinality(Senders) \in Nat
      <3>1. 1 \in Int /\ NumReaders \in Int
        BY <2>2
      <3>2. IsFiniteSet(Readers) /\ Senders \in SUBSET Readers
        BY <2>2, <3>1, FS_Interval DEF Readers, Senders
      <3> QED
        BY <3>2, FS_Subset, FS_CardinalityType
    <2>8. ASSUME NEW r \in Answering, Matching(r) # {}
          PROVE  Cardinality({j \in DOMAIN Sent : Sent[j] = Result(r)}) = 1
      <3>1. Result(r) = Announced(r)
        BY <2>2, <2>4 DEF Result, Announced, FilesExact
      <3>2. PICK j \in DOMAIN Sent : \A k \in DOMAIN Sent : Sent[k] = Announced(r) <=> k = j
        BY <2>1, <2>5, <2>8
      <3>3. {k \in DOMAIN Sent : Sent[k] = Result(r)} = {j}
        BY <3>1, <3>2
      <3> QED
        BY <3>3, FS_Singleton
    <2>9. i = 1 + Cardinality({r \in Answering : Matching(r) # {}})
      BY <2>1, <2>5, <2>7
    <2> QED
      BY <2>1, <2>6, <2>8, <2>9
  <1> QED
    BY <1>1, <1>2, <1>3, TypeCorrect, AnswersExact, PTL DEF Spec

=============================================================================

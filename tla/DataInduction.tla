---------------------------- MODULE DataInduction ----------------------------
(***************************************************************************)
(* Induction with the predicate as a set, and recursion with the equation  *)
(* as a function.  The theorems of the library take an operator for both,  *)
(* which the provers here cannot instantiate; a set or a function is a     *)
(* value like any other.  Induction follows from the pigeon-hole           *)
(* principle, recursion from induction.                                    *)
(***************************************************************************)
EXTENDS Integers, SequencesExt, FiniteSetTheorems, SequenceTheorems, TLAPS

\* A set with 0 and the successor of each of its numbers has them all.  If n were
\* missing, k |-> k + 1 would be injective from the members up to n to fewer.
THEOREM Induction ==
  ASSUME NEW P, 0 \in P, \A n \in Nat : n \in P => n + 1 \in P
  PROVE  Nat \subseteq P
<1> SUFFICES ASSUME NEW n \in Nat, n \notin P PROVE FALSE
  OBVIOUS
<1> DEFINE S == {k \in 0..n : k \in P}
           T == S \ {0}
           f == [k \in S |-> k + 1]
<1>1. IsFiniteSet(S) /\ 0 \in S
  <2>1. IsFiniteSet(0..n)
    BY FS_Interval
  <2> QED BY <2>1, FS_Subset
<1>2. f \in [S -> T]
  OBVIOUS
<1>3. \A x, y \in S : x # y => f[x] # f[y]
  OBVIOUS
<1> HIDE DEF S, f
<1>4. IsFiniteSet(T) /\ Cardinality(T) = Cardinality(S) - 1 /\ Cardinality(S) \in Nat
  BY <1>1, FS_RemoveElement, FS_CardinalityType
<1>5. Cardinality(T) < Cardinality(S)
  BY <1>4
<1> HIDE DEF T
<1> QED BY <1>1, <1>2, <1>3, <1>4, <1>5, FS_PigeonHole

\* A set that has x when it has all of lower rank has all of S.
THEOREM RankInduction ==
  ASSUME NEW S, NEW rank \in [S -> Nat], NEW P,
         \A x \in S : (\A y \in S : rank[y] < rank[x] => y \in P) => x \in P
  PROVE  S \subseteq P
<1> DEFINE Q == {n \in Nat : \A x \in S : rank[x] < n => x \in P}
<1>1. 0 \in Q
  OBVIOUS
<1>2. ASSUME NEW n \in Nat, n \in Q PROVE n + 1 \in Q
  <2>1. SUFFICES ASSUME NEW x \in S, rank[x] < n + 1 PROVE x \in P
    OBVIOUS
  <2>2. \A y \in S : rank[y] < rank[x] => y \in P
    BY <1>2, <2>1
  <2> QED BY <2>2
<1>3. Nat \subseteq Q
  <2> HIDE DEF Q
  <2> QED BY <1>1, <1>2, Induction
<1>4. \A x \in S : rank[x] + 1 \in Q
  BY <1>3
<1> QED BY <1>4

\* The arguments of lower rank than x, and two functions that agree on some.
Below(rank, x) == {y \in DOMAIN rank : rank[y] < rank[x]}
Agree(g, h, T) == \A y \in T : g[y] = h[y]

\* D[x][g] is the body of a recursive definition at x, with g for its calls, which
\* are for arguments of lower rank only; f is a solution of it.
IsRecursion(D, S, V, rank) ==
  /\ V # {} /\ rank \in [S -> Nat]
  /\ D \in [S -> [[S -> V] -> V]]
  /\ \A x \in S : \A g, h \in [S -> V] : Agree(g, h, Below(rank, x)) => D[x][g] = D[x][h]
Solves(f, D, S, V) == f \in [S -> V] /\ \A x \in S : f[x] = D[x][f]

\* Such a recursion has a solution: best is one up to each rank, and they agree.
THEOREM Recursion ==
  ASSUME NEW S, NEW V, NEW rank, NEW D, IsRecursion(D, S, V, rank)
  PROVE  \E f : Solves(f, D, S, V)
<1> USE DEF IsRecursion
<1> DEFINE Upto(n) == {x \in S : rank[x] < n}
           Good(n) == {g \in [S -> V] : \A x \in Upto(n) : g[x] = D[x][g]}
           P == {n \in Nat : Good(n) # {}}
<1>1. 0 \in P
  <2>1. PICK v \in V : TRUE
    OBVIOUS
  <2>2. [x \in S |-> v] \in Good(0)
    OBVIOUS
  <2> QED BY <2>2
<1>2. ASSUME NEW n \in Nat, n \in P PROVE n + 1 \in P
  <2>1. PICK g \in Good(n) : TRUE
    BY <1>2
  <2> DEFINE h == [x \in S |-> D[x][g]]
  <2>2. h \in [S -> V]
    OBVIOUS
  <2>3. \A x \in Upto(n) : h[x] = g[x]
    BY <2>1
  <2>4. ASSUME NEW x \in Upto(n + 1) PROVE h[x] = D[x][h]
    <3>1. Agree(h, g, Below(rank, x))
      <4>1. SUFFICES ASSUME NEW y \in Below(rank, x) PROVE h[y] = g[y]
        BY DEF Agree
      <4>2. y \in Upto(n)
        BY DEF Below
      <4> QED BY <2>3, <4>2
    <3> QED BY <2>1, <2>2, <3>1
  <2>5. h \in Good(n + 1)
    BY <2>2, <2>4
  <2> HIDE DEF Good
  <2> QED BY <2>5
<1>3. \A n \in Nat : Good(n) # {}
  <2> HIDE DEF P
  <2>1. Nat \subseteq P
    BY <1>1, <1>2, Induction
  <2> QED BY <2>1 DEF P
<1>4. ASSUME NEW m \in Nat, NEW n \in Nat, NEW g \in Good(m), NEW h \in Good(n)
      PROVE  \A x \in S : rank[x] < m /\ rank[x] < n => g[x] = h[x]
  <2> DEFINE Q == {x \in S : rank[x] < m /\ rank[x] < n => g[x] = h[x]}
  <2>1. ASSUME NEW x \in S, \A y \in S : rank[y] < rank[x] => y \in Q PROVE x \in Q
    <3>1. SUFFICES ASSUME rank[x] < m, rank[x] < n PROVE g[x] = h[x]
      OBVIOUS
    <3>2. \A y \in S : rank[y] < rank[x] => g[y] = h[y]
      BY <2>1, <3>1
    <3>3. Agree(g, h, Below(rank, x))
      BY <3>2 DEF Agree, Below
    <3>4. D[x][g] = D[x][h]
      BY <3>3
    <3> QED BY <3>1, <3>4
  <2>2. S \subseteq Q
    <3> HIDE DEF Q
    <3> QED BY ZenonT(60), <2>1, RankInduction
  <2> QED BY <2>2
<1> DEFINE best == [n \in Nat |-> CHOOSE g \in Good(n) : TRUE]
           f == [x \in S |-> best[rank[x] + 1][x]]
<1>5. ASSUME NEW n \in Nat PROVE best[n] \in Good(n)
  <2> HIDE DEF Good
  <2>1. Good(n) # {}
    BY <1>3
  <2> QED BY <2>1
<1> HIDE DEF best
<1>6. f \in [S -> V]
  BY <1>5
<1>7. ASSUME NEW x \in S PROVE f[x] = D[x][f]
  <2> DEFINE g == best[rank[x] + 1]
  <2>1. g \in Good(rank[x] + 1)
    BY <1>5
  <2>2. ASSUME NEW y \in S, rank[y] < rank[x] PROVE f[y] = g[y]
    <3>1. best[rank[y] + 1] \in Good(rank[y] + 1)
      BY <1>5
    <3> HIDE DEF Good, g
    <3>2. best[rank[y] + 1][y] = g[y]
      BY <2>1, <2>2, <3>1, <1>4
    <3> QED BY <3>2
  <2>3. Agree(f, g, Below(rank, x))
    BY <2>2 DEF Agree, Below
  <2>4. g[x] = D[x][g]
    BY <2>1
  <2> QED BY <1>6, <2>1, <2>3, <2>4
<1> QED BY <1>6, <1>7 DEF Solves
\* A recursion that takes each number from the one before it, step[k] from the
\* one at k - 1, starting with base; and f is a solution of it.
IsStep(step, n, V, base) == n \in Nat /\ base \in V /\ step \in [1..n -> [V -> V]]
Iterates(f, step, n, V, base) ==
  f \in [0..n -> V] /\ f[0] = base /\ \A k \in 1..n : f[k] = step[k][f[k - 1]]

\* Such a recursion has a solution.
LEMMA StepRecursion ==
  ASSUME NEW n, NEW V, NEW base, NEW step, IsStep(step, n, V, base)
  PROVE  \E f : Iterates(f, step, n, V, base)
<1> USE DEF IsStep
<1> DEFINE S == 0..n
           rank == [k \in S |-> k]
           D == [k \in S |-> [g \in [S -> V] |-> IF k = 0 THEN base ELSE step[k][g[k - 1]]]]
<1>1. D \in [S -> [[S -> V] -> V]]
  <2>1. ASSUME NEW k \in S, NEW g \in [S -> V], k # 0 PROVE step[k][g[k - 1]] \in V
    <3>1. k \in 1..n /\ k - 1 \in S
      BY <2>1
    <3>2. g[k - 1] \in V /\ step[k] \in [V -> V]
      BY <3>1
    <3> QED BY <3>2
  <2> QED BY <2>1
<1>2. ASSUME NEW k \in S, NEW g \in [S -> V], NEW h \in [S -> V], Agree(g, h, Below(rank, k))
      PROVE  D[k][g] = D[k][h]
  <2>1. k # 0 => k - 1 \in Below(rank, k)
    BY DEF Below
  <2> HIDE DEF rank
  <2>2. k # 0 => g[k - 1] = h[k - 1]
    BY <1>2, <2>1 DEF Agree
  <2> QED BY <2>2
<1>3. rank \in [S -> Nat]
  OBVIOUS
<1>4. PICK f : Solves(f, D, S, V)
  <2> HIDE DEF D, S, rank
  <2>1. IsRecursion(D, S, V, rank)
    BY <1>1, <1>2, <1>3 DEF IsRecursion
  <2> QED BY <2>1, Recursion
<1>5. f \in [S -> V] /\ \A k \in S : f[k] = IF k = 0 THEN base ELSE step[k][f[k - 1]]
  BY <1>4 DEF Solves
<1> QED BY <1>5 DEF Iterates

-----------------------------------------------------------------------------
\* Sequences that can be written one after the other.
Closed(V) == <<>> \in V /\ \A a, b \in V : a \o b \in V /\ <<>> \o a = a

\* Sequences over a set are.
LEMMA SeqIsClosed == ASSUME NEW S PROVE Closed(Seq(S))
<1>1. \A a, b \in Seq(S) : a \o b \in Seq(S) /\ <<>> \o a = a
  BY ConcatProperties, ConcatEmptySeq
<1> QED BY <1>1 DEF Closed

\* FlattenSeq puts the parts one after the other.
LEMMA FlattenRec ==
  ASSUME NEW V, Closed(V), NEW parts \in Seq(V), Len(parts) # 0
  PROVE  \E f \in [1..Len(parts) -> V] :
            /\ \A i \in 1..Len(parts) : f[i] = IF i = 1 THEN parts[i] ELSE f[i - 1] \o parts[i]
            /\ FlattenSeq(parts) = f[Len(parts)]
<1> DEFINE D == 1..Len(parts)
           rank == [i \in D |-> i]
           R == [i \in D |-> [g \in [D -> V] |-> IF i = 1 THEN parts[i] ELSE g[i - 1] \o parts[i]]]
           flatten[i \in 1..Len(parts)] == IF i = 1 THEN parts[i] ELSE flatten[i - 1] \o parts[i]
<1>1. FlattenSeq(parts) = flatten[Len(parts)]
  BY DEF FlattenSeq
<1> HIDE DEF flatten
<1>2. R \in [D -> [[D -> V] -> V]]
  <2>1. ASSUME NEW i \in D, NEW g \in [D -> V], i # 1 PROVE g[i - 1] \o parts[i] \in V
    <3>1. i - 1 \in D
      BY <2>1
    <3>2. g[i - 1] \in V /\ parts[i] \in V
      BY <3>1
    <3> QED BY <3>2 DEF Closed
  <2>2. \A i \in D : parts[i] \in V
    OBVIOUS
  <2> QED BY <2>1, <2>2
<1>3. ASSUME NEW i \in D, NEW g \in [D -> V], NEW h \in [D -> V], Agree(g, h, Below(rank, i))
      PROVE  R[i][g] = R[i][h]
  <2>1. i # 1 => i - 1 \in Below(rank, i)
    BY DEF Below
  <2> HIDE DEF rank
  <2>2. i # 1 => g[i - 1] = h[i - 1]
    BY <1>3, <2>1 DEF Agree
  <2> QED BY <2>2
<1>4. rank \in [D -> Nat] /\ V # {}
  BY DEF Closed
<1>5. PICK f : Solves(f, R, D, V)
  <2> HIDE DEF R, D, rank
  <2>1. IsRecursion(R, D, V, rank)
    BY <1>2, <1>3, <1>4 DEF IsRecursion
  <2> QED BY <2>1, Recursion
<1>6. f = [i \in 1..Len(parts) |-> IF i = 1 THEN parts[i] ELSE f[i - 1] \o parts[i]]
  BY <1>5 DEF Solves
<1>7. flatten = [i \in 1..Len(parts) |-> IF i = 1 THEN parts[i] ELSE flatten[i - 1] \o parts[i]]
  BY <1>6, Zenon DEF flatten
<1>8. \A i \in D : flatten[i] = f[i]
  <2> DEFINE P == {i \in D : flatten[i] = f[i]}
  <2>1. ASSUME NEW i \in D, \A k \in D : rank[k] < rank[i] => k \in P PROVE i \in P
    <3>1. i # 1 => i - 1 \in D /\ rank[i - 1] < rank[i]
      OBVIOUS
    <3>2. i # 1 => flatten[i - 1] = f[i - 1]
      BY <2>1, <3>1
    <3> QED BY ZenonT(60), <1>6, <1>7, <3>2
  <2>2. D \subseteq P
    <3> HIDE DEF P, rank, D
    <3> QED BY <1>4, <2>1, RankInduction
  <2> QED BY <2>2
<1>9. f \in [D -> V]
  BY <1>5 DEF Solves
<1>10. flatten[Len(parts)] = f[Len(parts)]
  BY <1>8
<1> QED
  <2>1. \A i \in 1..Len(parts) : f[i] = IF i = 1 THEN parts[i] ELSE f[i - 1] \o parts[i]
    BY <1>6
  <2> QED BY <1>1, <1>9, <1>10, <2>1

\* One more part is written at the end.
LEMMA FlattenOneMore ==
  ASSUME NEW V, Closed(V), NEW parts \in Seq(V), NEW q \in V
  PROVE  FlattenSeq(Append(parts, q)) = FlattenSeq(parts) \o q /\ FlattenSeq(parts) \in V
<1> DEFINE more == Append(parts, q)
<1>1. PICK n \in Nat : n = Len(parts)
  OBVIOUS
<1>2. /\ more \in Seq(V) /\ Len(more) = n + 1 /\ more[n + 1] = q
      /\ \A i \in 1..n : more[i] = parts[i]
  BY <1>1, AppendProperties
<1> HIDE DEF more
<1>3. PICK g \in [1..(n + 1) -> V] :
          /\ \A i \in 1..(n + 1) : g[i] = IF i = 1 THEN more[i] ELSE g[i - 1] \o more[i]
          /\ FlattenSeq(more) = g[n + 1]
  <2>1. Len(more) # 0
    BY <1>2
  <2>2. \E f \in [1..Len(more) -> V] :
            /\ \A i \in 1..Len(more) : f[i] = IF i = 1 THEN more[i] ELSE f[i - 1] \o more[i]
            /\ FlattenSeq(more) = f[Len(more)]
    BY <1>2, <2>1, FlattenRec
  <2> QED BY <1>2, <2>2
<1>4. CASE n = 0
  <2>1. parts = <<>> /\ FlattenSeq(parts) = <<>>
    <3>1. Len(parts) = 0
      BY <1>1, <1>4
    <3>2. parts = <<>>
      BY <3>1
    <3>3. FlattenSeq(parts) = parts
      BY <3>1 DEF FlattenSeq
    <3> QED BY <3>2, <3>3
  <2>2. FlattenSeq(more) = q
    BY <1>2, <1>3, <1>4
  <2>3. <<>> \o q = q /\ <<>> \in V
    BY DEF Closed
  <2> QED BY <2>1, <2>2, <2>3 DEF more
<1>5. CASE n # 0
  <2>1. PICK f \in [1..n -> V] :
          /\ \A i \in 1..n : f[i] = IF i = 1 THEN parts[i] ELSE f[i - 1] \o parts[i]
          /\ FlattenSeq(parts) = f[n]
    BY <1>1, <1>5, FlattenRec
  <2> DEFINE D == 1..n
             rank == [i \in D |-> i]
             P == {i \in D : g[i] = f[i]}
  <2>2. ASSUME NEW i \in D, \A k \in D : rank[k] < rank[i] => k \in P PROVE i \in P
    <3>1. i # 1 => i - 1 \in D /\ rank[i - 1] < rank[i]
      OBVIOUS
    <3>2. i # 1 => g[i - 1] = f[i - 1]
      BY <2>2, <3>1
    <3>3. g[i] = IF i = 1 THEN more[i] ELSE g[i - 1] \o more[i]
      <4>1. i \in 1..(n + 1)
        OBVIOUS
      <4> QED BY <1>3, <4>1
    <3>4. f[i] = IF i = 1 THEN parts[i] ELSE f[i - 1] \o parts[i]
      BY <2>1
    <3>5. more[i] = parts[i]
      BY <1>2
    <3> QED BY <3>2, <3>3, <3>4, <3>5
  <2>3. D \subseteq P
    <3>1. rank \in [D -> Nat]
      OBVIOUS
    <3> HIDE DEF P, rank, D
    <3> QED BY <2>2, <3>1, RankInduction
  <2>4. g[n] = f[n] /\ f[n] \in V
    BY <1>5, <2>3
  <2>5. g[n + 1] = g[n] \o q
    <3>1. n + 1 # 1 /\ (n + 1) - 1 = n /\ n + 1 \in 1..(n + 1)
      BY <1>5
    <3>2. g[n + 1] = g[(n + 1) - 1] \o more[n + 1]
      BY <1>3, <3>1
    <3> QED BY <1>2, <3>1, <3>2
  <2> QED BY <1>3, <2>1, <2>4, <2>5 DEF more
<1> QED BY <1>4, <1>5

\* The same for sequences of sequences.
LEMMA FlattenAppend ==
  ASSUME NEW S, NEW parts \in Seq(Seq(S)), NEW q \in Seq(S)
  PROVE  FlattenSeq(Append(parts, q)) = FlattenSeq(parts) \o q /\ FlattenSeq(parts) \in Seq(S)
  BY SeqIsClosed, FlattenOneMore
=============================================================================

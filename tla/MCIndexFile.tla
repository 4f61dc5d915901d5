---------------------------- MODULE MCIndexFile -----------------------------
(***************************************************************************)
(* Instances of IndexFile for TLC.  Two writers and two readers; one inode *)
(* for the published file, one per mapping of an older file, one for the   *)
(* temporary file, so that no file is ever missing.                        *)
(***************************************************************************)
EXTENDS IndexFile, TLC

CONSTANTS old, new, w1, w2, r1, r2, i1, i2, i3, i4

MCContents == {old, new}
MCWriters == {w1, w2}
MCReaders == {r1, r2}
MCInodes == {i1, i2, i3, i4}
\* Indexes of up to nine documents, with paths of two bytes at most, and lists
\* on either side of what an entry holds; and as many documents, or trigrams, as
\* an index may have, and more.
Document(d) == [path |-> CASE d % 3 = 1 -> <<1>> [] d % 3 = 2 -> <<2, 3>> [] OTHER -> <<>>,
                content |-> IF d % 2 = 1 THEN <<4, 5>> ELSE <<>>]
Documents(n) == [d \in 1..n |-> Document(d)]
IdSets(n) == {ids \in {{0}, {1}, {0, 1}, {0, 2, 4}, {0, 1, 2, 4}, {1, 2, 3, 4}, 0..5} :
                ids \subseteq 0..(n - 1)}
Postings(trigrams, ids) ==
    [i \in DOMAIN trigrams |-> [trigram |-> trigrams[i], ids |-> ids[i]]]
MCIndexes ==
    {[docs |-> Documents(n), postings |-> <<>>] : n \in 0..9} \cup
    {[docs |-> [d \in 1..n |-> Document(3)], postings |-> <<>>] : n \in 8..10} \cup
    {[docs |-> Documents(1), postings |-> [i \in 1..n |-> [trigram |-> i, ids |-> {0}]]] : n \in 8..10} \cup
    UNION {{[docs |-> Documents(n), postings |-> Postings(trigrams, ids)] :
              ids \in [DOMAIN trigrams -> IdSets(n)]} :
              n \in {1, 2, 5, 6}, trigrams \in {<<0>>, <<7, InlineFlag - 1>>, <<0, 1, 7>>}}

Interchangeable ==
    Permutations(MCWriters) \cup Permutations(MCReaders) \cup Permutations(MCInodes)
=============================================================================

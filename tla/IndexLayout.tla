----------------------------- MODULE IndexLayout -----------------------------
(***************************************************************************)
(* What write_index() puts into an index file, phase by phase, and what    *)
(* IndexReader reads back: doc_path, doc_content, the binary search of     *)
(* lookup_trigram_raw and search_trigrams, with the intersection of        *)
(* posting.rs (writer.rs and reader.rs of crates/houndr-index).            *)
(*                                                                         *)
(* A file is a sequence of cells: a cell is a field of an entry, a byte of *)
(* a path or of a content, or an id of a serialized posting list.  Offsets *)
(* count cells and start at 0.  Magic, version, padding and footer are     *)
(* left out; when they are written is in IndexFile.                        *)
(***************************************************************************)
EXTENDS Integers, Sequences, FiniteSets, SequencesExt

CONSTANTS
    MaxPathOffset,  \* u32::MAX: the largest offset or length of a path
    MaxCount,       \* u32::MAX again: the most documents, or trigrams, of an index
    Indexes         \* bound: the built indexes the layout is tried on

Bytes == 0..255
InlineFlag == 16777216    \* 1 << 24, past the bits of a trigram
TrigramValues == 0..(InlineFlag - 1)

\* docs are numbered from 0; postings are sorted, and none is empty (builder.rs).
BuiltIndex(index) ==
    /\ index.docs \in Seq([path : Seq(Bytes), content : Seq(Bytes)])
    /\ index.postings \in
         Seq([trigram : TrigramValues, ids : (SUBSET (0..(Len(index.docs) - 1))) \ {{}}])
    /\ \A j, i \in DOMAIN index.postings :
         j < i => index.postings[j].trigram < index.postings[i].trigram

ASSUME IndexLayoutConstants ==
    {MaxPathOffset, MaxCount} \subseteq Nat /\ \A index \in Indexes : BuiltIndex(index)

-----------------------------------------------------------------------------
HeaderSize == 7
DocEntrySize == 4
TrigramEntrySize == 4
Refused == <<>>

\* The cells that come before part i when parts are written one after the other.
Before(parts, i) == Len(FlattenSeq(SubSeq(parts, 1, i - 1)))

\* The ids in ascending order: the j-th has j - 1 of them below it.
Ascending(ids) ==
    [j \in 1..Cardinality(ids) |->
        CHOOSE id \in ids : Cardinality({other \in ids : other < id}) = j - 1]

\* Up to three ids are stored in the entry itself.
Inline(ids) == Cardinality(ids) <= 3
Blobs(postings) ==
    [i \in DOMAIN postings |->
        IF Inline(postings[i].ids) THEN <<>> ELSE Ascending(postings[i].ids)]

\* What a field of 32 bits holds.
U32(n) == n % (MaxPathOffset + 1)

\* Phase 2: offset and length of each path, offset and length of each content.
Paths(docs)    == [d \in DOMAIN docs |-> docs[d].path]
ContentsOf(docs) == [d \in DOMAIN docs |-> docs[d].content]
DocEntry(docs, d) ==
    <<U32(Before(Paths(docs), d)), U32(Len(docs[d].path)),
      Before(ContentsOf(docs), d), Len(docs[d].content)>>
DocTable(docs) == FlattenSeq([d \in DOMAIN docs |-> DocEntry(docs, d)])

\* Phase 5: the trigram in the lower 24 bits, bit 24 for an inline list with its
\* length, less one, in the two bits above; then the ids, or where they are.
TrigramEntry(postings, i) ==
    LET trigram == postings[i].trigram
        ids     == Ascending(postings[i].ids)
    IN  IF Inline(postings[i].ids)
        THEN <<trigram + InlineFlag + (Len(ids) - 1) * (2 * InlineFlag)>>
                 \o [j \in 1..3 |-> IF j <= Len(ids) THEN ids[j] ELSE 0]
        ELSE <<trigram, Before(Blobs(postings), i), Len(ids), 0>>
TrigramIndex(postings) ==
    FlattenSeq([i \in DOMAIN postings |-> TrigramEntry(postings, i)])

\* A path whose start or length is beyond 32 bits is an error.
TooLarge(docs) == \E d \in DOMAIN docs :
    \/ Before(Paths(docs), d) > MaxPathOffset
    \/ Len(docs[d].path) > MaxPathOffset

\* So is a number of documents or trigrams, when the header is written at last.
TooMany(index) == Len(index.docs) > MaxCount \/ Len(index.postings) > MaxCount

WriteIndex(index) ==
    LET docs     == index.docs
        paths    == FlattenSeq(Paths(docs))
        contents == FlattenSeq(ContentsOf(docs))
        blobs    == FlattenSeq(Blobs(index.postings))
        path_data_off   == HeaderSize + Len(docs) * DocEntrySize
        trigram_idx_off == path_data_off + Len(paths)
        posting_off     == trigram_idx_off + Len(index.postings) * TrigramEntrySize
        content_off     == posting_off + Len(blobs)
        header == <<Len(docs), Len(index.postings), HeaderSize, path_data_off,
                    trigram_idx_off, posting_off, content_off>>
    IN  IF TooLarge(docs) \/ TooMany(index) THEN Refused
        ELSE header \o DocTable(docs) \o paths \o TrigramIndex(index.postings)
                    \o blobs \o contents

-----------------------------------------------------------------------------
Cell(file, off) == file[off + 1]
Slice(file, off, len) == SubSeq(file, off + 1, off + len)

\* The fields of the header, as open() reads them.
Header(file) ==
    [doc_count   |-> Cell(file, 0), trigram_count   |-> Cell(file, 1),
     doc_table   |-> Cell(file, 2), path_data       |-> Cell(file, 3),
     trigram_idx |-> Cell(file, 4), posting         |-> Cell(file, 5),
     content     |-> Cell(file, 6)]

DocPath(file, id) ==
    LET entry == Header(file).doc_table + id * DocEntrySize
    IN  Slice(file, Header(file).path_data + Cell(file, entry), Cell(file, entry + 1))

DocContent(file, id) ==
    LET entry == Header(file).doc_table + id * DocEntrySize
    IN  Slice(file, Header(file).content + Cell(file, entry + 2), Cell(file, entry + 3))

\* The list an entry holds, or points to.
Posting(file, off) ==
    LET word == Cell(file, off)
        inline == (word \div InlineFlag) % 2 = 1
        ids == IF inline
               THEN Slice(file, off + 1, ((word \div (2 * InlineFlag)) % 4) + 1)
               ELSE Slice(file, Header(file).posting + Cell(file, off + 1), Cell(file, off + 2))
    IN  [inline |-> inline, ids |-> {ids[j] : j \in DOMAIN ids}]

NotFound == [inline |-> FALSE, ids |-> {}]

\* Mutant: the search goes on below the middle, as if hi were still inside.
LookupBelow(file, trigram) ==
    LET n == Header(file).trigram_count
        search[range \in (0..n) \X (0..n)] ==
            LET lo == range[1]
                hi == range[2]
                mid == lo + (hi - lo) \div 2
                off == Header(file).trigram_idx + mid * TrigramEntrySize
                stored == Cell(file, off) % InlineFlag
            IN  IF lo >= hi THEN NotFound
                ELSE IF stored = trigram THEN Posting(file, off)
                ELSE IF stored < trigram THEN search[<<mid + 1, hi>>]
                ELSE search[<<lo, IF mid = 0 THEN 0 ELSE mid - 1>>]
    IN  search[<<0, n>>]

\* lookup_trigram_raw: the binary search over the sorted entries.
LookupTrigram(file, trigram) ==
    LET n == Header(file).trigram_count
        search[range \in (0..n) \X (0..n)] ==
            LET lo == range[1]
                hi == range[2]
                mid == lo + (hi - lo) \div 2
                off == Header(file).trigram_idx + mid * TrigramEntrySize
                stored == Cell(file, off) % InlineFlag
            IN  IF lo >= hi THEN NotFound
                ELSE IF stored = trigram THEN Posting(file, off)
                ELSE IF stored < trigram THEN search[<<mid + 1, hi>>]
                ELSE search[<<lo, mid>>]
    IN  search[<<0, n>>]

\* The lists in ascending length; an empty intersection ends it
\* (intersect_with_serialized, and the loop over the inline lists).
Shortest(lists) == CHOOSE l \in lists : \A m \in lists : Cardinality(l) <= Cardinality(m)
Longest(lists)  == CHOOSE l \in lists : \A m \in lists : Cardinality(m) <= Cardinality(l)
Intersect(base, lists) ==
    LET step(list, left) == IF left = {} THEN left ELSE left \cap list
    IN  MapThenFoldSet(step, base, LAMBDA list : list, Longest, lists)

\* search_trigrams: a trigram that is not there ends it; otherwise the shortest
\* inline list, or the shortest of all, is cut down by the inline ones and then
\* by the serialized ones.
SearchFile(file, trigrams) ==
    LET found      == {LookupTrigram(file, t) : t \in trigrams}
        inline     == {p.ids : p \in {q \in found : q.inline}}
        serialized == {p.ids : p \in {q \in found : ~q.inline}}
        base       == Shortest(IF inline # {} THEN inline ELSE serialized)
    IN  IF found = {} \/ NotFound \in found THEN {}
        ELSE Intersect(Intersect(base, inline \ {base}), serialized \ {base})

-----------------------------------------------------------------------------
\* The documents a built index has all the trigrams for, by its definition.
Holding(index, trigrams) ==
    {d \in 0..(Len(index.docs) - 1) : trigrams # {} /\ \A t \in trigrams :
        \E i \in DOMAIN index.postings :
            index.postings[i].trigram = t /\ d \in index.postings[i].ids}

PathBytes(index) == Len(FlattenSeq(Paths(index.docs)))

\* The trigrams a search may ask for: those of an index, and one it lacks on
\* either side of each.
Asked(index) ==
    LET known == {index.postings[i].trigram : i \in DOMAIN index.postings}
    IN  known \cup {t - 1 : t \in known \ {0}} \cup {t + 1 : t \in known \ {InlineFlag - 1}}

\* Refused for its size, or read back: paths, contents, and every lookup.
ReadsBack(index) ==
    LET file == WriteIndex(index)
    IN  \/ file = Refused /\ (PathBytes(index) > MaxPathOffset \/ TooMany(index))
        \/ /\ file # Refused
           /\ \A id \in 0..(Len(index.docs) - 1) :
                /\ DocPath(file, id) = index.docs[id + 1].path
                /\ DocContent(file, id) = index.docs[id + 1].content
           /\ \A trigrams \in UNION {kSubset(k, Asked(index)) : k \in 0..3} :
                SearchFile(file, trigrams) = Holding(index, trigrams)

==============================================================================

------------------------------ MODULE Trigrams ------------------------------
(***************************************************************************)
(* The trigram index of crates/houndr-index: what a document is indexed    *)
(* under (trigram.rs, builder.rs) and which documents a set of trigrams    *)
(* leads to (reader.rs, posting.rs).                                       *)
(*                                                                         *)
(* A text is a sequence of characters, its lines separated by Newline.  A  *)
(* character stands for one byte; a posting list is the set of ids it      *)
(* stands for, inline or serialized.                                       *)
(***************************************************************************)
EXTENDS Integers, SequencesExt

CONSTANTS Newline, CarriageReturn

\* All windows of three characters; none if the text is shorter.
Extract(text) == {SubSeq(text, i, i + 2) : i \in 1..(Len(text) - 2)}

\* Mutant: where two maps are merged, the list of one of them is lost.
BuildOne(content) ==
    [t \in UNION {Extract(content[d]) : d \in DOMAIN content} |->
        {CHOOSE d \in DOMAIN content : t \in Extract(content[d])}]

\* The postings of an index: the trigrams that occur, each with its documents.
Build(content) ==
    [t \in UNION {Extract(content[d]) : d \in DOMAIN content} |->
        {d \in DOMAIN content : t \in Extract(content[d])}]

\* No trigram to look up, or one that is nowhere: no candidate.  Otherwise the
\* intersection of the posting lists, whatever the order they are taken in.
SearchTrigrams(postings, trigrams) ==
    IF trigrams \subseteq DOMAIN postings
    THEN LET lists == {postings[t] : t \in trigrams}
         IN  {d \in UNION lists : \A list \in lists : d \in list}
    ELSE {}

-----------------------------------------------------------------------------
\* str::lines: a line ends before a line break, and before a carriage return in
\* front of it; what follows the last line break is a line if there is any.
Lines(text) ==
    LET upto[k \in 0..Len(text)] ==
            IF k = 0 THEN <<0>>
            ELSE IF text[k] = Newline THEN Append(upto[k - 1], k) ELSE upto[k - 1]
        starts == upto[Len(text)]
        end(n) ==
            IF n = Len(starts) THEN Len(text)
            ELSE LET e == starts[n + 1] - 1
                 IN  IF e > starts[n] /\ text[e] = CarriageReturn THEN e - 1 ELSE e
        count == IF Last(starts) = Len(text) THEN Len(starts) - 1 ELSE Len(starts)
    IN  [n \in 1..count |-> SubSeq(text, starts[n] + 1, end(n))]

\* A text has the pattern somewhere.
Has(text, pattern) == \E i, j \in 1..Len(text) : pattern = SubSeq(text, i, j)
=============================================================================

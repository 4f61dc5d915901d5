----------------------------- MODULE LineMatches -----------------------------
(***************************************************************************)
(* What a search shows of a file: find_literal_matches() and               *)
(* build_blocks_with_context() of crates/houndr-index/src/query.rs.        *)
(*                                                                         *)
(* A text is a sequence of characters, as in Trigrams; positions on a line *)
(* count characters from 0, and a range excludes its end.  The lower case  *)
(* of a character does not depend on its neighbours here; of all Unicode,  *)
(* it does for the final sigma only.                                       *)
(***************************************************************************)
EXTENDS Trigrams

CONSTANTS
    ToLower,    \* the characters each character becomes in lower case
    Context     \* the lines shown around a matching line

ASSUME LineMatchesConstants ==
    /\ \A c \in DOMAIN ToLower : ToLower[c] \in Seq(DOMAIN ToLower) \ {<<>>}
    /\ Newline \in DOMAIN ToLower /\ ToLower[Newline] = <<Newline>>
    /\ Context \in Nat

InLowerCase(text) == FlattenSeq([i \in DOMAIN text |-> ToLower[text[i]]])

\* The places of needle in a line.
Places(line, needle) ==
    {p \in 0..(Len(line) - Len(needle)) : SubSeq(line, p + 1, p + Len(needle)) = needle}

\* Each occurrence is looked for where the one before it ends.
Scan(line, needle) ==
    LET places == Places(line, needle)
        from[start \in 0..Len(line)] ==
            LET ahead == {p \in places : p >= start}
            IN  IF ahead = {} THEN <<>>
                ELSE LET p == Min(ahead)
                     IN  <<[from |-> p, to |-> p + Len(needle)]>> \o from[p + Len(needle)]
    IN  from[0]

\* What is found on a line.
FindOn(line, pattern, i) ==
    IF i THEN Scan(InLowerCase(line), InLowerCase(pattern)) ELSE Scan(line, pattern)

\* The lines with an occurrence, up to the first most of them.
FindMatches(text, pattern, i, most) ==
    LET lines == Lines(text)
        upto[n \in 0..Len(lines)] ==
            IF n = 0 THEN <<>>
            ELSE LET matches == upto[n - 1]
                     found   == FindOn(lines[n], pattern, i)
                 IN  IF Len(matches) >= most \/ found = <<>> THEN matches
                     ELSE Append(matches, [line_number |-> n, match_ranges |-> found])
    IN  upto[Len(lines)]

\* Mutant: ranges of lines are merged only where they overlap.
MergeOverlapping(ranges, start, end) ==
    IF ranges # <<>> /\ start <= Last(ranges).end
    THEN [ranges EXCEPT ![Len(ranges)].end = Max({@, end})]
    ELSE Append(ranges, [start |-> start, end |-> end])

\* A range of lines that overlaps the one before it, or follows it, extends it.
Merge(ranges, start, end) ==
    IF ranges # <<>> /\ start <= Last(ranges).end + 1
    THEN [ranges EXCEPT ![Len(ranges)].end = Max({@, end})]
    ELSE Append(ranges, [start |-> start, end |-> end])

\* build_blocks_with_context: each range becomes a block, each of its lines
\* with the ranges found on it.
Blocks(total, matches) ==
    LET upto[j \in 0..Len(matches)] ==
            IF j = 0 THEN <<>>
            ELSE LET n == matches[j].line_number
                 IN  Merge(upto[j - 1], Max({n - Context, 1}), Min({n + Context, total}))
        ranges == upto[Len(matches)]
        onLine(n) == {m \in {matches[j] : j \in DOMAIN matches} : m.line_number = n}
        line(n) == IF onLine(n) = {} THEN [line_number |-> n, match_ranges |-> <<>>]
                   ELSE CHOOSE m \in onLine(n) : TRUE
    IN  [b \in DOMAIN ranges |->
            [k \in 1..(ranges[b].end - ranges[b].start + 1) |-> line(ranges[b].start + k - 1)]]

-----------------------------------------------------------------------------
\* The lower case of every character of the line is one character.
OneToOne(line) == \A j \in DOMAIN line : Len(ToLower[line[j]]) = 1

\* The marks are occurrences on the line as it is written, without case if i,
\* they do not overlap, and every occurrence is marked or begins inside a mark.
Marks(line, pattern, i, ranges) ==
    LET fold(s) == IF i THEN InLowerCase(s) ELSE s
        occurrences == {o \in (0..Len(line)) \X (0..Len(line)) :
                           o[1] < o[2] /\ fold(SubSeq(line, o[1] + 1, o[2])) = fold(pattern)}
    IN  /\ \A j \in DOMAIN ranges : <<ranges[j].from, ranges[j].to>> \in occurrences
        /\ \A j \in 1..(Len(ranges) - 1) : ranges[j].to <= ranges[j + 1].from
        /\ \A o \in occurrences : \E j \in DOMAIN ranges :
               ranges[j].from <= o[1] /\ o[1] < ranges[j].to

\* Of a file, the blocks show the first most lines with an occurrence, their
\* context and nothing else, each line once and in order; two blocks have a
\* line between them; and the marks are where the pattern is, on lines whose
\* lower case has a character for each of theirs, as query.rs takes it.
ShowsMatches(text, pattern, i, most) ==
    LET lines  == Lines(text)
        fold(s) == IF i THEN InLowerCase(s) ELSE s
        all    == {n \in DOMAIN lines : Places(fold(lines[n]), fold(pattern)) # {}}
        hits   == {n \in all : Cardinality({m \in all : m < n}) < most}
        blocks == Blocks(Len(lines), FindMatches(text, pattern, i, most))
        shown  == UNION {{blocks[b][k] : k \in DOMAIN blocks[b]} : b \in DOMAIN blocks}
    IN  /\ {m.line_number : m \in shown} =
               {n \in DOMAIN lines : \E h \in hits : n - h \in (-Context)..Context}
        /\ \A b \in DOMAIN blocks : \A k \in 1..(Len(blocks[b]) - 1) :
               blocks[b][k].line_number < blocks[b][k + 1].line_number
        /\ \A b \in 1..(Len(blocks) - 1) :
               Last(blocks[b]).line_number + 1 < Head(blocks[b + 1]).line_number
        /\ \A m \in shown :
               LET n == m.line_number IN
               IF n \in hits
               THEN ~i \/ OneToOne(lines[n]) => Marks(lines[n], pattern, i, m.match_ranges)
               ELSE m.match_ranges = <<>>

==============================================================================

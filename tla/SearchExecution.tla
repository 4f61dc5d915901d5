--------------------------- MODULE SearchExecution ---------------------------
(***************************************************************************)
(* execute_search() of crates/houndr-index/src/query.rs, run on several    *)
(* readers at once: the candidates of a reader are verified in parallel by *)
(* rayon, and three atomic counters decide which files are returned with   *)
(* their lines and how many are only counted.                              *)
(*                                                                         *)
(* What the scan of a file finds is data: the number of ranges on each     *)
(* matching line, in line order, empty for a file that does not match, is  *)
(* filtered out by its path, or is not UTF-8.                              *)
(***************************************************************************)
EXTENDS Integers, FiniteSets, Sequences

CONSTANTS
    NumReaders,         \* readers are numbered as in AppState.readers
    Docs,               \* the documents of all readers, numbered in id order
    ReaderOf,           \* the reader whose index holds a document
    MaxMatchesPerFile   \* MAX_MATCHES_PER_FILE: matching lines kept of a file

Readers == 1..NumReaders

ASSUME SearchExecutionConstants ==
    /\ NumReaders \in Nat
    /\ IsFiniteSet(Docs) /\ Docs \subseteq Nat
    /\ ReaderOf \in [Docs -> Readers]
    /\ MaxMatchesPerFile \in Nat \ {0}

VARIABLES
    limit,            \* max_results
    candidates,       \* the documents the trigram filter lets through
    ranges,           \* per document, the ranges of each matching line
    phase,            \* per reader: "idle", "running", "returned" or "panicked"
    doc,              \* per document: where its verification is
    found_count,      \* per reader, the three atomic counters
    overflow_files,
    overflow_matches,
    result            \* per reader, its SearchResult once it has returned

inputs   == <<limit, candidates, ranges>>
counters == <<found_count, overflow_files, overflow_matches>>
execVars == <<inputs, phase, doc, counters, result>>

DocSteps == {"queued", "matched", "over", "over_counted",
             "rejected", "listed", "overflowed"}
SearchResult == [files : SUBSET Docs, total_file_count : Nat, total_match_count : Nat]
NoResult == [files |-> {}, total_file_count |-> 0, total_match_count |-> 0]

ExecTypeOK ==
    /\ limit \in Nat
    /\ candidates \subseteq Docs
    /\ ranges \in [Docs -> Seq(Nat \ {0})]
    /\ phase \in [Readers -> {"idle", "running", "returned", "panicked"}]
    /\ doc \in [Docs -> DocSteps]
    /\ found_count \in [Readers -> Nat]
    /\ overflow_files \in [Readers -> Nat]
    /\ overflow_matches \in [Readers -> Nat]
    /\ result \in [Readers -> SearchResult]

ExecInit ==
    /\ phase = [r \in Readers |-> "idle"]
    /\ doc = [d \in Docs |-> "queued"]
    /\ found_count = [r \in Readers |-> 0]
    /\ overflow_files = [r \in Readers |-> 0]
    /\ overflow_matches = [r \in Readers |-> 0]
    /\ result = [r \in Readers |-> NoResult]

-----------------------------------------------------------------------------
CandidatesOf(r) == {d \in candidates : ReaderOf[d] = r}

\* find_literal_matches and find_regex_matches stop after MAX_MATCHES_PER_FILE
\* matching lines; a range is one occurrence.
Occurrences(d) ==
    UNION {{<<d, i>>} \X (1..ranges[d][i]) :
              i \in {j \in DOMAIN ranges[d] : j <= MaxMatchesPerFile}}
RangesFound(d) == Cardinality(Occurrences(d))

\* The ranges found in a set of files.
RangesIn(files) == Cardinality(UNION {Occurrences(d) : d \in files})

Working(d) == d \in candidates /\ phase[ReaderOf[d]] = "running"

Move(d, from, to) == Working(d) /\ doc[d] = from /\ doc' = [doc EXCEPT ![d] = to]

Add(counter, r, n) == [counter EXCEPT ![r] = @ + n]

\* The filter has found the candidates; the verification starts.
Execute(r) ==
    /\ phase[r] = "idle"
    /\ phase' = [phase EXCEPT ![r] = "running"]

\* A worker scans a candidate.
Verify(d) ==
    /\ Move(d, "queued", IF ranges[d] = <<>> THEN "rejected" ELSE "matched")
    /\ UNCHANGED <<inputs, phase, counters, result>>

\* Mutant: the bound is off by one.
LateOverflow(d) ==
    LET r == ReaderOf[d] IN
    /\ Move(d, "matched", IF found_count[r] > limit THEN "over" ELSE "listed")
    /\ found_count' = Add(found_count, r, 1)
    /\ UNCHANGED <<inputs, phase, overflow_files, overflow_matches, result>>

\* found_count.fetch_add: the value before decides whether the file is listed.
CountFound(d) ==
    LET r == ReaderOf[d] IN
    /\ Move(d, "matched", IF found_count[r] >= limit THEN "over" ELSE "listed")
    /\ found_count' = Add(found_count, r, 1)
    /\ UNCHANGED <<inputs, phase, overflow_files, overflow_matches, result>>

\* Past the limit the file and its ranges are counted, by two atomic additions: the first.
CountOverflowFile(d) ==
    /\ Move(d, "over", "over_counted")
    /\ overflow_files' = Add(overflow_files, ReaderOf[d], 1)
    /\ UNCHANGED <<inputs, phase, found_count, overflow_matches, result>>

\* Mutant: both counters count the file.
CountOverflowOnce(d) ==
    /\ Move(d, "over_counted", "overflowed")
    /\ overflow_matches' = Add(overflow_matches, ReaderOf[d], 1)
    /\ UNCHANGED <<inputs, phase, found_count, overflow_files, result>>

\* The second addition.
CountOverflowMatches(d) ==
    /\ Move(d, "over_counted", "overflowed")
    /\ overflow_matches' = Add(overflow_matches, ReaderOf[d], RangesFound(d))
    /\ UNCHANGED <<inputs, phase, found_count, overflow_files, result>>

Listed(r) == {d \in CandidatesOf(r) : doc[d] = "listed"}

\* files.truncate(max_results): candidates are collected in document order.
Truncate(files) == {d \in files : Cardinality({e \in files : e < d}) < limit}

\* All candidates are through: the counters are read and the result is built.
Collect(r) ==
    /\ phase[r] = "running"
    /\ \A d \in CandidatesOf(r) : doc[d] \in {"rejected", "listed", "overflowed"}
    /\ phase' = [phase EXCEPT ![r] = "returned"]
    /\ LET files == Truncate(Listed(r)) IN
       result' = [result EXCEPT ![r] =
           [files |-> files,
            total_file_count |-> Cardinality(files) + overflow_files[r],
            total_match_count |-> RangesIn(files) + overflow_matches[r]]]
    /\ UNCHANGED <<inputs, doc, counters>>

VerifyStep(d) ==
    Verify(d) \/ CountFound(d) \/ CountOverflowFile(d) \/ CountOverflowMatches(d)

ExecNext == (\E d \in Docs : VerifyStep(d)) \/ (\E r \in Readers : Collect(r))

-----------------------------------------------------------------------------
Matching(r) == {d \in CandidatesOf(r) : ranges[d] # <<>>}

\* As many files are returned with their lines as there is room for, and the
\* others are counted: no interleaving of the workers loses a file or counts
\* one twice.  query.rs promises totals that do not depend on the limit.
FilesExact == \A r \in Readers : phase[r] = "returned" =>
    /\ result[r].files \subseteq Matching(r)
    /\ Cardinality(result[r].files) =
           (IF Cardinality(Matching(r)) > limit THEN limit ELSE Cardinality(Matching(r)))
    /\ result[r].total_file_count = Cardinality(Matching(r))

\* The same for the occurrences on the lines that are kept: those of the listed
\* files and those counted past the limit add up to those of all matching files.
MatchesExact == \A r \in Readers : phase[r] = "returned" =>
    result[r].total_match_count = RangesIn(Matching(r))

\* What a reader answers is exact in its files and in its occurrences, whatever
\* order its workers took the room of the limit in.
ResultExact == FilesExact /\ MatchesExact

\* query.rs:176 and api.rs:47 call the second total that of the matching lines.
TotalIsMatchingLines == \A r \in Readers : phase[r] = "returned" =>
    result[r].total_match_count =
        Cardinality(UNION {{d} \X DOMAIN ranges[d] : d \in Matching(r)})

=============================================================================

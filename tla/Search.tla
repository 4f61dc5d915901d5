------------------------------- MODULE Search -------------------------------
(***************************************************************************)
(* A search from its query to its answer: QueryPlan gives the trigrams,    *)
(* the indexes the candidates, and SearchStream verifies them and answers. *)
(*                                                                         *)
(* The state of SearchStream is that of one request; query and content are *)
(* what it asks and what the readers hold, fixed while it runs.            *)
(***************************************************************************)
EXTENDS SearchStream, QueryPlan, LineMatches

CONSTANTS
    Queries,    \* the queries asked
    Contents,   \* the contents of the documents: functions from Docs to texts
    Texts,      \* bound: the texts the filter is tried on
    ScanTexts,  \* bound: the texts and patterns the scan is tried on
    ScanPatterns,
    Limits,     \* the values of max_results
    Findings    \* the ranges the scan of a matching file may find

IsQuery(q) ==
    /\ q.regex \in BOOLEAN /\ q.i \in BOOLEAN
    /\ IF q.regex THEN q.hir \in Hirs ELSE q.text \in Seq(Characters)

ASSUME SearchConstants ==
    /\ \A q \in Queries : IsQuery(q)
    /\ \A content \in Contents :
         DOMAIN content = Docs /\ \A d \in Docs : content[d] \in Seq(Characters)
    /\ Texts \subseteq Seq(Characters)
    /\ ScanTexts \subseteq Seq(DOMAIN ToLower)
    /\ ScanPatterns \subseteq Seq(DOMAIN ToLower) \ {<<>>}
    /\ Limits \subseteq Nat
    /\ Findings \subseteq Seq(Nat \ {0}) \ {<<>>}

VARIABLES query, content

asked == <<query, content>>
searchVars == <<vars, asked>>

\* The index of a reader: that of its documents.
IndexOf(r) ==
    Build([d \in {e \in Docs : ReaderOf[e] = r} |-> content[d]])

SearchInit ==
    /\ query \in Queries /\ content \in Contents
    /\ limit \in Limits
    /\ candidates = UNION {SearchTrigrams(IndexOf(r), QueryTrigrams(query)) : r \in Readers}
    /\ ranges \in {f \in [Docs -> Findings \cup {<<>>}] :
                     \A d \in Docs : f[d] # <<>> <=> Matches(query, content[d])}
    /\ handler \in {"json", "stream"} /\ selected \in SUBSET Readers
    /\ Idle

\* QueryPlan::new fails when there is no trigram to look up.
Planned == QueryTrigrams(query) # {}

SearchNext ==
    /\ Next
    /\ stage = "received" => (Planned <=> stage' # "refused")
    /\ UNCHANGED asked

SearchSpec == SearchInit /\ [][SearchNext]_searchVars
FairSearchSpec == SearchSpec /\ Fairness

-----------------------------------------------------------------------------
\* Queries whose every collected literal is in every match, as it is looked up.
NeedsItsLiterals ==
    IF query.regex
    THEN /\ ~SkipsLiterals[query.hir]
         /\ query.i => \A l \in CollectLiterals[query.hir] : LowerCase(l) = l
    ELSE query.i => \A j \in DOMAIN query.text, c \in DOMAIN Lower :
                        Lower[c] = Lower[query.text[j]] => c = query.text[j]

\* The trigram filter only ever saves work: no file with a match is passed
\* over.  It takes trigrams that occur in the file wherever the match is, and
\* trigrams that are in every match: case-sensitive literals, literals without
\* letters, and regexes whose literals are not optional and, in a search without
\* case, have no capitals ((?-i:FOO) is looked up as foo).
FilterKeepsMatches == stage = "received" /\ Planned /\ NeedsItsLiterals =>
    \A text \in Texts : Matches(query, text) => \A d \in Docs :
        d \in SearchTrigrams(Build([content EXCEPT ![d] = text]), QueryTrigrams(query))

\* A file of a result shows its matching lines, with their context and the
\* occurrences on them (ShowsMatches); tried on texts of more lines than the
\* documents have, with and without case.
ScanShowsMatches ==
    stage = "received" /\ handler = "json" /\ selected = Readers /\ ~query.regex =>
        \A text \in ScanTexts, pattern \in ScanPatterns :
            ShowsMatches(text, pattern, query.i, MaxMatchesPerFile)

\* An answer that does not call itself truncated has every file of the
\* selected readers with a match, whatever the query: what the documents say of
\* a case-insensitive search and of a regex.
FindsEveryMatch == stage = "responded" /\ ~response.truncated =>
    response.files = {d \in Docs : ReaderOf[d] \in selected /\ Matches(query, content[d])}

\* Of the queries the filter is right for this is true, from the trigrams of the
\* documents to the answer put together by parallel workers.
CompleteAnswer == NeedsItsLiterals /\ limit > 0 => FindsEveryMatch

=============================================================================

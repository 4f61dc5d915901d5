------------------------------ MODULE QueryPlan ------------------------------
(***************************************************************************)
(* QueryPlan::new of crates/houndr-index/src/query.rs: the trigrams a      *)
(* query is looked up by, and what its verification accepts.               *)
(*                                                                         *)
(* A query is a literal or a regex, case-insensitive or not.  The regex is *)
(* given by its HIR, as regex_syntax returns it for the full pattern: where*)
(* the flag (?i) is on, a letter is a class of its cases, no literal; the  *)
(* pattern may switch it off.                                              *)
(***************************************************************************)
EXTENDS Trigrams, FiniteSets

CONSTANTS
    Lower,      \* the lower case of each character
    Word,       \* the word characters, for \b
    Unbounded,  \* bound: what stands for a repetition without maximum
    Hirs,       \* the HIRs of the queries asked, and their parts
    Height      \* the height of each of them as a tree

Characters == DOMAIN Lower
LowerCase(text) == [i \in DOMAIN text |-> Lower[text[i]]]

\* The kinds of regex_syntax::hir::Hir.
Lit(text)           == [kind |-> "literal", text |-> text]
Class(chars)        == [kind |-> "class", chars |-> chars]
Empty               == [kind |-> "empty"]
Look(at)            == [kind |-> "look", at |-> at]   \* ^, $ and \b
Concat(subs)        == [kind |-> "concat", subs |-> subs]
Alternation(subs)   == [kind |-> "alternation", subs |-> subs]
Capture(sub)        == [kind |-> "capture", sub |-> sub]
Repetition(m, n, sub) == [kind |-> "repetition", min |-> m, max |-> n, sub |-> sub]

IsHir(hir) ==
    \/ hir.kind = "literal" /\ hir.text \in Seq(Characters)
    \/ hir.kind = "class" /\ hir.chars \subseteq Characters
    \/ hir.kind = "empty"
    \/ hir.kind = "look" /\ hir.at \in {"start", "end", "word"}
    \/ hir.kind \in {"concat", "alternation"} /\ hir.subs \in Seq(Hirs)
    \/ hir.kind = "capture" /\ hir.sub \in Hirs
    \/ hir.kind = "repetition" /\ hir.sub \in Hirs /\ hir.min \in Nat /\ hir.max \in Nat

\* The HIRs a HIR is made of.
Parts(hir) ==
    IF hir.kind \in {"concat", "alternation"} THEN {hir.subs[i] : i \in DOMAIN hir.subs}
    ELSE IF hir.kind \in {"capture", "repetition"} THEN {hir.sub} ELSE {}

ASSUME QueryPlanConstants ==
    /\ Newline \in Characters /\ Lower[Newline] = Newline
    /\ Lower \in [Characters -> Characters] /\ \A c \in Characters : Lower[Lower[c]] = Lower[c]
    /\ Unbounded \in Nat \ {0}

\* HIRs are finite trees.
ASSUME HirsAreTrees ==
    /\ Height \in [Hirs -> Nat]
    /\ \A hir \in Hirs : IsHir(hir) /\ \A e \in Parts(hir) : Height[e] < Height[hir]

-----------------------------------------------------------------------------
IsLiteral(hir) == hir.kind = "literal"
Long(texts) == {l \in texts : Len(l) >= 3}

\* Mutant: a part that is no literal does not end what is joined.
JoinedAcross(subs) ==
    LET current[k \in 0..Len(subs)] ==
            IF k = 0 THEN <<>>
            ELSE IF IsLiteral(subs[k]) THEN current[k - 1] \o subs[k].text ELSE current[k - 1]
    IN  current

\* Adjacent literals of a concatenation are joined: what is joined after each part.
Joined(subs) ==
    LET current[k \in 0..Len(subs)] ==
            IF k = 0 \/ ~IsLiteral(subs[k]) THEN <<>> ELSE current[k - 1] \o subs[k].text
    IN  current

\* It is taken at the end and where a part follows that is no literal.
Flushed(subs) ==
    {Joined(subs)[k] : k \in {j \in DOMAIN subs : j = Len(subs) \/ ~IsLiteral(subs[j + 1])}}

\* collect_literals: the parts of an alternation and of a repetition are
\* collected whatever its minimum.
CollectLiterals[hir \in Hirs] ==
    CASE hir.kind = "literal" -> Long({hir.text})
      [] hir.kind = "concat" ->
            Long(Flushed(hir.subs))
                \cup UNION {CollectLiterals[e] : e \in {p \in Parts(hir) : ~IsLiteral(p)}}
      [] OTHER -> UNION {CollectLiterals[e] : e \in Parts(hir)}

\* The trigrams of the query; none at all is the error TooShort or NoTrigrams.
QueryTrigrams(query) ==
    IF query.regex
    THEN UNION {Extract(IF query.i THEN LowerCase(l) ELSE l) : l \in CollectLiterals[query.hir]}
    ELSE Extract(IF query.i THEN LowerCase(query.text) ELSE query.text)

-----------------------------------------------------------------------------
\* A part of a line, after its first from characters and up to its to-th.
Span(line, a, b) == [line |-> line, from |-> a, to |-> b]
Spans == {s \in [line : Seq(Characters), from : Nat, to : Nat] :
             s.from <= s.to /\ s.to <= Len(s.line)}

\* The ways to cut what is between a and b into n pieces, some of which may be empty.
Cuts(a, b, n) ==
    {cut \in [0..n -> a..b] : cut[0] = a /\ cut[n] = b /\ \A i \in 1..n : cut[i - 1] <= cut[i]}

IsWord(line, p) == p \in DOMAIN line /\ line[p] \in Word

\* A HIR matches a part of a line, given what each of its own parts matches
\* (the regex crate).  What is around decides on a look only.
Accepts(hir, s, language) ==
    CASE hir.kind = "literal" -> SubSeq(s.line, s.from + 1, s.to) = hir.text
      [] hir.kind = "class" -> s.to = s.from + 1 /\ s.line[s.to] \in hir.chars
      [] hir.kind = "empty" -> s.from = s.to
      [] hir.kind = "look" ->
            /\ s.from = s.to
            /\ \/ hir.at = "start" /\ s.from = 0
               \/ hir.at = "end" /\ s.to = Len(s.line)
               \/ hir.at = "word" /\ IsWord(s.line, s.to) # IsWord(s.line, s.to + 1)
      [] hir.kind = "concat" ->
            \E cut \in Cuts(s.from, s.to, Len(hir.subs)) : \A i \in DOMAIN hir.subs :
                Span(s.line, cut[i - 1], cut[i]) \in language[hir.subs[i]]
      [] hir.kind = "alternation" -> \E i \in DOMAIN hir.subs : s \in language[hir.subs[i]]
      [] hir.kind = "capture" -> s \in language[hir.sub]
      [] hir.kind = "repetition" ->
            \E n \in hir.min..hir.max : \E cut \in Cuts(s.from, s.to, n) : \A i \in 1..n :
                Span(s.line, cut[i - 1], cut[i]) \in language[hir.sub]

Language[hir \in Hirs] == {s \in Spans : Accepts(hir, s, Language)}

\* What the verification of a candidate finds on a line, and what a search is
\* asked for.
MatchesLine(query, line) ==
    CASE query.regex -> \E b \in 0..Len(line) : \E a \in 0..b :
                            Span(line, a, b) \in Language[query.hir]
      [] ~query.regex /\ query.i -> Has(LowerCase(line), LowerCase(query.text))
      [] ~query.regex /\ ~query.i -> Has(line, query.text)

Matches(query, text) == \E n \in DOMAIN Lines(text) : MatchesLine(query, Lines(text)[n])

\* An alternation, or a part that may be absent, holds a literal.
SkipsLiterals[hir \in Hirs] ==
    CASE hir.kind = "alternation" -> CollectLiterals[hir] # {}
      [] hir.kind = "repetition" /\ hir.min = 0 -> CollectLiterals[hir] # {}
      [] OTHER -> \E e \in Parts(hir) : SkipsLiterals[e]

=============================================================================

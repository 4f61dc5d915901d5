------------------------------ MODULE MCSearch ------------------------------
(***************************************************************************)
(* Instances of Search for TLC: two readers, the first with three          *)
(* documents, so that two workers may go past the limit at once.  The      *)
(* trigram filter is tried on texts of up to five characters.              *)
(***************************************************************************)
EXTENDS Search

\* Two letters, one of them in both cases, a character without case, a line break
\* and a carriage return.
MCLower == [c \in {"a", "A", "b", "_", "nl", "cr"} |-> IF c = "A" THEN "a" ELSE c]
Chars == DOMAIN MCLower
MCWord == {"a", "A", "b"}

MCDocs == 1..4
MCReaderOf == <<1, 1, 1, 2>>
Literal(text, i) == [regex |-> FALSE, i |-> i, text |-> text]
Regex(hir, i)    == [regex |-> TRUE, i |-> i, hir |-> hir]
AnyA == Class({"a", "A"})

AAB == <<"a", "a", "b">>
BBA == <<"b", "b", "a">>
MCTexts ==
    UNION {[1..n -> {"a", "A", "b"}] : n \in 0..4} \cup
    UNION {[1..n -> {"a", "b", "_", "nl"}] : n \in 1..4} \cup
    {AAB \o tail : tail \in [1..2 -> {"b", "cr", "nl"}]}
MCContents ==
    {<<text, AAB \o <<"_">>, AAB, AAB \o BBA>> :
        text \in {AAB \o <<"nl">> \o AAB, <<"a", "A", "b">>}}

\* Literals: found as they are, without case, across a line break, too short.
Literals == {Literal(AAB, FALSE), Literal(<<"_", "_", "_">>, TRUE),
             Literal(<<"a", "nl", "b">>, FALSE), Literal(<<"a", "b">>, FALSE)}

\* Regexes: one literal among other parts, joined literals, a repetition, none, a
\* whole line, an empty alternative, and literals with (?i) switched off.
Regexes == {Regex(Concat(<<Repetition(0, 1, AnyA), Lit(AAB), Repetition(0, Unbounded, AnyA)>>), FALSE),
            Regex(Concat(<<Lit(<<"a">>), Lit(<<"a", "b">>), Class({"_", "b"})>>), FALSE),
            Regex(Concat(<<Lit(<<"a">>), Class({"_", "b"}), Lit(<<"a", "b">>)>>), FALSE),
            Regex(Capture(Repetition(1, Unbounded, Lit(AAB))), FALSE),
            Regex(Concat(<<AnyA, AnyA, Class({"b"})>>), TRUE),
            Regex(Concat(<<Look("start"), Lit(AAB), Look("end")>>), FALSE),
            Regex(Concat(<<Lit(<<"a">>), Look("word"), Lit(<<"a", "b">>)>>), FALSE),
            Regex(Concat(<<Lit(AAB), Alternation(<<Class({"b"}), Empty>>)>>), FALSE),
            Regex(Lit(AAB), TRUE), Regex(Lit(<<"a", "A", "b">>), TRUE)}

\* "I" stands for a character whose lower case has two.
MCToLower == [c \in Chars \cup {"i", "dot", "I"} |->
                 IF c = "I" THEN <<"i", "dot">> ELSE IF c = "A" THEN <<"a">> ELSE <<c>>]
MCScanTexts ==
    UNION {[1..n -> {"a", "nl"}] : n \in 0..7} \cup
    UNION {[1..n -> {"a", "A", "I", "nl"}] : n \in 1..4} \cup
    UNION {[1..n -> {"a", "cr", "nl"}] : n \in 1..4}
MCScanPatterns == {<<"a">>, <<"A", "a">>, <<"a", "I">>, <<"cr">>}

MCQueries == Literals \cup Regexes
\* A literal without case, and two alternatives.
LossyQueries == {Literal(AAB, TRUE), Regex(Alternation(<<Lit(AAB), Lit(BBA)>>), FALSE)}

MCFindings == {<<3, 1, 2>>}

\* The HIRs of the queries with their parts, and their heights.
RECURSIVE Within(_), HeightOf(_)
Within(hir) == {hir} \cup UNION {Within(e) : e \in Parts(hir)}
HeightOf(hir) == IF Parts(hir) = {} THEN 0 ELSE 1 + Max({HeightOf(e) : e \in Parts(hir)})
HirsOf(queries) == UNION {Within(q.hir) : q \in {p \in queries : p.regex}}

MCHirs == HirsOf(MCQueries \cup LossyQueries)
MCHeight == [hir \in MCHirs |-> HeightOf(hir)]

=============================================================================

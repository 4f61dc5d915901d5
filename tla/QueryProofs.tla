----------------------------- MODULE QueryProofs -----------------------------
(***************************************************************************)
(* What Search promises of the plan of a query and of its answer, for any  *)
(* query, contents and requests: the trigram filter never discards a       *)
(* document that matches, an answer that was not cut short has every       *)
(* document of the repositories that were searched, and what is shown of a *)
(* document is its matching lines with their context and marks.            *)
(*                                                                         *)
(* The first part is about plans: by induction on the height of a plan,    *)
(* its literals are on every line it matches a part of, the trigrams of a  *)
(* line are those of the text, and case folding keeps both.  The second    *)
(* carries it to the steps: a search is a request as SearchProofs knows    *)
(* it, whose candidates are those the filter leaves.  The third is about   *)
(* the scan of a document: lines and lower case of a text, what is found   *)
(* on a line, by recursion on what is left of it, the first lines with the *)
(* pattern, by counting those before, and the ranges of lines merged       *)
(* around them.                                                            *)
(***************************************************************************)
EXTENDS Search, SearchProofs, DataInduction

\* The recursive definitions satisfy their equations.
LEMMA JoinedDef ==
  ASSUME NEW subs \in Seq(Hirs)
  PROVE  /\ Joined(subs) \in [0..Len(subs) -> Seq(Characters)]
         /\ \A k \in 0..Len(subs) : Joined(subs)[k] =
              IF k = 0 \/ ~IsLiteral(subs[k]) THEN <<>> ELSE Joined(subs)[k - 1] \o subs[k].text
<1> DEFINE S == 0..Len(subs)
           V == Seq(Characters)
           rank == [k \in S |-> k]
           D == [k \in S |-> [g \in [S -> V] |->
                    IF k = 0 \/ ~IsLiteral(subs[k]) THEN <<>> ELSE g[k - 1] \o subs[k].text]]
<1>1. \A k \in S : k # 0 /\ IsLiteral(subs[k]) => subs[k].text \in Seq(Characters)
  BY HirsAreTrees DEF IsHir, IsLiteral
<1>2. D \in [S -> [[S -> V] -> V]]
  <2>1. ASSUME NEW k \in S, NEW g \in [S -> V], k # 0, IsLiteral(subs[k])
        PROVE  g[k - 1] \o subs[k].text \in V
    <3>1. k - 1 \in S
      BY <2>1
    <3> QED BY <1>1, <2>1, <3>1, ConcatProperties
  <2> HIDE DEF V
  <2>2. <<>> \in V
    BY DEF V
  <2> QED BY <2>1, <2>2
<1>3. \A k \in S : \A g, h \in [S -> V] : Agree(g, h, Below(rank, k)) => D[k][g] = D[k][h]
  BY DEF Agree, Below
<1>4. rank \in [S -> Nat] /\ V # {}
  <2>1. <<>> \in V
    OBVIOUS
  <2> HIDE DEF V
  <2> QED BY <2>1
<1>5. PICK f : Solves(f, D, S, V)
  <2> HIDE DEF S, V, rank, D
  <2>1. IsRecursion(D, S, V, rank)
    BY <1>2, <1>3, <1>4 DEF IsRecursion
  <2> QED BY <2>1, Recursion
<1>6. f = [k \in S |-> IF k = 0 \/ ~IsLiteral(subs[k]) THEN <<>> ELSE f[k - 1] \o subs[k].text]
  BY <1>5 DEF Solves
<1>7. Joined(subs) = [k \in S |-> IF k = 0 \/ ~IsLiteral(subs[k]) THEN <<>>
                                  ELSE Joined(subs)[k - 1] \o subs[k].text]
  BY <1>6, Zenon DEF Joined
<1> QED BY <1>7


\* What the collector flushes is literals.
LEMMA FlushedType ==
  ASSUME NEW subs \in Seq(Hirs)
  PROVE  Flushed(subs) \subseteq Seq(Characters)
  BY JoinedDef DEF Flushed

\* Parts of a plan are plans, and less high.
LEMMA PartsAreHirs ==
  ASSUME NEW hir \in Hirs, NEW e \in Parts(hir)
  PROVE  e \in Hirs /\ Height[e] < Height[hir]
  BY HirsAreTrees DEF Parts, IsHir

\* collect_literals: what it adds for a plan, from what it adds for its parts.
LEMMA CollectDef ==
  ASSUME NEW hir \in Hirs
  PROVE  /\ CollectLiterals[hir] \subseteq Seq(Characters)
         /\ CollectLiterals[hir] =
              CASE hir.kind = "literal" -> Long({hir.text})
                [] hir.kind = "concat" ->
                      Long(Flushed(hir.subs))
                          \cup UNION {CollectLiterals[e] : e \in {p \in Parts(hir) : ~IsLiteral(p)}}
                [] OTHER -> UNION {CollectLiterals[e] : e \in Parts(hir)}
<1> DEFINE V == SUBSET Seq(Characters)
           Body(h, g) ==
              CASE h.kind = "literal" -> Long({h.text})
                [] h.kind = "concat" ->
                      Long(Flushed(h.subs)) \cup UNION {g[e] : e \in {p \in Parts(h) : ~IsLiteral(p)}}
                [] OTHER -> UNION {g[e] : e \in Parts(h)}
           D == [h \in Hirs |-> [g \in [Hirs -> V] |-> Body(h, g)]]
<1>1. ASSUME NEW h \in Hirs, NEW g, \A e \in Parts(h) : g[e] \in V
      PROVE  Body(h, g) \in V
  <2>2. CASE h.kind = "literal"
    BY <2>2, HirsAreTrees DEF IsHir, Long
  <2>3. CASE h.kind = "concat"
    <3>1. Flushed(h.subs) \subseteq Seq(Characters)
      BY <2>3, HirsAreTrees, FlushedType DEF IsHir
    <3> QED BY <1>1, <2>3, <3>1 DEF Long
  <2>4. CASE h.kind # "literal" /\ h.kind # "concat"
    BY <1>1, <2>4
  <2> QED BY <2>2, <2>3, <2>4
<1>2. ASSUME NEW h \in Hirs, NEW g \in [Hirs -> V], NEW k \in [Hirs -> V],
             Agree(g, k, Below(Height, h))
      PROVE  Body(h, g) = Body(h, k)
  <2>1. \A e \in Parts(h) : g[e] = k[e]
    BY <1>2, HirsAreTrees DEF Agree, Below, Parts, IsHir
  <2> QED BY <2>1
<1> HIDE DEF V
<1>3. IsRecursion(D, Hirs, V, Height)
  <2>1. V # {}
    BY DEF V
  <2> HIDE DEF Body
  <2>2. D \in [Hirs -> [[Hirs -> V] -> V]]
    BY <1>1, PartsAreHirs
  <2>3. \A h \in Hirs : \A g, k \in [Hirs -> V] : Agree(g, k, Below(Height, h)) => D[h][g] = D[h][k]
    BY <1>2
  <2> HIDE DEF D
  <2> QED BY <2>1, <2>2, <2>3, HirsAreTrees DEF IsRecursion
<1>4. PICK f : Solves(f, D, Hirs, V)
  <2> HIDE DEF D
  <2> QED BY <1>3, Recursion
<1>5. f \in [Hirs -> V] /\ f = [h \in Hirs |-> Body(h, f)]
  <2> HIDE DEF Body
  <2> QED BY <1>4 DEF Solves
<1>6. CollectLiterals = [h \in Hirs |-> Body(h, CollectLiterals)]
  BY <1>5, ZenonT(60) DEF CollectLiterals
<1>7. \A h \in Hirs : CollectLiterals[h] \in V
  <2> DEFINE P == {h \in Hirs : CollectLiterals[h] \in V}
  <2> HIDE DEF Body
  <2>1. ASSUME NEW h \in Hirs, \A e \in Hirs : Height[e] < Height[h] => e \in P
        PROVE  h \in P
    <3>1. \A e \in Parts(h) : CollectLiterals[e] \in V
      BY <2>1, PartsAreHirs
    <3> QED BY <1>1, <1>6, <3>1
  <2>2. Hirs \subseteq P
    <3> HIDE DEF P
    <3> QED BY <2>1, HirsAreTrees, RankInduction
  <2> QED BY <2>2
<1>8. CollectLiterals[hir] = Body(hir, CollectLiterals)
  <2> HIDE DEF Body
  <2> QED BY <1>6
<1> QED BY <1>7, <1>8 DEF V

\* skips_literals: a plan skips what its parts do, and more where one of them may be
\* left out.
LEMMA SkipsDef ==
  ASSUME NEW hir \in Hirs
  PROVE  SkipsLiterals[hir] =
            CASE hir.kind = "alternation" -> CollectLiterals[hir] # {}
              [] hir.kind = "repetition" /\ hir.min = 0 -> CollectLiterals[hir] # {}
              [] OTHER -> \E e \in Parts(hir) : SkipsLiterals[e]
<1> DEFINE Body(h, g) ==
              CASE h.kind = "alternation" -> CollectLiterals[h] # {}
                [] h.kind = "repetition" /\ h.min = 0 -> CollectLiterals[h] # {}
                [] OTHER -> \E e \in Parts(h) : g[e]
           D == [h \in Hirs |-> [g \in [Hirs -> BOOLEAN] |-> Body(h, g)]]
<1>1. ASSUME NEW h \in Hirs, NEW g
      PROVE  Body(h, g) \in BOOLEAN
  <2>1. CASE h.kind = "alternation"
    BY <2>1
  <2>2. CASE h.kind = "repetition" /\ h.min = 0
    BY <2>2
  <2>3. CASE ~(h.kind = "alternation") /\ ~(h.kind = "repetition" /\ h.min = 0)
    BY <2>3
  <2> QED BY <2>1, <2>2, <2>3
<1>2. ASSUME NEW h \in Hirs, NEW g \in [Hirs -> BOOLEAN], NEW k \in [Hirs -> BOOLEAN],
             Agree(g, k, Below(Height, h))
      PROVE  Body(h, g) = Body(h, k)
  <2>1. \A e \in Parts(h) : g[e] = k[e]
    BY <1>2, PartsAreHirs, HirsAreTrees DEF Agree, Below
  <2> QED BY <2>1
<1>3. IsRecursion(D, Hirs, BOOLEAN, Height)
  <2> HIDE DEF Body
  <2>1. D \in [Hirs -> [[Hirs -> BOOLEAN] -> BOOLEAN]]
    BY <1>1
  <2>2. \A h \in Hirs : \A g, k \in [Hirs -> BOOLEAN] :
           Agree(g, k, Below(Height, h)) => D[h][g] = D[h][k]
    BY <1>2
  <2> HIDE DEF D
  <2> QED BY <2>1, <2>2, HirsAreTrees DEF IsRecursion
<1>4. PICK f : Solves(f, D, Hirs, BOOLEAN)
  <2> HIDE DEF D
  <2> QED BY <1>3, Recursion
<1>5. f = [h \in Hirs |-> Body(h, f)]
  <2> HIDE DEF Body
  <2> QED BY <1>4 DEF Solves
<1>6. SkipsLiterals = [h \in Hirs |-> Body(h, SkipsLiterals)]
  BY <1>5, Zenon DEF SkipsLiterals
<1> QED BY <1>6

\* The parts of lines a plan matches are those it accepts.
LEMMA LanguageDef ==
  ASSUME NEW hir \in Hirs
  PROVE  Language[hir] = {s \in Spans : Accepts(hir, s, Language)}
<1> DEFINE V == SUBSET Spans
           Body(h, g) == {s \in Spans : Accepts(h, s, g)}
           D == [h \in Hirs |-> [g \in [Hirs -> V] |-> Body(h, g)]]
<1>1. ASSUME NEW h \in Hirs, NEW g, NEW k, \A e \in Parts(h) : g[e] = k[e], NEW s
      PROVE  Accepts(h, s, g) = Accepts(h, s, k)
  <2>1. CASE h.kind \in {"literal", "class", "empty", "look"}
    BY <2>1 DEF Accepts
  <2>2. CASE h.kind = "concat" \/ h.kind = "alternation"
    <3>1. \A i \in DOMAIN h.subs : g[h.subs[i]] = k[h.subs[i]]
      BY <1>1, <2>2 DEF Parts
    <3> QED BY <2>2, <3>1 DEF Accepts
  <2>3. CASE h.kind = "capture" \/ h.kind = "repetition"
    <3>1. g[h.sub] = k[h.sub]
      BY <1>1, <2>3 DEF Parts
    <3> QED BY <2>3, <3>1 DEF Accepts
  <2> QED BY <2>1, <2>2, <2>3, HirsAreTrees DEF IsHir
<1>2. ASSUME NEW h \in Hirs, NEW g \in [Hirs -> V], NEW k \in [Hirs -> V],
             Agree(g, k, Below(Height, h))
      PROVE  Body(h, g) = Body(h, k)
  <2>1. \A e \in Parts(h) : g[e] = k[e]
    BY <1>2, PartsAreHirs, HirsAreTrees DEF Agree, Below
  <2> QED BY <2>1, <1>1
<1>3. IsRecursion(D, Hirs, V, Height)
  <2>1. V # {} /\ D \in [Hirs -> [[Hirs -> V] -> V]]
    OBVIOUS
  <2> HIDE DEF Body, V
  <2>2. \A h \in Hirs : \A g, k \in [Hirs -> V] : Agree(g, k, Below(Height, h)) => D[h][g] = D[h][k]
    BY <1>2
  <2> HIDE DEF D
  <2> QED BY <2>1, <2>2, HirsAreTrees DEF IsRecursion
<1> HIDE DEF V
<1>4. PICK f : Solves(f, D, Hirs, V)
  <2> HIDE DEF D
  <2> QED BY <1>3, Recursion
<1>5. f = [h \in Hirs |-> Body(h, f)]
  <2> HIDE DEF Body
  <2> QED BY <1>4 DEF Solves
<1>6. Language = [h \in Hirs |-> Body(h, Language)]
  BY <1>5, Zenon DEF Language
<1> QED BY <1>6

\* What is joined after a part of a concatenation ends where the part ends.
LEMMA JoinedIsThere ==
  ASSUME NEW subs \in Seq(Hirs), NEW line \in Seq(Characters), NEW b \in 0..Len(line), NEW a \in 0..b,
         NEW cut \in Cuts(a, b, Len(subs)),
         \A i \in DOMAIN subs : Span(line, cut[i - 1], cut[i]) \in Language[subs[i]]
  PROVE  \A k \in 0..Len(subs) : \E p \in 0..cut[k] : Joined(subs)[k] = SubSeq(line, p + 1, cut[k])
<1> DEFINE P == {k \in Nat : k <= Len(subs) =>
                    \E p \in 0..cut[k] : Joined(subs)[k] = SubSeq(line, p + 1, cut[k])}
<1>1. /\ cut \in [0..Len(subs) -> 0..Len(line)] /\ cut[0] = a
      /\ \A i \in 1..Len(subs) : cut[i - 1] <= cut[i]
  BY DEF Cuts
<1>2. 0 \in P
  <2>1. Joined(subs)[0] = <<>>
    BY JoinedDef
  <2>2. cut[0] = a /\ Len(line) \in Nat /\ SubSeq(line, a + 1, a) = <<>>
    BY <1>1, SubSeqEmpty
  <2> HIDE DEF P
  <2>3. \E p \in 0..cut[0] : Joined(subs)[0] = SubSeq(line, p + 1, cut[0])
    <3>1. a \in 0..cut[0] /\ Joined(subs)[0] = SubSeq(line, a + 1, cut[0])
      BY <2>1, <2>2
    <3> QED BY <3>1
  <2> QED BY <2>3 DEF P
<1>3. ASSUME NEW n \in Nat, n \in P PROVE n + 1 \in P
  <2> DEFINE k == n + 1
  <2> SUFFICES ASSUME k <= Len(subs)
               PROVE  \E p \in 0..cut[k] : Joined(subs)[k] = SubSeq(line, p + 1, cut[k])
    OBVIOUS
  <2>1. k \in 1..Len(subs) /\ k - 1 = n /\ n \in 0..Len(subs) /\ DOMAIN subs = 1..Len(subs)
    OBVIOUS
  <2> HIDE DEF k, P
  <2>2. /\ cut[n] \in 0..Len(line) /\ cut[k] \in cut[n]..Len(line)
    <3>1. PICK c \in 0..Len(line), e \in 0..Len(line) : c = cut[n] /\ e = cut[k]
      BY <1>1, <2>1
    <3>2. cut[k - 1] <= cut[k]
      BY <1>1, <2>1
    <3> QED BY <2>1, <3>1, <3>2
  <2>3. CASE ~IsLiteral(subs[k])
    <3>1. Joined(subs)[k] = <<>>
      BY <2>1, <2>3, JoinedDef
    <3>2. SubSeq(line, cut[k] + 1, cut[k]) = <<>>
      BY <2>2, SubSeqEmpty
    <3>3. cut[k] \in 0..cut[k]
      BY <2>2
    <3> QED BY <3>1, <3>2, <3>3
  <2>4. CASE IsLiteral(subs[k])
    <3>1. PICK p \in 0..cut[n] : Joined(subs)[n] = SubSeq(line, p + 1, cut[n])
      BY <1>3, <2>1 DEF P
    <3>2. Joined(subs)[k] = Joined(subs)[n] \o subs[k].text
      <4>1. k \in 0..Len(subs) /\ k # 0
        BY <2>1
      <4>2. Joined(subs)[k] = IF k = 0 \/ ~IsLiteral(subs[k]) THEN <<>>
                              ELSE Joined(subs)[k - 1] \o subs[k].text
        BY <4>1, JoinedDef
      <4> QED BY <2>1, <2>4, <4>1, <4>2
    <3>3. subs[k].text = SubSeq(line, cut[n] + 1, cut[k])
      <4>0. k \in DOMAIN subs /\ subs[k] \in Hirs
        BY <2>1
      <4>1. Span(line, cut[k - 1], cut[k]) \in Language[subs[k]]
        BY <4>0, Zenon
      <4>2. Accepts(subs[k], Span(line, cut[n], cut[k]), Language)
        BY <2>1, <4>0, <4>1, LanguageDef
      <4> QED BY <2>4, <4>2 DEF Accepts, IsLiteral, Span
    <3>4. SubSeq(line, p + 1, cut[n]) \o SubSeq(line, cut[n] + 1, cut[k]) = SubSeq(line, p + 1, cut[k])
      <4>1. p + 1 \in 1..(Len(line) + 1) /\ cut[n] \in (p + 1 - 1)..Len(line)
        BY <2>2
      <4>2. cut[n] = (p + 1) - 1 + (cut[n] - p) /\ cut[k] \in cut[n]..Len(line)
        BY <2>2
      <4> DEFINE m == p + 1
                 c == cut[n]
                 e == cut[k]
      <4>3. m \in 1..(Len(line) + 1) /\ c \in (m - 1)..Len(line) /\ e \in c..Len(line)
        BY <4>1, <4>2
      <4> HIDE DEF m, c, e
      <4>4. SubSeq(line, m, c) \o SubSeq(line, c + 1, e) = SubSeq(line, m, e)
        BY <4>3, ConcatAdjacentSubSeq
      <4> QED BY <4>4 DEF m, c, e
    <3>5. p \in 0..cut[k]
      BY <2>2
    <3> QED BY <3>1, <3>2, <3>3, <3>4, <3>5
  <2> QED BY <2>3, <2>4
<1>4. Nat \subseteq P
  <2> HIDE DEF P
  <2> QED BY <1>2, <1>3, Induction
<1> SUFFICES ASSUME NEW k \in 0..Len(subs)
             PROVE  \E p \in 0..cut[k] : Joined(subs)[k] = SubSeq(line, p + 1, cut[k])
  OBVIOUS
<1>5. k \in Nat /\ k <= Len(subs)
  OBVIOUS
<1>6. k \in P
  BY <1>4, <1>5, Zenon
<1> QED BY <1>5, <1>6

\* What is flushed of a concatenation is on every line it matches a part of.
LEMMA FlushedIsThere ==
  ASSUME NEW subs \in Seq(Hirs), NEW line \in Seq(Characters), NEW b \in 0..Len(line), NEW a \in 0..b,
         NEW cut \in Cuts(a, b, Len(subs)),
         \A i \in DOMAIN subs : Span(line, cut[i - 1], cut[i]) \in Language[subs[i]],
         NEW l \in Long(Flushed(subs))
  PROVE  Has(line, l)
<1>1. PICK k \in DOMAIN subs : l = Joined(subs)[k]
  BY DEF Long, Flushed
<1>2. k \in 0..Len(subs) /\ Len(l) >= 3
  BY DEF Long
<1>3. cut[k] \in 0..Len(line)
  BY <1>2 DEF Cuts
<1>4. PICK p \in 0..cut[k] : l = SubSeq(line, p + 1, cut[k])
  BY <1>1, <1>2, JoinedIsThere
<1>5. Len(l) = IF p + 1 <= cut[k] THEN cut[k] - (p + 1) + 1 ELSE 0
  BY <1>3, <1>4
<1>6. p + 1 \in 1..Len(line) /\ cut[k] \in 1..Len(line)
  BY <1>2, <1>3, <1>5
<1> QED BY <1>4, <1>6 DEF Has

\* The literals collect_literals finds in a regex are on every line the regex
\* matches a part of, unless one of them is optional or an alternative.
LEMMA LiteralsAreInMatches ==
  ASSUME NEW hir \in Hirs, ~SkipsLiterals[hir],
         NEW s \in Language[hir], NEW l \in CollectLiterals[hir]
  PROVE  Has(s.line, l)
<1> DEFINE InAll(h) == ~SkipsLiterals[h] =>
                \A t \in Language[h], m \in CollectLiterals[h] : Has(t.line, m)
           P == {h \in Hirs : InAll(h)}
<1>1. ASSUME NEW h \in Hirs, \A e \in Hirs : Height[e] < Height[h] => e \in P
      PROVE  h \in P
  <2> SUFFICES ASSUME ~SkipsLiterals[h], NEW t \in Language[h], NEW m \in CollectLiterals[h]
               PROVE  Has(t.line, m)
    OBVIOUS
  <2>1. \A e \in Parts(h) : e \in Hirs /\ InAll(e)
    BY <1>1, PartsAreHirs
  <2>2. /\ Accepts(h, t, Language) /\ IsHir(h)
        /\ t.line \in Seq(Characters) /\ t.to \in 0..Len(t.line) /\ t.from \in 0..t.to
    <3>1. t \in Spans /\ Accepts(h, t, Language) /\ IsHir(h)
      BY LanguageDef, HirsAreTrees
    <3> QED BY <3>1 DEF Spans
  <2> HIDE DEF InAll, P
  <2>3. CASE h.kind = "literal"
    <3>1. m = SubSeq(t.line, t.from + 1, t.to) /\ Len(m) >= 3
      BY <2>2, <2>3, CollectDef DEF Accepts, Long
    <3>2. Len(m) = IF t.from + 1 <= t.to THEN t.to - (t.from + 1) + 1 ELSE 0
      BY <2>2, <3>1
    <3>3. t.from + 1 \in 1..Len(t.line) /\ t.to \in 1..Len(t.line)
      BY <2>2, <3>1, <3>2
    <3> QED BY <3>1, <3>3 DEF Has
  <2>4. CASE h.kind \in {"class", "empty", "look"}
    <3>1. Parts(h) = {}
      BY <2>4 DEF Parts
    <3> QED BY ZenonT(60), <2>4, <3>1, CollectDef
  <2>5. CASE h.kind = "concat"
    <3>1. h.subs \in Seq(Hirs) /\ Parts(h) = {h.subs[i] : i \in DOMAIN h.subs}
      BY <2>2, <2>5 DEF IsHir, Parts
    <3>2. PICK cut \in Cuts(t.from, t.to, Len(h.subs)) :
             \A i \in DOMAIN h.subs : Span(t.line, cut[i - 1], cut[i]) \in Language[h.subs[i]]
      BY <2>2, <2>5 DEF Accepts
    <3>3. \A e \in Parts(h) : ~SkipsLiterals[e]
      BY <2>5, SkipsDef
    <3>4. CASE m \in Long(Flushed(h.subs))
      BY <2>2, <3>1, <3>2, <3>4, FlushedIsThere
    <3>5. CASE m \notin Long(Flushed(h.subs))
      <4>1. PICK i \in DOMAIN h.subs : m \in CollectLiterals[h.subs[i]]
        <5>1. CollectLiterals[h] = Long(Flushed(h.subs))
                 \cup UNION {CollectLiterals[e] : e \in {p \in Parts(h) : ~IsLiteral(p)}}
          BY <2>5, CollectDef
        <5>2. PICK e \in Parts(h) : m \in CollectLiterals[e]
          BY <3>5, <5>1
        <5> QED BY <3>1, <5>2
      <4>2. Has(Span(t.line, cut[i - 1], cut[i]).line, m)
        BY <2>1, <3>1, <3>2, <3>3, <4>1 DEF InAll
      <4> QED BY <4>2 DEF Span
    <3> QED BY <3>4, <3>5
  <2>6. CASE h.kind = "alternation"
    <3>1. CollectLiterals[h] = {}
      BY <2>6, SkipsDef
    <3> QED BY <3>1
  <2>7. CASE h.kind = "capture"
    <3>1. Parts(h) = {h.sub}
      BY <2>7 DEF Parts
    <3>2. m \in CollectLiterals[h.sub] /\ ~SkipsLiterals[h.sub]
      <4>1. CollectLiterals[h] = UNION {CollectLiterals[e] : e \in Parts(h)}
        BY <2>7, CollectDef
      <4>2. \A e \in Parts(h) : ~SkipsLiterals[e]
        BY <2>7, SkipsDef
      <4> QED BY <3>1, <4>1, <4>2
    <3>3. t \in Language[h.sub]
      BY <2>2, <2>7 DEF Accepts
    <3> QED BY <2>1, <3>1, <3>2, <3>3 DEF InAll
  <2>8. CASE h.kind = "repetition"
    <3>1. Parts(h) = {h.sub} /\ h.min \in Nat /\ h.max \in Nat
      BY <2>2, <2>8 DEF Parts, IsHir
    <3>2. h.min # 0
      BY <2>8, SkipsDef
    <3>3. m \in CollectLiterals[h.sub] /\ ~SkipsLiterals[h.sub]
      <4>1. CollectLiterals[h] = UNION {CollectLiterals[e] : e \in Parts(h)}
        BY <2>8, CollectDef
      <4>2. \A e \in Parts(h) : ~SkipsLiterals[e]
        BY <2>8, <3>2, SkipsDef
      <4> QED BY <3>1, <4>1, <4>2
    <3>4. PICK n \in h.min..h.max : \E cut \in Cuts(t.from, t.to, n) : \A i \in 1..n :
             Span(t.line, cut[i - 1], cut[i]) \in Language[h.sub]
      BY <2>2, <2>8 DEF Accepts
    <3>5. n \in Nat /\ 1 \in 1..n
      BY <3>1, <3>2
    <3>6. PICK cut \in Cuts(t.from, t.to, n) : Span(t.line, cut[1 - 1], cut[1]) \in Language[h.sub]
      BY <3>4, <3>5
    <3>7. Has(Span(t.line, cut[1 - 1], cut[1]).line, m)
      BY <2>1, <3>1, <3>3, <3>6 DEF InAll
    <3> QED BY <3>7 DEF Span
  <2> QED BY <2>2, <2>3, <2>4, <2>5, <2>6, <2>7, <2>8 DEF IsHir
<1>2. Hirs \subseteq P
  <2> HIDE DEF P
  <2> QED BY <1>1, HirsAreTrees, RankInduction
<1> QED BY <1>2

-----------------------------------------------------------------------------
\* The trigrams of a part of a text are trigrams of the text.
LEMMA ExtractPart ==
  ASSUME NEW S, NEW text \in Seq(S), NEW i \in 1..Len(text), NEW j \in 1..Len(text)
  PROVE  Extract(SubSeq(text, i, j)) \subseteq Extract(text)
  <1> DEFINE part == SubSeq(text, i, j)
  <1> SUFFICES ASSUME NEW k \in 1..(Len(part) - 2)
               PROVE  SubSeq(part, k, k + 2) \in Extract(text)
    BY DEF Extract
  <1>1. /\ Len(part) = IF i <= j THEN j - i + 1 ELSE 0
        /\ part \in Seq(S)
        /\ \A m \in 1..Len(part) : part[m] = text[i + m - 1]
    OBVIOUS
  <1>2. i + k - 1 \in 1..(Len(text) - 2)
    BY <1>1
  <1>3. SubSeq(part, k, k + 2) = SubSeq(text, i + k - 1, (i + k - 1) + 2)
    <2> DEFINE a == SubSeq(part, k, k + 2)
               b == SubSeq(text, i + k - 1, (i + k - 1) + 2)
    <2>1. a \in Seq(S) /\ b \in Seq(S) /\ Len(a) = 3 /\ Len(b) = 3
      BY <1>1, <1>2
    <2>2. ASSUME NEW m \in 1..3 PROVE a[m] = b[m]
      <3>1. k + m - 1 \in 1..Len(part) /\ a[m] = part[k + m - 1]
        BY <1>1, <2>1
      <3>2. b[m] = text[(i + k - 1) + m - 1]
        BY <1>2, <2>1
      <3>3. i + (k + m - 1) - 1 = (i + k - 1) + m - 1
        OBVIOUS
      <3> HIDE DEF a, b, part
      <3> QED BY <1>1, <3>1, <3>2, <3>3
    <2> QED
      BY <2>1, <2>2, SeqEqual
  <1> QED
    BY <1>2, <1>3 DEF Extract

\* The candidates of a set of trigrams are the documents that contain them all.
LEMMA CandidatesContainAll ==
  ASSUME NEW texts, NEW trigrams, trigrams # {}, NEW d \in DOMAIN texts
  PROVE  d \in SearchTrigrams(Build(texts), trigrams) <=> trigrams \subseteq Extract(texts[d])
  <1> DEFINE index == Build(texts)
  <1>1. /\ DOMAIN index = UNION {Extract(texts[e]) : e \in DOMAIN texts}
        /\ \A t \in DOMAIN index : index[t] = {e \in DOMAIN texts : t \in Extract(texts[e])}
    BY DEF Build
  <1> HIDE DEF index
  <1>2. ASSUME trigrams \subseteq Extract(texts[d])
        PROVE  d \in SearchTrigrams(index, trigrams)
    <2>1. trigrams \subseteq DOMAIN index
      BY <1>1, <1>2
    <2>2. \A t \in trigrams : d \in index[t]
      BY <1>1, <1>2, <2>1
    <2> QED
      BY <2>1, <2>2 DEF SearchTrigrams
  <1>3. ASSUME d \in SearchTrigrams(index, trigrams)
        PROVE  trigrams \subseteq Extract(texts[d])
    <2>1. trigrams \subseteq DOMAIN index /\ \A t \in trigrams : d \in index[t]
      BY <1>3 DEF SearchTrigrams
    <2> QED
      BY <1>1, <2>1
  <1> QED
    BY <1>2, <1>3 DEF index

\* The lines of a text are parts of it.
LEMMA LinesAreParts ==
  ASSUME NEW S, NEW text \in Seq(S)
  PROVE  /\ Lines(text) \in Seq(Seq(S))
         /\ \A k \in DOMAIN Lines(text) : \E a, b \in 0..Len(text) :
              Lines(text)[k] = SubSeq(text, a + 1, b)
<1>0. PICK n \in Nat : n = Len(text)
  OBVIOUS
<1> DEFINE V == {q \in Seq(0..n) : q # <<>> /\ \A j \in 2..Len(q) : q[j] # 0}
           none == <<0>>
           more(q, k) == IF text[k] = Newline THEN Append(q, k) ELSE q
           step == [k \in 1..n |-> [q \in V |-> more(q, k)]]
           upto[k \in 0..Len(text)] ==
              IF k = 0 THEN <<0>>
              ELSE IF text[k] = Newline THEN Append(upto[k - 1], k) ELSE upto[k - 1]
           starts == upto[Len(text)]
           end(m) ==
              IF m = Len(starts) THEN Len(text)
              ELSE LET e == starts[m + 1] - 1
                   IN  IF e > starts[m] /\ text[e] = CarriageReturn THEN e - 1 ELSE e
           count == IF Last(starts) = Len(text) THEN Len(starts) - 1 ELSE Len(starts)
<1>1. Lines(text) = [m \in 1..count |-> SubSeq(text, starts[m] + 1, end(m))]
  BY Zenon DEF Lines
<1> HIDE DEF upto
<1>2. ASSUME NEW k \in 1..n, NEW q \in V PROVE more(q, k) \in V
  <2>1. Append(q, k) \in V
    <3>1. /\ Append(q, k) \in Seq(0..n) /\ Len(Append(q, k)) = Len(q) + 1
          /\ \A j \in 1..Len(q) : Append(q, k)[j] = q[j]
          /\ Append(q, k)[Len(q) + 1] = k
      BY AppendProperties
    <3>2. ASSUME NEW j \in 2..(Len(q) + 1) PROVE Append(q, k)[j] # 0
      <4>1. j \in 2..Len(q) \/ j = Len(q) + 1
        OBVIOUS
      <4> QED BY <3>1, <4>1
    <3>3. PICK r \in Seq(0..n) : r = Append(q, k) /\ Len(r) = Len(q) + 1
      BY <3>1
    <3>4. r # <<>>
      BY <3>3
    <3> QED BY <3>2, <3>3, <3>4
  <2> QED BY <2>1
<1>3. none \in V
  OBVIOUS
<1>4. PICK f : Iterates(f, step, n, V, none)
  <2>1. step \in [1..n -> [V -> V]]
    BY <1>2
  <2> HIDE DEF step, V, none
  <2>2. IsStep(step, n, V, none)
    BY <1>3, <2>1 DEF IsStep
  <2> QED BY <2>2, StepRecursion
<1>5. f = [k \in 0..n |-> IF k = 0 THEN none ELSE more(f[k - 1], k)]
  <2>1. ASSUME NEW k \in 1..n PROVE f[k] = more(f[k - 1], k)
    <3>1. f[k - 1] \in V
      <4>1. k - 1 \in 0..n
        OBVIOUS
      <4> HIDE DEF V
      <4> QED BY <1>4, <4>1 DEF Iterates
    <3> HIDE DEF V, more
    <3> QED BY <1>4, <3>1 DEF Iterates
  <2> HIDE DEF step, V, more, none
  <2>2. \A k \in 0..n : f[k] = IF k = 0 THEN none ELSE more(f[k - 1], k)
    BY <1>4, <2>1 DEF Iterates
  <2> QED BY <1>4, <2>2 DEF Iterates
<1>6. upto = [k \in 0..n |-> IF k = 0 THEN none ELSE more(upto[k - 1], k)]
  BY <1>0, <1>5, Zenon DEF upto, more, none
<1> DEFINE P == {k \in Nat : k <= n => upto[k] \in V}
<1>7. 0 \in P
  <2> HIDE DEF V, none, more
  <2>1. upto[0] = none
    BY <1>6
  <2> QED BY <1>3, <2>1
<1>8. ASSUME NEW k \in Nat, k \in P PROVE k + 1 \in P
  <2> SUFFICES ASSUME k + 1 <= n PROVE upto[k + 1] \in V
    OBVIOUS
  <2>1. k + 1 \in 1..n /\ k + 1 \in 0..n /\ k + 1 # 0 /\ (k + 1) - 1 = k /\ k <= n
    OBVIOUS
  <2>2. upto[k] \in V
    BY <1>8, <2>1
  <2> HIDE DEF V, more
  <2>3. upto[k + 1] = more(upto[k], k + 1)
    BY <1>6, <2>1
  <2> QED BY <1>2, <2>1, <2>2, <2>3
<1>9. starts \in V
  <2> HIDE DEF P, V
  <2>1. n \in Nat /\ Nat \subseteq P
    BY <1>7, <1>8, Induction
  <2> QED BY <1>0, <2>1 DEF P
<1> HIDE DEF starts
<1>10. PICK L \in Nat : L = Len(starts) /\ L >= 1 /\ starts \in Seq(0..n)
  BY <1>9
<1>11. count \in 0..L
  BY <1>10
<1>12. ASSUME NEW m \in 1..L PROVE starts[m] \in 0..n /\ end(m) \in 0..n
  <2>1. starts[m] \in 0..n /\ (m # L => starts[m + 1] \in 1..n)
    <3>1. starts[m] \in 0..n
      BY <1>10
    <3>2. m # L => m + 1 \in 2..L /\ m + 1 \in 1..L
      OBVIOUS
    <3>3. m # L => starts[m + 1] \in 0..n /\ starts[m + 1] # 0
      BY <1>9, <1>10, <3>2
    <3> QED BY <3>1, <3>3
  <2>2. CASE m = L
    BY <1>0, <1>10, <2>1, <2>2
  <2>3. CASE m # L
    <3>1. PICK e \in 0..n : e = starts[m + 1] - 1
      BY <2>1, <2>3
    <3>2. end(m) = IF e > starts[m] /\ text[e] = CarriageReturn THEN e - 1 ELSE e
      BY <1>10, <2>3, <3>1
    <3> QED BY <2>1, <3>1, <3>2
  <2> QED BY <2>2, <2>3
<1> HIDE DEF V, end, count
<1>13. ASSUME NEW a \in 0..n, NEW b \in 0..n PROVE SubSeq(text, a + 1, b) \in Seq(S)
  <2>1. \A i \in (a + 1)..b : text[i] \in S
    BY <1>0
  <2> QED BY <2>1, SubSeqProperties
<1> DEFINE W == Seq(S)
<1>14. ASSUME NEW m \in 1..count PROVE SubSeq(text, starts[m] + 1, end(m)) \in W
  <2>1. m \in 1..L
    BY <1>11
  <2>2. PICK a \in 0..n, b \in 0..n : a = starts[m] /\ b = end(m)
    BY <1>12, <2>1
  <2>3. SubSeq(text, a + 1, b) \in Seq(S)
    BY <1>13
  <2> QED BY <2>2, <2>3
<1> HIDE DEF W
<1>15. count \in Nat /\ DOMAIN Lines(text) = 1..count
  BY <1>1, <1>11
<1>16. Lines(text) \in Seq(W)
  <2> DEFINE line(m) == SubSeq(text, starts[m] + 1, end(m))
  <2>1. \A m \in 1..count : line(m) \in W
    BY <1>14
  <2>2. Lines(text) = [m \in 1..count |-> line(m)]
    BY <1>1
  <2> HIDE DEF line
  <2> QED BY <1>15, <2>1, <2>2
<1>17. ASSUME NEW k \in DOMAIN Lines(text)
       PROVE  \E a, b \in 0..Len(text) : Lines(text)[k] = SubSeq(text, a + 1, b)
  <2>1. k \in 1..count /\ k \in 1..L
    BY <1>11, <1>15
  <2>2. Lines(text)[k] = SubSeq(text, starts[k] + 1, end(k))
    BY <1>1, <2>1
  <2> QED BY <1>0, <1>12, <2>1, <2>2
<1> QED BY <1>16, <1>17 DEF W

\* The trigrams of a line are trigrams of the text.
LEMMA ExtractLine ==
  ASSUME NEW S, NEW text \in Seq(S), NEW k \in DOMAIN Lines(text)
  PROVE  Lines(text)[k] \in Seq(S) /\ Extract(Lines(text)[k]) \subseteq Extract(text)
<1>1. PICK line : line = Lines(text)[k]
  OBVIOUS
<1>2. line \in Seq(S)
  <2> DEFINE W == Seq(S)
  <2> HIDE DEF W
  <2>1. Lines(text) \in Seq(W)
    BY LinesAreParts DEF W
  <2>2. line \in W
    BY <1>1, <2>1
  <2> QED BY <2>2 DEF W
<1>3. PICK a \in 0..Len(text), b \in 0..Len(text) : line = SubSeq(text, a + 1, b)
  BY <1>1, LinesAreParts
<1>4. CASE a + 1 <= b
  <2>1. a + 1 \in 1..Len(text) /\ b \in 1..Len(text)
    BY <1>4
  <2> QED BY <1>1, <1>2, <1>3, <2>1, ExtractPart
<1>5. CASE ~(a + 1 <= b)
  <2>1. line = <<>>
    BY <1>3, <1>5, SubSeqEmpty
  <2> QED BY <1>1, <1>2, <2>1 DEF Extract
<1> QED BY <1>4, <1>5

\* A pattern on a line has only trigrams of the line.
LEMMA ExtractHas ==
  ASSUME NEW S, NEW line \in Seq(S), NEW l, Has(line, l)
  PROVE  Extract(l) \subseteq Extract(line)
  BY ExtractPart DEF Has

\* Lower case, character by character.
LEMMA LowerCaseDef ==
  ASSUME NEW text \in Seq(Characters)
  PROVE  /\ LowerCase(text) \in Seq(Characters) /\ Len(LowerCase(text)) = Len(text)
         /\ \A k \in 1..Len(text) : LowerCase(text)[k] = Lower[text[k]] /\ text[k] \in Characters
<1>1. /\ DOMAIN text = 1..Len(text) /\ Len(text) \in Nat
      /\ \A k \in 1..Len(text) : text[k] \in Characters /\ Lower[text[k]] \in Characters
  BY QueryPlanConstants
<1>2. LowerCase(text) \in [1..Len(text) -> Characters]
  BY <1>1 DEF LowerCase
<1> QED BY <1>1, <1>2 DEF LowerCase

\* Where a literal without letters is found without case, it is found as it is written.
LEMMA OneCaseIsEnough ==
  ASSUME NEW pattern \in Seq(Characters), NEW text \in Seq(Characters),
         \A j \in DOMAIN pattern, c \in DOMAIN Lower : Lower[c] = Lower[pattern[j]] => c = pattern[j],
         Has(LowerCase(text), LowerCase(pattern))
  PROVE  LowerCase(pattern) = pattern /\ Has(text, pattern)
<1> DEFINE low  == LowerCase(text)
           lowp == LowerCase(pattern)
<1>1. /\ lowp \in Seq(Characters) /\ Len(lowp) = Len(pattern)
      /\ \A k \in 1..Len(pattern) : lowp[k] = Lower[pattern[k]] /\ pattern[k] \in Characters
      /\ low \in Seq(Characters) /\ Len(low) = Len(text)
      /\ \A k \in 1..Len(text) : low[k] = Lower[text[k]] /\ text[k] \in Characters
  BY LowerCaseDef
<1>0. Has(low, lowp)
  OBVIOUS
<1> HIDE DEF low, lowp
<1>2. \A k \in 1..Len(pattern) : lowp[k] = pattern[k]
  BY <1>1, QueryPlanConstants DEF Characters
<1>3. lowp = pattern
  BY <1>1, <1>2, SeqEqual
<1>4. PICK i \in 1..Len(text), j \in 1..Len(text) : pattern = SubSeq(low, i, j)
  BY <1>0, <1>1, <1>3 DEF Has
<1> DEFINE part == SubSeq(text, i, j)
<1>5. /\ part \in Seq(Characters) /\ Len(part) = IF i <= j THEN j - i + 1 ELSE 0
      /\ \A k \in 1..Len(part) : part[k] = text[i + k - 1]
  BY <1>4
<1>6. /\ Len(pattern) = IF i <= j THEN j - i + 1 ELSE 0
      /\ \A k \in 1..Len(pattern) : pattern[k] = low[i + k - 1]
  BY <1>1, <1>4
<1> HIDE DEF part
<1>7. ASSUME NEW k \in 1..Len(part) PROVE part[k] = pattern[k]
  <2>1. k \in 1..Len(pattern) /\ i + k - 1 \in 1..Len(text)
    BY <1>5, <1>6
  <2>2. Lower[text[i + k - 1]] = pattern[k] /\ text[i + k - 1] \in DOMAIN Lower
    BY <1>1, <1>6, <2>1 DEF Characters
  <2>3. Lower[pattern[k]] = pattern[k]
    BY <1>1, <1>2, <2>1
  <2>4. k \in DOMAIN pattern
    BY <2>1
  <2>5. text[i + k - 1] = pattern[k]
    BY <2>2, <2>3, <2>4
  <2> QED BY <1>5, <2>5
<1>8. part = pattern
  BY <1>5, <1>6, <1>7, SeqEqual
<1> QED BY <1>3, <1>8 DEF part, low, lowp, Has

\* Every trigram a query is looked up by is in every text the query matches.
LEMMA FilterIsComplete ==
  ASSUME IsQuery(query), NeedsItsLiterals, NEW text \in Seq(Characters), Matches(query, text)
  PROVE  QueryTrigrams(query) \subseteq Extract(text)
<1>0. PICK k \in DOMAIN Lines(text) : MatchesLine(query, Lines(text)[k])
  BY DEF Matches
<1>1. PICK line \in Seq(Characters) : MatchesLine(query, line) /\ Extract(line) \subseteq Extract(text)
  BY <1>0, ExtractLine
<1>2. CASE query.regex
  <2>1. query.hir \in Hirs /\ ~SkipsLiterals[query.hir]
    BY <1>2 DEF IsQuery, NeedsItsLiterals
  <2>2. PICK s \in Language[query.hir] : s.line = line
    BY <1>1, <1>2 DEF MatchesLine, Span
  <2>3. ASSUME NEW l \in CollectLiterals[query.hir]
        PROVE  Extract(IF query.i THEN LowerCase(l) ELSE l) \subseteq Extract(line)
    <3>1. (IF query.i THEN LowerCase(l) ELSE l) = l
      BY <1>2 DEF NeedsItsLiterals
    <3>2. Has(line, l)
      BY <2>1, <2>2, LiteralsAreInMatches
    <3> QED BY <3>1, <3>2, ExtractHas
  <2>4. QueryTrigrams(query) \subseteq Extract(line)
    BY <1>2, <2>3 DEF QueryTrigrams
  <2> QED BY <1>1, <2>4
<1>3. CASE ~query.regex /\ ~query.i
  <2>1. Has(line, query.text)
    BY <1>1, <1>3 DEF MatchesLine
  <2>2. Extract(query.text) \subseteq Extract(line)
    BY <2>1, ExtractHas
  <2> QED BY <1>1, <1>3, <2>2 DEF QueryTrigrams
<1>4. CASE ~query.regex /\ query.i
  <2>1. query.text \in Seq(Characters)
    BY <1>4 DEF IsQuery
  <2>2. Has(LowerCase(line), LowerCase(query.text))
    BY <1>1, <1>4 DEF MatchesLine
  <2>3. LowerCase(query.text) = query.text /\ Has(line, query.text)
    BY <1>4, <2>1, <2>2, OneCaseIsEnough DEF NeedsItsLiterals
  <2>4. Extract(query.text) \subseteq Extract(line)
    BY <2>3, ExtractHas
  <2> QED BY <1>1, <1>4, <2>3, <2>4 DEF QueryTrigrams
<1> QED BY <1>2, <1>3, <1>4 DEF IsQuery

-----------------------------------------------------------------------------
\* A search is a request of SearchStream whose candidates and findings are those
\* of the query and the documents.
THEOREM SearchIsRequest == SearchSpec => Spec
<1>1. SearchInit => Init
  <2> SUFFICES ASSUME SearchInit PROVE Init
    OBVIOUS
  <2>1. limit \in Nat
    BY SearchConstants DEF SearchInit
  <2>2. ranges \in [Docs -> Seq(Nat \ {0})]
    <3> DEFINE Ranges == Seq(Nat \ {0})
    <3>1. <<>> \in Ranges
      OBVIOUS
    <3> HIDE DEF Ranges
    <3>2. Findings \subseteq Ranges
      BY SearchConstants DEF Ranges
    <3>3. ranges \in [Docs -> Ranges]
      BY <3>1, <3>2 DEF SearchInit
    <3> QED BY <3>3 DEF Ranges
  <2>3. candidates \in SUBSET Docs
    <3>1. ASSUME NEW r \in Readers, NEW d \in SearchTrigrams(IndexOf(r), QueryTrigrams(query))
          PROVE  d \in Docs
      BY <3>1 DEF SearchTrigrams, IndexOf, Build
    <3> QED BY <3>1 DEF SearchInit
  <2> QED BY <2>1, <2>2, <2>3 DEF SearchInit, Init
<1>2. [SearchNext]_searchVars => [Next]_vars
  BY DEF SearchNext, searchVars
<1> QED BY <1>1, <1>2, PTL DEF SearchSpec, Spec

\* What is fixed while a search runs; and only a query with a plan goes on.
AskedInv ==
    /\ query \in Queries /\ content \in Contents
    /\ candidates = UNION {SearchTrigrams(IndexOf(r), QueryTrigrams(query)) : r \in Readers}
    /\ \A d \in Docs : ranges[d] # <<>> <=> Matches(query, content[d])
    /\ stage \notin {"received", "refused"} => Planned

\* What is asked, and what was read of the files, does not change while the search runs.
LEMMA AskedStays == SearchSpec => []AskedInv
<1>1. SearchInit => AskedInv
  BY DEF SearchInit, AskedInv, Idle
<1>2. AskedInv /\ [SearchNext]_searchVars => AskedInv'
  <2> SUFFICES ASSUME AskedInv, [SearchNext]_searchVars PROVE AskedInv'
    OBVIOUS
  <2>1. UNCHANGED <<candidates, ranges>>
    BY SameRequest DEF SearchNext, searchVars
  <2>2. UNCHANGED <<query, content>>
    BY DEF SearchNext, searchVars, asked
  <2>3. Planned' <=> Planned
    BY <2>2 DEF Planned
  <2>4. stage = "refused" => stage' = "refused"
    BY DEF SearchNext, searchVars, vars, Next, Handler, Reading, Refuse, SearchAll, Respond, SpawnTask,
           Spawn, StartJoining, Join, SendDone, ExecuteStep, TaskResult, TaskPanics, SendResult, Receive,
           EndOfStream, Disconnect
  <2>5. stage' \notin {"received", "refused"} => Planned'
    <3>1. CASE SearchNext
      BY <2>3, <2>4, <3>1 DEF SearchNext, AskedInv
    <3>2. CASE UNCHANGED searchVars
      BY <2>3, <3>2 DEF AskedInv, searchVars, vars
    <3> QED BY <3>1, <3>2
  <2>6. /\ (query \in Queries /\ content \in Contents)'
        /\ (candidates = UNION {SearchTrigrams(IndexOf(r), QueryTrigrams(query)) : r \in Readers})'
        /\ (\A d \in Docs : ranges[d] # <<>> <=> Matches(query, content[d]))'
    BY <2>1, <2>2 DEF AskedInv, IndexOf
  <2> QED BY <2>5, <2>6 DEF AskedInv
<1> QED BY <1>1, <1>2, PTL DEF SearchSpec

\* No file with a match is passed over by the filter, for every query whose
\* collected literals are needed and all texts.
THEOREM FilterIsSound == SearchSpec => []FilterKeepsMatches
<1>1. AskedInv => FilterKeepsMatches
  <2> SUFFICES ASSUME AskedInv, Planned, NeedsItsLiterals, NEW text \in Texts, Matches(query, text),
                      NEW d \in Docs
               PROVE  d \in SearchTrigrams(Build([content EXCEPT ![d] = text]), QueryTrigrams(query))
    BY DEF FilterKeepsMatches
  <2>1. IsQuery(query) /\ text \in Seq(Characters) /\ DOMAIN content = Docs
    BY SearchConstants DEF AskedInv
  <2>2. QueryTrigrams(query) \subseteq Extract(text) /\ QueryTrigrams(query) # {}
    BY <2>1, FilterIsComplete DEF Planned
  <2> DEFINE changed == [content EXCEPT ![d] = text]
  <2>3. d \in DOMAIN changed /\ changed[d] = text
    BY <2>1
  <2> HIDE DEF changed
  <2>4. d \in SearchTrigrams(Build(changed), QueryTrigrams(query))
    BY <2>2, <2>3, CandidatesContainAll
  <2> QED BY <2>4 DEF changed
<1> QED BY <1>1, AskedStays, PTL

\* An answer that does not call itself truncated is complete.
THEOREM AnswerIsComplete == SearchSpec => []CompleteAnswer
<1>1. AskedInv /\ ExecInv /\ TruncationIsHonest => CompleteAnswer
  <2> SUFFICES ASSUME AskedInv, ExecInv, TruncationIsHonest, NeedsItsLiterals, limit > 0,
                      stage = "responded", ~response.truncated
               PROVE  response.files = {d \in Docs : ReaderOf[d] \in selected /\ Matches(query, content[d])}
    BY DEF CompleteAnswer, FindsEveryMatch
  <2>1. response.files = UNION {Matching(r) : r \in selected}
    BY DEF TruncationIsHonest
  <2>2. /\ IsQuery(query) /\ QueryTrigrams(query) # {}
        /\ DOMAIN content = Docs /\ \A d \in Docs : content[d] \in Seq(Characters)
    BY SearchConstants DEF AskedInv, Planned
  <2>3. ASSUME NEW d \in Docs, Matches(query, content[d])
        PROVE  d \in candidates
    <3> DEFINE held == [e \in {e \in Docs : ReaderOf[e] = ReaderOf[d]} |-> content[e]]
    <3>1. d \in DOMAIN held /\ held[d] = content[d]
      OBVIOUS
    <3>2. QueryTrigrams(query) \subseteq Extract(content[d])
      BY <2>2, <2>3, FilterIsComplete
    <3>3. Build(held) = IndexOf(ReaderOf[d])
      BY DEF IndexOf
    <3> HIDE DEF held
    <3>4. d \in SearchTrigrams(IndexOf(ReaderOf[d]), QueryTrigrams(query))
      BY <2>2, <3>1, <3>2, <3>3, CandidatesContainAll
    <3>5. ReaderOf[d] \in Readers
      BY SearchExecutionConstants
    <3> QED BY <3>4, <3>5 DEF AskedInv
  <2>4. candidates \subseteq Docs
    BY DEF ExecInv, ExecTypeOK
  <2>5. \A d : d \in response.files <=>
          d \in candidates /\ ReaderOf[d] \in selected /\ ranges[d] # <<>>
    BY <2>1 DEF Matching, CandidatesOf
  <2> QED BY <2>3, <2>4, <2>5 DEF AskedInv
<1>2. SearchSpec => [](ExecInv /\ TruncationIsHonest)
  BY SearchIsRequest, AnswersExact, TruncationIsReported, PTL
<1> QED BY <1>1, <1>2, AskedStays, PTL

-----------------------------------------------------------------------------
\* The characters of texts.
AllChars == DOMAIN ToLower

\* The lower case of one more character follows that of the others.
LEMMA LowerOfMore ==
  ASSUME NEW text \in Seq(AllChars), NEW c \in AllChars
  PROVE  /\ InLowerCase(Append(text, c)) = InLowerCase(text) \o ToLower[c]
         /\ InLowerCase(text) \in Seq(AllChars)
         /\ ToLower[c] \in Seq(AllChars) /\ Len(ToLower[c]) >= 1
<1> DEFINE W == Seq(AllChars)
           parts(t) == [i \in DOMAIN t |-> ToLower[t[i]]]
<1>1. \A b \in AllChars : ToLower[b] \in W /\ ToLower[b] # <<>>
  BY LineMatchesConstants DEF AllChars
<1>2. ASSUME NEW t \in Seq(AllChars) PROVE parts(t) \in Seq(W)
  <2> HIDE DEF W
  <2> QED BY <1>1
<1>3. parts(Append(text, c)) = Append(parts(text), ToLower[c])
  <2>1. \A i \in 1..Len(text) : text[i] \in AllChars
    OBVIOUS
  <2> HIDE DEF W
  <2>2. /\ parts(Append(text, c)) \in Seq(W) /\ Append(parts(text), ToLower[c]) \in Seq(W)
        /\ Len(parts(Append(text, c))) = Len(text) + 1
        /\ Len(Append(parts(text), ToLower[c])) = Len(text) + 1
    BY <1>1, <1>2
  <2>3. ASSUME NEW k \in 1..(Len(text) + 1)
        PROVE  parts(Append(text, c))[k] = Append(parts(text), ToLower[c])[k]
    BY <1>1, <1>2
  <2> HIDE DEF parts
  <2> QED BY <2>2, <2>3, SeqEqual
<1>4. parts(text) \in Seq(W) /\ ToLower[c] \in W
  BY <1>1, <1>2
<1> HIDE DEF parts
<1>5. /\ FlattenSeq(Append(parts(text), ToLower[c])) = FlattenSeq(parts(text)) \o ToLower[c]
      /\ FlattenSeq(parts(text)) \in Seq(AllChars)
  BY <1>4, FlattenAppend
<1>6. \A t \in Seq(AllChars) : InLowerCase(t) = FlattenSeq(parts(t))
  BY DEF InLowerCase, parts
<1>7. Append(text, c) \in Seq(AllChars)
  OBVIOUS
<1>8. Len(ToLower[c]) >= 1
  BY <1>1
<1> QED BY <1>3, <1>4, <1>5, <1>6, <1>7, <1>8

\* The lower case of a text is a text, and there is some of it if there is some
\* of the text.
LEMMA LowerIsText ==
  ASSUME NEW text \in Seq(AllChars)
  PROVE  InLowerCase(text) \in Seq(AllChars) /\ (text # <<>> => InLowerCase(text) # <<>>)
<1>1. CASE text = <<>>
  <2>1. InLowerCase(text) = <<>>
    <3> DEFINE parts == [i \in DOMAIN text |-> ToLower[text[i]]]
    <3>1. parts = <<>>
      BY <1>1
    <3> HIDE DEF parts
    <3>2. FlattenSeq(parts) = <<>>
      BY <3>1 DEF FlattenSeq
    <3> QED BY <3>2 DEF InLowerCase, parts
  <2> QED BY <1>1, <2>1
<1>2. CASE text # <<>>
  <2>1. PICK t \in Seq(AllChars), c \in AllChars : text = Append(t, c)
    <3>1. /\ SubSeq(text, 1, Len(text) - 1) \in Seq(AllChars) /\ text[Len(text)] \in AllChars
          /\ text = Append(SubSeq(text, 1, Len(text) - 1), text[Len(text)])
      BY <1>2
    <3> QED BY <3>1
  <2>2. /\ InLowerCase(text) = InLowerCase(t) \o ToLower[c]
        /\ InLowerCase(t) \in Seq(AllChars)
        /\ ToLower[c] \in Seq(AllChars) /\ Len(ToLower[c]) >= 1
    BY <2>1, LowerOfMore
  <2>3. /\ InLowerCase(t) \o ToLower[c] \in Seq(AllChars)
        /\ Len(InLowerCase(t) \o ToLower[c]) = Len(InLowerCase(t)) + Len(ToLower[c])
    BY <2>2, ConcatProperties
  <2>4. Len(InLowerCase(t)) \in Nat /\ Len(InLowerCase(text)) # 0
    BY <2>2, <2>3
  <2> QED BY <2>2, <2>3, <2>4
<1> QED BY <1>1, <1>2

\* Where it has a character for each, they are those of the characters.
LEMMA LowerOneToOne ==
  ASSUME NEW text \in Seq(AllChars), OneToOne(text)
  PROVE  /\ Len(InLowerCase(text)) = Len(text)
         /\ \A k \in 1..Len(text) : InLowerCase(text)[k] = ToLower[text[k]][1]
<1>0. PICK n \in Nat : n = Len(text)
  OBVIOUS
<1> DEFINE low(k) == InLowerCase(SubSeq(text, 1, k))
           Right(k) == /\ low(k) \in Seq(AllChars) /\ Len(low(k)) = k
                       /\ \A j \in 1..k : low(k)[j] = ToLower[text[j]][1]
           P == {k \in Nat : k <= n => Right(k)}
<1>1. 0 \in P
  <2>1. SubSeq(text, 1, 0) = <<>> /\ <<>> \in Seq(AllChars)
    OBVIOUS
  <2>2. InLowerCase(<<>>) = <<>>
    <3> DEFINE parts == [i \in DOMAIN <<>> |-> ToLower[(<<>>)[i]]]
    <3>1. parts = <<>>
      OBVIOUS
    <3> HIDE DEF parts
    <3>2. FlattenSeq(parts) = <<>>
      BY <3>1 DEF FlattenSeq
    <3> QED BY <3>2 DEF InLowerCase, parts
  <2>3. low(0) = <<>>
    BY <2>1, <2>2
  <2> HIDE DEF low
  <2>4. low(0) \in Seq(AllChars) /\ Len(low(0)) = 0
    BY <2>1, <2>3
  <2>5. Right(0)
    BY <2>4
  <2> HIDE DEF Right
  <2> QED BY <2>5
<1>2. ASSUME NEW k \in Nat, k \in P PROVE k + 1 \in P
  <2> SUFFICES ASSUME k + 1 <= n PROVE Right(k + 1)
    OBVIOUS
  <2>1. Right(k)
    BY <1>2
  <2>2. PICK c \in AllChars : c = text[k + 1]
    BY <1>0
  <2>3. /\ SubSeq(text, 1, k) \in Seq(AllChars)
        /\ SubSeq(text, 1, k + 1) = Append(SubSeq(text, 1, k), c)
    BY <1>0, <2>2
  <2>4. /\ low(k + 1) = low(k) \o ToLower[c] /\ low(k) \in Seq(AllChars)
        /\ ToLower[c] \in Seq(AllChars)
    BY <2>3, LowerOfMore
  <2>5. Len(ToLower[c]) = 1
    BY <1>0, <2>2 DEF OneToOne
  <2> HIDE DEF low
  <2>6. PICK u \in Seq(AllChars), v \in Seq(AllChars) : u = low(k) /\ v = ToLower[c]
    BY <2>4
  <2>7. /\ u \o v \in Seq(AllChars) /\ Len(u \o v) = Len(u) + Len(v)
        /\ \A j \in 1..(Len(u) + Len(v)) : (u \o v)[j] = IF j <= Len(u) THEN u[j] ELSE v[j - Len(u)]
    BY ConcatProperties
  <2>8. low(k + 1) = u \o v /\ Len(u) = k /\ Len(v) = 1
    BY <2>1, <2>4, <2>5, <2>6
  <2>9. ASSUME NEW j \in 1..(k + 1) PROVE low(k + 1)[j] = ToLower[text[j]][1]
    <3>1. CASE j = k + 1
      <4>1. (u \o v)[j] = v[1]
        BY <2>7, <2>8, <3>1
      <4> QED BY <2>2, <2>6, <2>8, <3>1, <4>1
    <3>2. CASE j # k + 1
      <4>1. j \in 1..k /\ (u \o v)[j] = u[j]
        BY <2>7, <2>8, <3>2
      <4> QED BY <2>1, <2>6, <2>8, <4>1
    <3> QED BY <3>1, <3>2
  <2> QED BY <2>7, <2>8, <2>9
<1>3. Right(n)
  <2> HIDE DEF P
  <2>1. Nat \subseteq P
    BY <1>1, <1>2, Induction
  <2> QED BY <2>1 DEF P
<1>4. SubSeq(text, 1, n) = text
  BY <1>0
<1> QED BY <1>0, <1>3, <1>4

\* Then the lower case of a part is that part of the lower case.
LEMMA LowerOfPart ==
  ASSUME NEW text \in Seq(AllChars), OneToOne(text),
         NEW a \in 0..Len(text), NEW b \in 0..Len(text)
  PROVE  InLowerCase(SubSeq(text, a + 1, b)) = SubSeq(InLowerCase(text), a + 1, b)
<1> DEFINE part == SubSeq(text, a + 1, b)
           low == InLowerCase(text)
           here == InLowerCase(part)
           there == SubSeq(low, a + 1, b)
<1>1. /\ part \in Seq(AllChars) /\ Len(part) = IF a + 1 <= b THEN b - a ELSE 0
      /\ \A k \in 1..Len(part) : part[k] = text[a + k] /\ a + k \in 1..Len(text)
  OBVIOUS
<1>2. OneToOne(part)
  <2>1. \A k \in 1..Len(part) : Len(ToLower[part[k]]) = 1
    <3>1. \A k \in 1..Len(text) : Len(ToLower[text[k]]) = 1
      BY DEF OneToOne
    <3> HIDE DEF part
    <3> QED BY <1>1, <3>1
  <2>2. DOMAIN part = 1..Len(part)
    BY <1>1
  <2> HIDE DEF part
  <2> QED BY <2>1, <2>2 DEF OneToOne
<1>3. /\ low \in Seq(AllChars) /\ Len(low) = Len(text)
      /\ \A k \in 1..Len(text) : low[k] = ToLower[text[k]][1]
  BY LowerOneToOne, LowerIsText
<1> HIDE DEF part, low
<1>4. /\ here \in Seq(AllChars) /\ Len(here) = Len(part)
      /\ \A k \in 1..Len(part) : here[k] = ToLower[part[k]][1]
  BY <1>1, <1>2, LowerOneToOne, LowerIsText
<1>5. /\ there \in Seq(AllChars) /\ Len(there) = IF a + 1 <= b THEN b - a ELSE 0
      /\ \A k \in 1..Len(there) : there[k] = low[a + k]
  BY SMTT(30), <1>3
<1>6. ASSUME NEW k \in 1..Len(here) PROVE here[k] = there[k]
  <2> HIDE DEF here, there
  <2>1. k \in 1..Len(part) /\ k \in 1..Len(there)
    BY <1>1, <1>4, <1>5
  <2>2. here[k] = ToLower[text[a + k]][1]
    BY <1>1, <1>4, <2>1
  <2>3. there[k] = ToLower[text[a + k]][1]
    BY <1>1, <1>3, <1>5, <2>1
  <2> QED BY <2>2, <2>3
<1> HIDE DEF here, there
<1>7. here = there
  BY <1>1, <1>4, <1>5, <1>6, SeqEqual
<1> QED BY <1>7 DEF here, there, part, low


-----------------------------------------------------------------------------
\* A set of numbers that is not empty has a least one.
LEMMA MinIsLeast ==
  ASSUME NEW S \in SUBSET Nat, S # {}
  PROVE  Min(S) \in S /\ \A x \in S : Min(S) <= x
<1>1. \E x \in S : \A y \in S : x <= y
  <2> SUFFICES ASSUME \A x \in S : \E y \in S : ~(x <= y) PROVE FALSE
    OBVIOUS
  <2> DEFINE rank == [x \in S |-> x]
             P == {x \in S : FALSE}
  <2>1. rank \in [S -> Nat]
    OBVIOUS
  <2>2. \A x \in S : (\A y \in S : rank[y] < rank[x] => y \in P) => x \in P
    OBVIOUS
  <2> HIDE DEF rank, P
  <2>3. S \subseteq P
    BY <2>1, <2>2, RankInduction
  <2> QED BY <2>3 DEF P
<1> QED BY <1>1 DEF Min

\* What the scan of a line for a needle finds: its occurrences from start on, one
\* after the other, so that every place of the needle is in one of them.
MarkRange == [from : Nat, to : Nat]
Finds(line, needle, start, found) ==
  /\ found \in Seq(MarkRange)
  /\ \A j \in 1..Len(found) :
       /\ found[j].from \in Places(line, needle) /\ found[j].from >= start
       /\ found[j].to = found[j].from + Len(needle)
  /\ \A j \in 1..(Len(found) - 1) : found[j].to <= found[j + 1].from
  /\ \A p \in Places(line, needle) : p >= start =>
       \E j \in 1..Len(found) : found[j].from <= p /\ p < found[j].to

\* A scan finds the pattern wherever it begins outside what was found before.
LEMMA ScanFinds ==
  ASSUME NEW S, NEW line \in Seq(S), NEW needle \in Seq(S), needle # <<>>
  PROVE  Finds(line, needle, 0, Scan(line, needle))
<1>1. PICK n \in Nat, m \in Nat \ {0} : n = Len(line) /\ m = Len(needle)
  OBVIOUS
<1> DEFINE places == Places(line, needle)
<1>2. places \subseteq Nat /\ \A p \in places : p + m \in 0..n /\ p + m > p
  BY <1>1 DEF Places
<1> HIDE DEF places
<1> DEFINE D == 0..n
           V == Seq(MarkRange)
           ahead(start) == {p \in places : p >= start}
           rank == [start \in D |-> n - start]
           R == [start \in D |-> [g \in [D -> V] |->
                   IF ahead(start) = {} THEN <<>>
                   ELSE <<[from |-> Min(ahead(start)), to |-> Min(ahead(start)) + m]>>
                        \o g[Min(ahead(start)) + m]]]
           found[start \in 0..Len(line)] ==
              LET rest == {p \in Places(line, needle) : p >= start}
              IN  IF rest = {} THEN <<>>
                  ELSE LET p == Min(rest)
                       IN  <<[from |-> p, to |-> p + Len(needle)]>> \o found[p + Len(needle)]
<1>3. Scan(line, needle) = found[0]
  BY DEF Scan
<1> HIDE DEF found
<1>4. ASSUME NEW start \in D, ahead(start) # {}
      PROVE  /\ Min(ahead(start)) \in places /\ Min(ahead(start)) >= start
             /\ \A p \in places : p >= start => Min(ahead(start)) <= p
             /\ Min(ahead(start)) + m \in D /\ rank[Min(ahead(start)) + m] < rank[start]
  <2>1. ahead(start) \in SUBSET Nat
    BY <1>2
  <2> DEFINE least == Min(ahead(start))
  <2>2. least \in ahead(start) /\ \A p \in ahead(start) : least <= p
    BY <1>4, <2>1, MinIsLeast
  <2> HIDE DEF least
  <2>3. least \in places /\ least >= start /\ least \in Nat /\ \A p \in places : p >= start => least <= p
    BY <1>2, <2>2
  <2>4. least + m \in D /\ n - (least + m) < n - start
    BY <1>2, <2>3
  <2> QED BY <2>3, <2>4 DEF least
<1>5. \A a, b \in Nat, r \in V : <<[from |-> a, to |-> b]>> \o r \in V
  <2> SUFFICES ASSUME NEW a \in Nat, NEW b \in Nat, NEW r \in V
               PROVE  <<[from |-> a, to |-> b]>> \o r \in V
    OBVIOUS
  <2>1. [from |-> a, to |-> b] \in MarkRange
    BY DEF MarkRange
  <2>2. <<[from |-> a, to |-> b]>> \in V
    BY <2>1
  <2> QED BY <2>2, ConcatProperties
<1> HIDE DEF V
<1>6. rank \in [D -> Nat] /\ <<>> \in V
  BY DEF V
<1>7. R \in [D -> [[D -> V] -> V]]
  <2> SUFFICES ASSUME NEW start \in D, NEW g \in [D -> V], ahead(start) # {}
               PROVE  <<[from |-> Min(ahead(start)), to |-> Min(ahead(start)) + m]>>
                        \o g[Min(ahead(start)) + m] \in V
    BY <1>6
  <2> DEFINE least == Min(ahead(start))
  <2>1. least \in Nat /\ least + m \in D /\ least + m \in Nat
    <3>1. least \in places /\ least + m \in D
      BY <1>4
    <3> HIDE DEF least
    <3> QED BY <1>2, <3>1
  <2> HIDE DEF least
  <2>2. g[least + m] \in V
    BY <2>1
  <2>3. <<[from |-> least, to |-> least + m]>> \o g[least + m] \in V
    BY <1>5, <2>1, <2>2
  <2> QED BY <2>3 DEF least
<1>8. ASSUME NEW start \in D, NEW g \in [D -> V], NEW h \in [D -> V],
             Agree(g, h, Below(rank, start))
      PROVE  R[start][g] = R[start][h]
  <2>1. CASE ahead(start) = {}
    BY <2>1
  <2>2. CASE ahead(start) # {}
    <3> DEFINE least == Min(ahead(start))
    <3>1. least + m \in D /\ rank[least + m] < rank[start]
      BY <1>4, <2>2
    <3>2. DOMAIN rank = D
      OBVIOUS
    <3> HIDE DEF least, rank, D
    <3>3. g[least + m] = h[least + m]
      BY <1>8, <3>1, <3>2 DEF Below, Agree
    <3> QED BY <3>3 DEF least
  <2> QED BY <2>1, <2>2
<1>9. PICK f : Solves(f, R, D, V)
  <2> HIDE DEF R, D, rank
  <2>1. IsRecursion(R, D, V, rank)
    BY <1>6, <1>7, <1>8 DEF IsRecursion
  <2> QED BY <2>1, Recursion
<1>10. f = [start \in 0..Len(line) |->
              LET rest == {p \in Places(line, needle) : p >= start}
              IN  IF rest = {} THEN <<>>
                  ELSE LET p == Min(rest)
                       IN  <<[from |-> p, to |-> p + Len(needle)]>> \o f[p + Len(needle)]]
  <2>1. f = [start \in D |-> R[start][f]]
    BY <1>9 DEF Solves
  <2>2. f \in [D -> V]
    BY <1>9 DEF Solves
  <2>3. \A start \in D : R[start][f] =
            IF ahead(start) = {} THEN <<>>
            ELSE <<[from |-> Min(ahead(start)), to |-> Min(ahead(start)) + m]>>
                        \o f[Min(ahead(start)) + m]
    BY <2>2
  <2> HIDE DEF R
  <2> QED BY <1>1, <2>1, <2>3 DEF places
<1>11. found = [start \in 0..Len(line) |->
              LET rest == {p \in Places(line, needle) : p >= start}
              IN  IF rest = {} THEN <<>>
                  ELSE LET p == Min(rest)
                       IN  <<[from |-> p, to |-> p + Len(needle)]>> \o found[p + Len(needle)]]
  BY <1>10, Zenon DEF found
<1>12. \A start \in D : found[start] =
            IF ahead(start) = {} THEN <<>>
            ELSE <<[from |-> Min(ahead(start)), to |-> Min(ahead(start)) + m]>>
                        \o found[Min(ahead(start)) + m]
  BY <1>1, <1>11, Zenon DEF places
<1> HIDE DEF R
<1> DEFINE P == {start \in D : Finds(line, needle, start, found[start])}
<1>13. ASSUME NEW start \in D, \A s \in D : rank[s] < rank[start] => s \in P
       PROVE  start \in P
  <2>1. CASE ahead(start) = {}
    <3>1. found[start] = <<>>
      BY <1>12, <2>1
    <3>2. \A p \in Places(line, needle) : ~(p >= start)
      BY <2>1 DEF places
    <3>3. <<>> \in Seq(MarkRange) /\ Len(<<>>) = 0
      OBVIOUS
    <3>4. Finds(line, needle, start, found[start])
      BY <3>1, <3>2, <3>3 DEF Finds
    <3> QED BY <3>4
  <2>2. CASE ahead(start) # {}
    <3>1. PICK a \in Nat, b \in D : a = Min(ahead(start)) /\ b = a + m
      BY <1>2, <1>4, <2>2
    <3>2. /\ a \in places /\ a >= start /\ \A p \in places : p >= start => a <= p
          /\ rank[b] < rank[start]
      BY <1>4, <2>2, <3>1
    <3>3. PICK r : r = found[b]
      OBVIOUS
    <3>4. Finds(line, needle, b, r)
      BY <1>13, <3>2, <3>3
    <3>5. PICK e \in MarkRange : e = [from |-> a, to |-> b]
      <4>1. b \in Nat
        OBVIOUS
      <4>2. [from |-> a, to |-> b] \in MarkRange
        BY <4>1 DEF MarkRange
      <4> QED BY <4>2
    <3>6. found[start] = <<e>> \o r
      <4> HIDE DEF ahead, D
      <4> QED BY <1>12, <2>2, <3>1, <3>3, <3>5
    <3>7. r \in Seq(MarkRange) /\ <<e>> \in Seq(MarkRange) /\ Len(<<e>>) = 1 /\ <<e>>[1] = e
      BY <3>4 DEF Finds
    <3> DEFINE q == <<e>> \o r
    <3>8. /\ q \in Seq(MarkRange) /\ Len(q) = 1 + Len(r) /\ Len(r) \in Nat
          /\ \A j \in 1..Len(q) : q[j] = IF j = 1 THEN e ELSE r[j - 1]
      BY <3>7, ConcatProperties
    <3> HIDE DEF q
    <3>9. \A j \in 1..Len(r) : q[j + 1] = r[j]
      BY <3>8
    <3>10. q[1] = e /\ e.from = a /\ e.to = b
      BY <3>5, <3>8
    <3> HIDE DEF ahead, rank
    <3>11. ASSUME NEW j \in 1..Len(q)
           PROVE  /\ q[j].from \in Places(line, needle) /\ q[j].from >= start
                  /\ q[j].to = q[j].from + Len(needle)
      <4>1. CASE j = 1
        BY <1>1, <3>1, <3>2, <3>10, <4>1 DEF places
      <4>2. CASE j # 1
        <5>1. j - 1 \in 1..Len(r) /\ q[j] = r[j - 1]
          <6>1. q[j] = r[j - 1]
            BY <3>8, <4>2
          <6>2. PICK l \in Nat : l = Len(r) /\ j \in 1..(1 + l)
            BY <3>8
          <6>3. j - 1 \in 1..l
            BY <4>2, <6>2
          <6> QED BY <6>1, <6>2, <6>3
        <5>2. /\ r[j - 1].from \in Places(line, needle) /\ r[j - 1].from >= b
              /\ r[j - 1].to = r[j - 1].from + Len(needle)
          BY <3>4, <5>1 DEF Finds
        <5>3. r[j - 1].from \in Nat
          BY <1>2, <5>2 DEF places
        <5>4. b \in Nat /\ start \in Nat /\ start <= b
          BY <3>1, <3>2
        <5>5. r[j - 1].from >= start
          BY <5>2, <5>3, <5>4
        <5> QED BY <5>1, <5>2, <5>5
      <4> QED BY <4>1, <4>2
    <3>12. ASSUME NEW j \in 1..(Len(q) - 1) PROVE q[j].to <= q[j + 1].from
      <4>1. CASE j = 1
        <5>1. 1 \in 1..Len(r) /\ q[j + 1] = r[1]
          BY <3>8, <3>9, <4>1
        <5>2. r[1].from >= b /\ r[1].from \in Nat
          BY <1>2, <3>4, <5>1 DEF Finds, places
        <5> QED BY <3>10, <4>1, <5>1, <5>2
      <4>2. CASE j # 1
        <5>1. j - 1 \in 1..(Len(r) - 1) /\ q[j] = r[j - 1] /\ q[j + 1] = r[(j - 1) + 1]
          BY <3>8, <4>2
        <5> QED BY <3>4, <5>1 DEF Finds
      <4> QED BY <4>1, <4>2
    <3>13. ASSUME NEW p \in Places(line, needle), p >= start
           PROVE  \E j \in 1..Len(q) : q[j].from <= p /\ p < q[j].to
      <4>1. p \in Nat /\ a <= p
        BY <1>2, <3>2, <3>13 DEF places
      <4>2. CASE p < b
        <5>1. 1 \in 1..Len(q)
          BY <3>8
        <5> QED BY <3>10, <4>1, <4>2, <5>1
      <4>3. CASE p >= b
        <5>1. PICK j \in 1..Len(r) : r[j].from <= p /\ p < r[j].to
          BY <3>4, <4>3 DEF Finds
        <5>2. j + 1 \in 1..Len(q)
          BY <3>8
        <5> QED BY <3>9, <5>1, <5>2
      <4> QED BY <4>1, <4>2, <4>3
    <3>14. Finds(line, needle, start, q)
      BY <3>8, <3>11, <3>12, <3>13 DEF Finds
    <3> QED BY <3>6, <3>14 DEF q
  <2> QED BY <2>1, <2>2
<1>14. D \subseteq P
  <2> HIDE DEF P, D, rank
  <2> QED BY <1>6, <1>13, RankInduction
<1> QED BY <1>3, <1>14


\* A text as it is compared, without case if i.
Fold(text, i) == IF i THEN InLowerCase(text) ELSE text

\* What is found on a line is nothing only if the pattern is not on it, and are
\* marks of the line as it is written if its case folds one to one.
LEMMA FindOnMarks ==
  ASSUME NEW line \in Seq(AllChars), NEW pattern \in Seq(AllChars), pattern # <<>>,
         NEW i \in BOOLEAN
  PROVE  /\ FindOn(line, pattern, i) \in Seq(MarkRange)
         /\ FindOn(line, pattern, i) = <<>> <=> Places(Fold(line, i), Fold(pattern, i)) = {}
         /\ ~i \/ OneToOne(line) => Marks(line, pattern, i, FindOn(line, pattern, i))
<1> DEFINE text == Fold(line, i)
           needle == Fold(pattern, i)
           found == FindOn(line, pattern, i)
<1>1. text \in Seq(AllChars) /\ needle \in Seq(AllChars) /\ needle # <<>>
  BY LowerIsText DEF Fold
<1>2. found = Scan(text, needle)
  BY DEF FindOn, Fold
<1>3. ASSUME ~i \/ OneToOne(line)
      PROVE  /\ Len(text) = Len(line)
             /\ \A a, b \in 0..Len(line) : Fold(SubSeq(line, a + 1, b), i) = SubSeq(text, a + 1, b)
  BY <1>3, LowerOneToOne, LowerOfPart DEF Fold
<1> HIDE DEF text, needle, found
<1>4. Finds(text, needle, 0, found)
  BY <1>1, <1>2, ScanFinds
<1>5. PICK m \in Nat \ {0}, n \in Nat : m = Len(needle) /\ n = Len(text)
  BY <1>1
<1>6. \A p : p \in Places(text, needle) <=>
               p \in 0..(n - m) /\ SubSeq(text, p + 1, p + m) = needle
  BY <1>5 DEF Places
<1>7. found \in Seq(MarkRange) /\ (found = <<>> <=> Places(text, needle) = {})
  <2>1. found \in Seq(MarkRange)
    BY <1>4 DEF Finds
  <2>2. ASSUME found # <<>> PROVE Places(text, needle) # {}
    <3>1. 1 \in 1..Len(found)
      BY <2>1, <2>2
    <3> QED BY <1>4, <3>1 DEF Finds
  <2>3. ASSUME NEW p \in Places(text, needle) PROVE found # <<>>
    <3>1. p >= 0
      BY <1>6
    <3>2. PICK j \in 1..Len(found) : TRUE
      BY <1>4, <3>1 DEF Finds
    <3> QED BY <3>2
  <2> QED BY <2>1, <2>2, <2>3
<1>8. ASSUME ~i \/ OneToOne(line) PROVE Marks(line, pattern, i, found)
  <2>1. /\ Len(line) = n
        /\ \A a, b \in 0..n : Fold(SubSeq(line, a + 1, b), i) = SubSeq(text, a + 1, b)
    BY <1>3, <1>5, <1>8
  <2> DEFINE occurrences == {o \in (0..n) \X (0..n) :
                               o[1] < o[2] /\ Fold(SubSeq(line, o[1] + 1, o[2]), i) = needle}
  <2>2. ASSUME NEW a \in 0..n, NEW b \in 0..n
        PROVE  <<a, b>> \in occurrences <=> a \in Places(text, needle) /\ b = a + m
    <3>1. <<a, b>> \in occurrences <=> a < b /\ SubSeq(text, a + 1, b) = needle
      BY <2>1
    <3>2. a < b => Len(SubSeq(text, a + 1, b)) = b - a
      BY <1>1, <1>5
    <3> HIDE DEF occurrences
    <3>3. ASSUME a < b, SubSeq(text, a + 1, b) = needle
          PROVE  a \in Places(text, needle) /\ b = a + m
      <4>1. b - a = m
        BY <1>5, <3>2, <3>3
      <4>2. b = a + m /\ a \in 0..(n - m)
        BY <4>1
      <4> QED BY <1>6, <3>3, <4>2
    <3>4. ASSUME a \in Places(text, needle), b = a + m
          PROVE  a < b /\ SubSeq(text, a + 1, b) = needle
      <4>1. SubSeq(text, a + 1, a + m) = needle
        BY <1>6, <3>4
      <4>2. a < b
        BY <3>4
      <4> QED BY <3>4, <4>1, <4>2
    <3> QED BY <3>1, <3>3, <3>4
  <2> HIDE DEF occurrences
  <2>3. ASSUME NEW j \in 1..Len(found) PROVE <<found[j].from, found[j].to>> \in occurrences
    <3>1. PICK a \in Places(text, needle) : a = found[j].from /\ found[j].to = a + m
      BY <1>4, <1>5 DEF Finds
    <3>2. a \in 0..n /\ a + m \in 0..n
      BY <1>6
    <3> QED BY <2>2, <3>1, <3>2
  <2>4. \A j \in 1..(Len(found) - 1) : found[j].to <= found[j + 1].from
    BY <1>4 DEF Finds
  <2>5. ASSUME NEW o \in occurrences
        PROVE  \E j \in 1..Len(found) : found[j].from <= o[1] /\ o[1] < found[j].to
    <3>1. PICK a \in 0..n, b \in 0..n : o = <<a, b>>
      BY DEF occurrences
    <3>2. a \in Places(text, needle) /\ o[1] = a /\ a >= 0
      BY <2>2, <3>1
    <3> QED BY <1>4, <3>2 DEF Finds
  <2>6. DOMAIN found = 1..Len(found)
    BY <1>7
  <2>7. occurrences = {o \in (0..Len(line)) \X (0..Len(line)) :
              o[1] < o[2] /\ (IF i THEN InLowerCase(SubSeq(line, o[1] + 1, o[2]))
                              ELSE SubSeq(line, o[1] + 1, o[2])) =
                             (IF i THEN InLowerCase(pattern) ELSE pattern)}
    BY <2>1, Zenon DEF occurrences, Fold, needle
  <2> QED BY <2>3, <2>4, <2>5, <2>6, <2>7, Zenon DEF Marks
<1> QED BY <1>7, <1>8 DEF text, needle, found


-----------------------------------------------------------------------------
\* The numbers of a set below n, and the first most of the set.
Earlier(all, n) == Cardinality({m \in all : m < n})
FirstOf(all, most) == {n \in all : Earlier(all, n) < most}

\* How many there are below a number grows by one past each of them.
LEMMA EarlierCounts ==
  ASSUME NEW N \in Nat, NEW all \in SUBSET (1..N), NEW n \in Nat
  PROVE  /\ Earlier(all, n) \in Nat /\ Earlier(all, 1) = 0
         /\ Earlier(all, n + 1) = Earlier(all, n) + (IF n \in all THEN 1 ELSE 0)
<1> DEFINE below(k) == {m \in all : m < k}
<1>1. IsFiniteSet(all) /\ \A m \in all : m \in Nat /\ m >= 1
  <2>1. IsFiniteSet(1..N)
    BY FS_Interval
  <2>2. IsFiniteSet(all)
    BY <2>1, FS_Subset
  <2> QED BY <2>2
<1>2. \A k : IsFiniteSet(below(k))
  BY <1>1, FS_Subset
<1>3. below(1) = {}
  <2>1. ASSUME NEW m \in all PROVE ~(m < 1)
    BY <1>1
  <2> QED BY <2>1
<1>4. below(n + 1) = IF n \in all THEN below(n) \cup {n} ELSE below(n)
  <2>1. ASSUME NEW m \in all PROVE m < n + 1 <=> m < n \/ m = n
    BY <1>1
  <2> QED BY <2>1
<1>5. n \notin below(n)
  OBVIOUS
<1>6. \A k : Earlier(all, k) = Cardinality(below(k))
  BY DEF Earlier
<1> HIDE DEF below
<1>7. Cardinality(below(n)) \in Nat /\ Cardinality(below(1)) = 0
  BY <1>2, <1>3, FS_CardinalityType, FS_EmptySet
<1>8. Cardinality(below(n) \cup {n}) = Cardinality(below(n)) + 1
  BY <1>2, <1>5, FS_AddElement
<1> QED BY <1>4, <1>6, <1>7, <1>8

\* The lines with the pattern.
WithPattern(lines, pattern, i) ==
  {n \in DOMAIN lines : Places(Fold(lines[n], i), Fold(pattern, i)) # {}}

\* The matches are lines of hits up to k, in order, each with what is found on it.
LineMatch == [line_number : Nat, match_ranges : Seq(MarkRange)]
Collects(matches, hits, k, lines, pattern, i) ==
  /\ matches \in Seq(LineMatch)
  /\ \A j \in 1..Len(matches) :
       /\ matches[j].line_number \in hits /\ matches[j].line_number <= k
       /\ matches[j].match_ranges = FindOn(lines[matches[j].line_number], pattern, i)
  /\ \A j \in 1..(Len(matches) - 1) : matches[j].line_number < matches[j + 1].line_number
  /\ \A h \in hits : h <= k => \E j \in 1..Len(matches) : matches[j].line_number = h

\* One more hit, on the next line.
LEMMA CollectsMore ==
  ASSUME NEW hits \in SUBSET Nat, NEW k \in Nat, NEW lines, NEW pattern, NEW i, NEW matches,
         Collects(matches, hits, k, lines, pattern, i), k + 1 \in hits,
         FindOn(lines[k + 1], pattern, i) \in Seq(MarkRange)
  PROVE  Collects(Append(matches, [line_number |-> k + 1,
                                   match_ranges |-> FindOn(lines[k + 1], pattern, i)]),
                  hits, k + 1, lines, pattern, i)
<1> DEFINE found == FindOn(lines[k + 1], pattern, i)
<1>1. PICK e \in LineMatch : e = [line_number |-> k + 1, match_ranges |-> found]
  <2> HIDE DEF found
  <2>1. k + 1 \in Nat /\ found \in Seq(MarkRange)
    BY DEF found
  <2>2. [line_number |-> k + 1, match_ranges |-> found] \in LineMatch
    <3> DEFINE Marked == Seq(MarkRange)
    <3>1. found \in Marked
      BY <2>1
    <3> HIDE DEF Marked
    <3>2. [line_number |-> k + 1, match_ranges |-> found] \in [line_number : Nat, match_ranges : Marked]
      BY <3>1
    <3> QED BY <3>2 DEF LineMatch, Marked
  <2> QED BY <2>2
<1>2. matches \in Seq(LineMatch)
  BY DEF Collects
<1> DEFINE more == Append(matches, e)
<1>3. /\ more \in Seq(LineMatch) /\ Len(more) = Len(matches) + 1 /\ Len(matches) \in Nat
      /\ more[Len(matches) + 1] = e /\ \A j \in 1..Len(matches) : more[j] = matches[j]
  BY <1>2, AppendProperties
<1> HIDE DEF more, found
<1>4. e.line_number = k + 1 /\ e.match_ranges = found
  BY <1>1
<1>5. ASSUME NEW j \in 1..Len(more)
      PROVE  /\ more[j].line_number \in hits /\ more[j].line_number <= k + 1
             /\ more[j].match_ranges = FindOn(lines[more[j].line_number], pattern, i)
  <2>1. CASE j = Len(matches) + 1
    BY <1>3, <1>4, <2>1 DEF found
  <2>2. CASE j # Len(matches) + 1
    <3>1. j \in 1..Len(matches) /\ more[j] = matches[j]
      BY <1>3, <2>2
    <3>2. /\ matches[j].line_number \in hits /\ matches[j].line_number <= k
          /\ matches[j].match_ranges = FindOn(lines[matches[j].line_number], pattern, i)
      BY <3>1 DEF Collects
    <3>3. matches[j].line_number <= k + 1
      <4>1. matches[j].line_number \in Nat
        BY <3>2
      <4> QED BY <3>2, <4>1
    <3> QED BY <3>1, <3>2, <3>3
  <2> QED BY <2>1, <2>2
<1>6. ASSUME NEW j \in 1..(Len(more) - 1) PROVE more[j].line_number < more[j + 1].line_number
  <2>1. j \in 1..Len(matches) /\ more[j] = matches[j]
    BY <1>3
  <2>2. matches[j].line_number <= k /\ matches[j].line_number \in Nat
    BY <2>1 DEF Collects
  <2>3. CASE j = Len(matches)
    BY <1>3, <1>4, <2>1, <2>2, <2>3
  <2>4. CASE j # Len(matches)
    <3>1. j \in 1..(Len(matches) - 1) /\ j + 1 \in 1..Len(matches)
      BY <2>1, <2>4, <1>3
    <3> QED BY <1>3, <2>1, <3>1 DEF Collects
  <2> QED BY <2>3, <2>4
<1>7. ASSUME NEW h \in hits, h <= k + 1 PROVE \E j \in 1..Len(more) : more[j].line_number = h
  <2>1. CASE h = k + 1
    <3>1. Len(matches) + 1 \in 1..Len(more)
      BY <1>3
    <3> QED BY <1>3, <1>4, <2>1, <3>1
  <2>2. CASE h # k + 1
    <3>1. h <= k
      BY <1>7, <2>2
    <3>2. PICK j \in 1..Len(matches) : matches[j].line_number = h
      BY <3>1 DEF Collects
    <3>3. j \in 1..Len(more)
      BY <1>3
    <3> QED BY <1>3, <3>2, <3>3
  <2> QED BY <2>1, <2>2
<1>8. Collects(more, hits, k + 1, lines, pattern, i)
  BY <1>3, <1>5, <1>6, <1>7 DEF Collects
<1> QED BY <1>1, <1>8 DEF more, found

\* The matches of a file are its first most lines with the pattern.
LEMMA MatchesAreHits ==
  ASSUME NEW text \in Seq(AllChars), NEW pattern \in Seq(AllChars), pattern # <<>>,
         NEW i \in BOOLEAN, NEW most \in Nat
  PROVE  Collects(FindMatches(text, pattern, i, most),
                  FirstOf(WithPattern(Lines(text), pattern, i), most),
                  Len(Lines(text)), Lines(text), pattern, i)
<1>1. PICK lines \in Seq(Seq(AllChars)) : lines = Lines(text)
  BY LinesAreParts
<1>2. PICK N \in Nat : N = Len(lines) /\ DOMAIN lines = 1..N
  OBVIOUS
<1> DEFINE all == WithPattern(lines, pattern, i)
           hits == FirstOf(all, most)
           found(n) == FindOn(lines[n], pattern, i)
           V == Seq(LineMatch)
           more(matches, n) ==
              IF Len(matches) >= most \/ found(n) = <<>> THEN matches
              ELSE Append(matches, [line_number |-> n, match_ranges |-> found(n)])
           step == [n \in 1..N |-> [matches \in V |-> more(matches, n)]]
           none == <<>>
           upto[n \in 0..Len(Lines(text))] ==
              IF n = 0 THEN <<>>
              ELSE LET matches == upto[n - 1]
                       here    == FindOn(Lines(text)[n], pattern, i)
                   IN  IF Len(matches) >= most \/ here = <<>> THEN matches
                       ELSE Append(matches, [line_number |-> n, match_ranges |-> here])
<1>3. FindMatches(text, pattern, i, most) = upto[N]
  BY <1>1, <1>2 DEF FindMatches
<1> HIDE DEF upto
<1>4. all \subseteq 1..N /\ hits \subseteq all
  BY <1>2 DEF WithPattern, FirstOf
<1>5. ASSUME NEW n \in 1..N PROVE found(n) \in Seq(MarkRange) /\ (found(n) = <<>> <=> n \notin all)
  <2>1. lines[n] \in Seq(AllChars)
    <3> DEFINE W == Seq(AllChars)
    <3> HIDE DEF W
    <3>1. lines \in Seq(W)
      BY DEF W
    <3>2. lines[n] \in W
      BY <1>2, <3>1
    <3> QED BY <3>2 DEF W
  <2>2. /\ found(n) \in Seq(MarkRange)
        /\ found(n) = <<>> <=> Places(Fold(lines[n], i), Fold(pattern, i)) = {}
    BY <2>1, FindOnMarks
  <2> QED BY <1>2, <2>2 DEF WithPattern
<1> HIDE DEF all, hits, found, V
<1>6. ASSUME NEW n \in 1..N, NEW matches \in V PROVE more(matches, n) \in V
  <2>1. [line_number |-> n, match_ranges |-> found(n)] \in LineMatch
    <3> DEFINE Marked == Seq(MarkRange)
    <3>1. n \in Nat /\ found(n) \in Marked
      BY <1>5
    <3> HIDE DEF Marked
    <3>2. [line_number |-> n, match_ranges |-> found(n)] \in [line_number : Nat, match_ranges : Marked]
      BY <3>1
    <3> QED BY <3>2 DEF LineMatch, Marked
  <2> QED BY <2>1 DEF V
<1>7. none \in V /\ step \in [1..N -> [V -> V]]
  BY <1>6 DEF V
<1>8. PICK f : Iterates(f, step, N, V, none)
  <2> HIDE DEF step, none
  <2>1. IsStep(step, N, V, none)
    BY <1>7 DEF IsStep
  <2> QED BY <2>1, StepRecursion
<1>9. f = [n \in 0..N |-> IF n = 0 THEN none ELSE more(f[n - 1], n)]
  <2>1. ASSUME NEW n \in 1..N PROVE f[n] = more(f[n - 1], n)
    <3>1. n - 1 \in 0..N
      OBVIOUS
    <3>2. f[n - 1] \in V
      BY <1>8, <3>1 DEF Iterates
    <3> HIDE DEF more
    <3> QED BY <1>8, <3>2 DEF Iterates
  <2> HIDE DEF step, more, none
  <2>2. ASSUME NEW n \in 0..N PROVE f[n] = IF n = 0 THEN none ELSE more(f[n - 1], n)
    <3>1. f[0] = none
      BY <1>8 DEF Iterates
    <3>2. n # 0 => n \in 1..N
      OBVIOUS
    <3> QED BY <2>1, <3>1, <3>2
  <2> QED BY <1>8, <2>2 DEF Iterates
<1>10. upto = [n \in 0..N |-> IF n = 0 THEN none ELSE more(upto[n - 1], n)]
  BY <1>1, <1>2, <1>9, Zenon DEF upto, more, none, found
<1> DEFINE Good(n) ==
             /\ Collects(upto[n], hits, n, lines, pattern, i)
             /\ Len(upto[n]) = IF Earlier(all, n + 1) >= most THEN most ELSE Earlier(all, n + 1)
           P == {n \in Nat : n <= N => Good(n)}
<1>11. 0 \in P
  <2>1. upto[0] = <<>>
    BY <1>10
  <2>2. Earlier(all, 0 + 1) = 0
    <3>1. all \in SUBSET (1..N) /\ 0 \in Nat /\ 0 + 1 = 1
      BY <1>4
    <3>2. Earlier(all, 1) = 0
      BY <3>1, EarlierCounts
    <3> QED BY <3>1, <3>2
  <2>3. \A h \in hits : ~(h <= 0)
    BY <1>4
  <2>4. <<>> \in Seq(LineMatch) /\ Len(<<>>) = 0
    OBVIOUS
  <2>5. Collects(<<>>, hits, 0, lines, pattern, i)
    BY <2>3, <2>4 DEF Collects
  <2>6. Good(0)
    BY <2>1, <2>2, <2>4, <2>5
  <2> HIDE DEF Good
  <2> QED BY <2>6
<1>12. ASSUME NEW k \in Nat, k \in P PROVE k + 1 \in P
  <2> SUFFICES ASSUME k + 1 <= N PROVE Good(k + 1)
    OBVIOUS
  <2>1. PICK n \in 1..N : n = k + 1 /\ n - 1 = k
    OBVIOUS
  <2>2. PICK u : u = upto[k]
    OBVIOUS
  <2>3. /\ Collects(u, hits, k, lines, pattern, i)
        /\ Len(u) = IF Earlier(all, n) >= most THEN most ELSE Earlier(all, n)
    BY <1>12, <2>1, <2>2
  <2>4. upto[n] = more(u, n)
    <3> HIDE DEF more
    <3> QED BY <1>10, <2>1, <2>2
  <2>5. /\ Earlier(all, n) \in Nat
        /\ Earlier(all, n + 1) = Earlier(all, n) + (IF n \in all THEN 1 ELSE 0)
    <3>1. all \in SUBSET (1..N) /\ n \in Nat
      BY <1>4
    <3> QED BY <3>1, EarlierCounts
  <2>6. n \in hits <=> n \in all /\ Earlier(all, n) < most
    BY DEF hits, FirstOf
  <2>7. CASE Len(u) >= most \/ found(n) = <<>>
    <3>1. upto[n] = u
      BY <2>4, <2>7
    <3>2. n \notin hits
      BY <1>5, <2>3, <2>5, <2>6, <2>7
    <3>3. \A h \in hits : h <= n => h <= k
      BY <1>4, <2>1, <3>2
    <3>4. \A h \in hits : h <= k => h <= n
      BY <1>4, <2>1
    <3>5. Collects(u, hits, n, lines, pattern, i)
      BY <2>3, <3>3, <3>4 DEF Collects
    <3>6. Len(u) = IF Earlier(all, n + 1) >= most THEN most ELSE Earlier(all, n + 1)
      BY <1>5, <2>3, <2>5, <2>7
    <3> QED BY <2>1, <3>1, <3>5, <3>6
  <2>8. CASE ~(Len(u) >= most \/ found(n) = <<>>)
    <3>1. upto[n] = Append(u, [line_number |-> n, match_ranges |-> found(n)])
      BY <2>4, <2>8
    <3>2. Len(u) = Earlier(all, n) /\ Earlier(all, n) < most /\ n \in all
      BY <1>5, <2>3, <2>5, <2>8
    <3>3. n \in hits /\ hits \in SUBSET Nat
      BY <1>4, <2>6, <3>2
    <3>4. Collects(upto[n], hits, n, lines, pattern, i)
      BY <1>5, <2>1, <2>3, <3>1, <3>3, CollectsMore DEF found
    <3>5. Len(upto[n]) = Len(u) + 1
      <4>1. u \in Seq(LineMatch)
        BY <2>3 DEF Collects
      <4> QED BY <3>1, <4>1
    <3>6. Len(upto[n]) = IF Earlier(all, n + 1) >= most THEN most ELSE Earlier(all, n + 1)
      BY <2>5, <3>2, <3>5
    <3> QED BY <2>1, <3>4, <3>6
  <2> QED BY <2>7, <2>8
<1>13. Good(N)
  <2> HIDE DEF P
  <2>1. Nat \subseteq P
    BY <1>11, <1>12, Induction
  <2> QED BY <2>1 DEF P
<1> QED BY <1>1, <1>2, <1>3, <1>13 DEF all, hits


-----------------------------------------------------------------------------
\* The larger and the smaller of two numbers.
LEMMA OfTwo ==
  ASSUME NEW a \in Int, NEW b \in Int
  PROVE  Max({a, b}) = (IF a >= b THEN a ELSE b) /\ Min({a, b}) = (IF a <= b THEN a ELSE b)
  BY DEF Max, Min

\* Ranges stand for a set of lines: in order, each of some lines, with a line
\* between two that is in neither.
LineRange == [start : Nat, end : Nat]
Covers(rs, size, set) ==
  /\ rs \in Seq(LineRange)
  /\ \A b \in 1..Len(rs) :
       1 <= rs[b].start /\ rs[b].start <= rs[b].end /\ rs[b].end <= size
  /\ \A b \in 1..(Len(rs) - 1) : rs[b].end + 1 < rs[b + 1].start
  /\ \A n \in Nat : n \in set <=>
       \E b \in 1..Len(rs) : rs[b].start <= n /\ n <= rs[b].end

\* The last of the ranges ends with e, and begins at s or before.
EndsWith(rs, s, e) == rs # <<>> /\ Last(rs).start <= s /\ Last(rs).end = e

\* Lines that begin and end no earlier than the last ones are merged with them, or
\* become a range of their own.
LEMMA MergeSpans ==
  ASSUME NEW size \in Nat, NEW set, NEW rs, Covers(rs, size, set),
         NEW s \in 1..size, NEW e \in s..size,
         rs # <<>> => Last(rs).start <= s /\ Last(rs).end <= e
  PROVE  Covers(Merge(rs, s, e), size, set \cup s..e) /\ EndsWith(Merge(rs, s, e), s, e)
<1> DEFINE merged == Merge(rs, s, e)
<1>1. PICK m \in Nat : m = Len(rs) /\ rs \in Seq(LineRange) /\ (rs # <<>> <=> m # 0)
  BY DEF Covers
<1>2. \A b \in 1..m : rs[b] \in LineRange /\ rs[b].start \in Nat /\ rs[b].end \in Nat
  <2>1. \A r \in LineRange : r.start \in Nat /\ r.end \in Nat
    BY DEF LineRange
  <2> QED BY <1>1, <2>1
<1>0. s \in Nat /\ e \in Nat /\ 1 <= s /\ s <= e /\ e <= size
  OBVIOUS
<1>3. CASE rs # <<>> /\ s <= Last(rs).end + 1
  <2>1. m \in 1..m /\ Last(rs) = rs[m]
    BY <1>1, <1>3 DEF Last
  <2>2. PICK a \in Nat, z \in Nat : a = rs[m].start /\ z = rs[m].end
    BY <1>2, <2>1
  <2>3. a <= s /\ z <= e /\ s <= z + 1 /\ rs[m] = [start |-> a, end |-> z] /\ 1 <= a
    BY <1>1, <1>2, <1>3, <2>1, <2>2 DEF LineRange, Covers
  <2>4. PICK last \in LineRange : last = [start |-> a, end |-> e]
    <3>1. [start |-> a, end |-> e] \in LineRange
      BY <1>0 DEF LineRange
    <3> QED BY <3>1
  <2>5. merged = [rs EXCEPT ![m] = last]
    <3>1. merged = [rs EXCEPT ![m].end = Max({z, e})]
      BY <1>1, <1>3, <2>2 DEF Merge
    <3>2. Max({z, e}) = e
      BY <2>3, OfTwo
    <3>3. [rs[m] EXCEPT !.end = e] = last
      BY <2>3, <2>4
    <3> QED BY <3>1, <3>2, <3>3
  <2> HIDE DEF merged
  <2>6. /\ merged \in Seq(LineRange) /\ Len(merged) = m /\ merged[m] = last
        /\ \A b \in 1..(m - 1) : merged[b] = rs[b]
    BY <1>1, <2>1, <2>5, ExceptSeq
  <2>7. last.start = a /\ last.end = e
    BY <2>4
  <2>8. ASSUME NEW b \in 1..m
        PROVE  1 <= merged[b].start /\ merged[b].start <= merged[b].end /\ merged[b].end <= size
    <3>1. CASE b = m
      BY <1>0, <2>3, <2>6, <2>7, <3>1
    <3>2. CASE b # m
      <4>1. merged[b] = rs[b]
        BY <2>6, <3>2
      <4> QED BY <1>1, <4>1 DEF Covers
    <3> QED BY <3>1, <3>2
  <2>9. ASSUME NEW b \in 1..(m - 1) PROVE merged[b].end + 1 < merged[b + 1].start
    <3>1. merged[b + 1].start = rs[b + 1].start
      BY <2>2, <2>6, <2>7
    <3>2. merged[b].end = rs[b].end
      BY <2>6
    <3> QED BY <1>1, <3>1, <3>2 DEF Covers
  <2>10. ASSUME NEW n \in Nat
         PROVE  n \in set \cup s..e <=> \E b \in 1..m : merged[b].start <= n /\ n <= merged[b].end
    <3>1. n \in set <=> \E b \in 1..m : rs[b].start <= n /\ n <= rs[b].end
      BY <1>1 DEF Covers
    <3>2. ASSUME n \in set
          PROVE  \E b \in 1..m : merged[b].start <= n /\ n <= merged[b].end
      <4>1. PICK b \in 1..m : rs[b].start <= n /\ n <= rs[b].end
        BY <3>1, <3>2
      <4>2. CASE b = m
        BY <2>2, <2>3, <2>6, <2>7, <4>1, <4>2
      <4>3. CASE b # m
        BY <2>6, <4>1, <4>3
      <4> QED BY <4>2, <4>3
    <3>3. ASSUME n \in s..e
          PROVE  \E b \in 1..m : merged[b].start <= n /\ n <= merged[b].end
      BY <2>1, <2>3, <2>6, <2>7, <3>3
    <3>4. ASSUME NEW b \in 1..m, merged[b].start <= n, n <= merged[b].end
          PROVE  n \in set \cup s..e
      <4>1. CASE b # m
        BY <2>6, <3>1, <3>4, <4>1
      <4>2. CASE b = m
        <5>1. a <= n /\ n <= e
          BY <2>6, <2>7, <3>4, <4>2
        <5>2. n <= z => n \in set
          BY <2>1, <2>2, <3>1, <5>1
        <5> QED BY <2>3, <5>1, <5>2
      <4> QED BY <4>1, <4>2
    <3> QED BY <3>2, <3>3, <3>4
  <2>11. Covers(merged, size, set \cup s..e)
    BY <2>6, <2>8, <2>9, <2>10 DEF Covers
  <2>12. merged # <<>> /\ Last(merged) = last
    BY <2>1, <2>6 DEF Last
  <2> QED BY <2>3, <2>7, <2>11, <2>12 DEF merged, EndsWith
<1>4. CASE ~(rs # <<>> /\ s <= Last(rs).end + 1)
  <2>1. PICK last \in LineRange : last = [start |-> s, end |-> e]
    <3>1. [start |-> s, end |-> e] \in LineRange
      BY <1>0 DEF LineRange
    <3> QED BY <3>1
  <2>2. merged = Append(rs, last)
    BY <1>4, <2>1 DEF Merge
  <2> HIDE DEF merged
  <2>3. /\ merged \in Seq(LineRange) /\ Len(merged) = m + 1 /\ merged[m + 1] = last
        /\ \A b \in 1..m : merged[b] = rs[b]
    BY <1>1, <2>2, AppendProperties
  <2>4. last.start = s /\ last.end = e
    BY <2>1
  <2>5. ASSUME NEW b \in 1..(m + 1)
        PROVE  1 <= merged[b].start /\ merged[b].start <= merged[b].end /\ merged[b].end <= size
    <3>1. CASE b = m + 1
      BY <2>3, <2>4, <3>1
    <3>2. CASE b # m + 1
      BY <1>1, <2>3, <3>2 DEF Covers
    <3> QED BY <3>1, <3>2
  <2>6. ASSUME NEW b \in 1..m PROVE merged[b].end + 1 < merged[b + 1].start
    <3>1. CASE b = m
      <4>1. Last(rs) = rs[m] /\ rs # <<>>
        BY <1>1, <3>1 DEF Last
      <4>2. rs[m].end + 1 < s
        BY <1>2, <1>4, <3>1, <4>1
      <4> QED BY <2>3, <2>4, <3>1, <4>2
    <3>2. CASE b # m
      <4>1. b \in 1..(m - 1) /\ b + 1 \in 1..m
        BY <3>2
      <4>2. rs[b].end + 1 < rs[b + 1].start
        BY <1>1, <4>1 DEF Covers
      <4> QED BY <2>3, <4>1, <4>2
    <3> QED BY <3>1, <3>2
  <2>7. ASSUME NEW n \in Nat
        PROVE  n \in set \cup s..e <=> \E b \in 1..(m + 1) : merged[b].start <= n /\ n <= merged[b].end
    <3>1. n \in set <=> \E b \in 1..m : rs[b].start <= n /\ n <= rs[b].end
      BY <1>1 DEF Covers
    <3>2. ASSUME n \in set
          PROVE  \E b \in 1..(m + 1) : merged[b].start <= n /\ n <= merged[b].end
      <4>1. PICK b \in 1..m : rs[b].start <= n /\ n <= rs[b].end
        BY <3>1, <3>2
      <4>2. b \in 1..(m + 1) /\ merged[b] = rs[b]
        BY <2>3
      <4> QED BY <4>1, <4>2
    <3>3. ASSUME n \in s..e
          PROVE  \E b \in 1..(m + 1) : merged[b].start <= n /\ n <= merged[b].end
      <4>1. m + 1 \in 1..(m + 1) /\ merged[m + 1].start <= n /\ n <= merged[m + 1].end
        BY <2>3, <2>4, <3>3
      <4> QED BY <4>1
    <3>4. ASSUME NEW b \in 1..(m + 1), merged[b].start <= n, n <= merged[b].end
          PROVE  n \in set \cup s..e
      <4>1. CASE b = m + 1
        BY <2>3, <2>4, <3>4, <4>1
      <4>2. CASE b # m + 1
        <5>1. b \in 1..m /\ merged[b] = rs[b]
          BY <2>3, <4>2
        <5> QED BY <3>1, <3>4, <5>1
      <4> QED BY <4>1, <4>2
    <3> QED BY <3>2, <3>3, <3>4
  <2>8. Covers(merged, size, set \cup s..e)
    <3>1. (m + 1) - 1 = m
      OBVIOUS
    <3> QED BY <2>3, <2>5, <2>6, <2>7, <3>1 DEF Covers
  <2>9. merged # <<>> /\ Last(merged) = last
    BY <2>3 DEF Last
  <2> QED BY <2>4, <2>8, <2>9 DEF merged, EndsWith
<1> QED BY <1>3, <1>4 DEF EndsWith


\* Merging gives ranges, whatever it is given.
LEMMA MergeType ==
  ASSUME NEW rs \in Seq(LineRange), NEW s \in Nat, NEW e \in Nat
  PROVE  Merge(rs, s, e) \in Seq(LineRange)
<1>1. CASE rs # <<>> /\ s <= Last(rs).end + 1
  <2>1. PICK m \in 1..Len(rs) : m = Len(rs)
    BY <1>1
  <2>2. PICK a \in Nat, z \in Nat : rs[m] = [start |-> a, end |-> z]
    <3>1. rs[m] \in LineRange
      OBVIOUS
    <3> QED BY <3>1 DEF LineRange
  <2>3. PICK last : last = [start |-> a, end |-> Max({z, e})]
    OBVIOUS
  <2>4. last \in LineRange
    <3>1. Max({z, e}) \in Nat
      BY OfTwo
    <3> QED BY <2>3, <3>1 DEF LineRange
  <2>5. Merge(rs, s, e) = [rs EXCEPT ![m] = last]
    <3>1. Merge(rs, s, e) = [rs EXCEPT ![m].end = Max({z, e})]
      BY <1>1, <2>1, <2>2 DEF Merge
    <3>2. [rs[m] EXCEPT !.end = Max({z, e})] = last
      BY <2>2, <2>3
    <3> QED BY <3>1, <3>2
  <2> QED BY <2>4, <2>5, ExceptSeq
<1>2. CASE ~(rs # <<>> /\ s <= Last(rs).end + 1)
  <2>1. [start |-> s, end |-> e] \in LineRange
    BY DEF LineRange
  <2> QED BY <1>2, <2>1 DEF Merge
<1> QED BY <1>1, <1>2

\* The first and the last line shown of those around a line.
Lo(n) == Max({n - Context, 1})
Hi(n, size) == Min({n + Context, size})

\* They are the ends of the lines around it.
LEMMA LoHi ==
  ASSUME NEW size \in Nat, NEW n \in 1..size
  PROVE  /\ Lo(n) \in 1..n /\ Hi(n, size) \in n..size
         /\ Lo(n) = (IF n - Context >= 1 THEN n - Context ELSE 1)
         /\ Hi(n, size) = (IF n + Context <= size THEN n + Context ELSE size)
         /\ \A m \in 1..size : m \in Lo(n)..Hi(n, size) <=> m - n \in (-Context)..Context
<1>0. PICK c \in Nat : c = Context
  BY LineMatchesConstants
<1>1. Lo(n) = IF n - c >= 1 THEN n - c ELSE 1
  BY <1>0, OfTwo DEF Lo
<1>2. Hi(n, size) = IF n + c <= size THEN n + c ELSE size
  <2>1. n + c \in Int /\ size \in Int
    OBVIOUS
  <2> QED BY <1>0, <2>1, OfTwo DEF Hi
<1>3. \A m \in 1..size : m \in Lo(n)..Hi(n, size) <=> m - n \in (-c)..c
  BY <1>1, <1>2
<1> QED BY <1>0, <1>1, <1>2, <1>3

\* The lines around lines.
Around(lines, size) == {n \in 1..size : \E h \in lines : n - h \in (-Context)..Context}

\* The ranges of lines that the matches, one after the other, are merged into.
IsMerging(upto, size, matches) ==
  upto = [j \in 0..Len(matches) |->
            IF j = 0 THEN <<>>
            ELSE Merge(upto[j - 1], Lo(matches[j].line_number), Hi(matches[j].line_number, size))]

\* Merged one after the other, they stand for the lines around the hits.
LEMMA RangesCover ==
  ASSUME NEW size \in Nat, NEW hits \in SUBSET (1..size), NEW lines, NEW pattern, NEW i,
         NEW matches, Collects(matches, hits, size, lines, pattern, i),
         NEW upto, IsMerging(upto, size, matches)
  PROVE  Covers(upto[Len(matches)], size, Around(hits, size))
<1>1. PICK N \in Nat : N = Len(matches)
  BY DEF Collects
<1> DEFINE L(j) == matches[j].line_number
           first(j) == {L(k) : k \in 1..j}
           Good(j) == /\ Covers(upto[j], size, Around(first(j), size))
                      /\ j = 0 => upto[j] = <<>>
                      /\ j > 0 => /\ upto[j] # <<>> /\ Last(upto[j]).start <= Lo(L(j))
                                  /\ Last(upto[j]).end = Hi(L(j), size)
           P == {j \in Nat : j <= N => Good(j)}
<1>2. /\ \A j \in 1..N : L(j) \in 1..size
      /\ \A j \in 1..(N - 1) : L(j) < L(j + 1)
  BY <1>1 DEF Collects
<1>3. \A j \in 0..N : upto[j] = IF j = 0 THEN <<>>
                                ELSE Merge(upto[j - 1], Lo(L(j)), Hi(L(j), size))
  BY <1>1 DEF IsMerging
<1>4. 0 \in P
  <2>1. upto[0] = <<>>
    BY <1>3
  <2>2. Around(first(0), size) = {}
    BY DEF Around
  <2>3. <<>> \in Seq(LineRange) /\ Len(<<>>) = 0
    OBVIOUS
  <2> HIDE DEF first
  <2>4. Covers(upto[0], size, Around(first(0), size))
    BY <2>1, <2>2, <2>3 DEF Covers
  <2>5. Good(0)
    BY <2>1, <2>4
  <2> HIDE DEF Good
  <2> QED BY <2>5
<1>5. ASSUME NEW j \in Nat, j \in P PROVE j + 1 \in P
  <2> SUFFICES ASSUME j + 1 <= N PROVE Good(j + 1)
    OBVIOUS
  <2>1. PICK k \in 1..N : k = j + 1 /\ k - 1 = j
    OBVIOUS
  <2>2. Good(j)
    BY <1>5
  <2>3. PICK n \in 1..size : n = L(k)
    BY <1>2
  <2>4. upto[k] = Merge(upto[j], Lo(n), Hi(n, size))
    BY <1>3, <2>1, <2>3
  <2>5. /\ Lo(n) \in 1..n /\ Hi(n, size) \in n..size
        /\ Lo(n) = (IF n - Context >= 1 THEN n - Context ELSE 1)
        /\ Hi(n, size) = (IF n + Context <= size THEN n + Context ELSE size)
        /\ \A m \in 1..size : m \in Lo(n)..Hi(n, size) <=> m - n \in (-Context)..Context
    BY LoHi
  <2>6. Around(first(k), size) = Around(first(j), size) \cup Lo(n)..Hi(n, size)
    <3>1. first(k) = first(j) \cup {n}
      <4>1. \A l \in 1..k : l \in 1..j \/ l = k
        BY <2>1
      <4>2. k \in 1..k /\ \A l \in 1..j : l \in 1..k
        BY <2>1
      <4> HIDE DEF L
      <4> QED BY <2>3, <4>1, <4>2
    <3> HIDE DEF first
    <3>2. \A m \in 1..size : m \in Around(first(k), size) <=>
              m \in Around(first(j), size) \/ m - n \in (-Context)..Context
      BY <3>1 DEF Around
    <3>3. Lo(n)..Hi(n, size) \subseteq 1..size
      BY <2>5
    <3>4. \A l : Around(l, size) \subseteq 1..size
      BY DEF Around
    <3> QED BY <2>5, <3>2, <3>3, <3>4
  <2>7. upto[j] # <<>> => Last(upto[j]).start <= Lo(n) /\ Last(upto[j]).end <= Hi(n, size)
    <3> SUFFICES ASSUME upto[j] # <<>>
                 PROVE  Last(upto[j]).start <= Lo(n) /\ Last(upto[j]).end <= Hi(n, size)
      OBVIOUS
    <3>1. j > 0
      BY <2>2
    <3>2. PICK m \in 1..size : m = L(j) /\ m < n
      <4>1. j \in 1..(N - 1) /\ j \in 1..N
        BY <2>1, <3>1
      <4> QED BY <1>2, <2>1, <2>3, <4>1
    <3>3. Last(upto[j]).start <= Lo(m) /\ Last(upto[j]).end = Hi(m, size)
      BY <2>2, <3>1, <3>2
    <3>4. /\ Lo(m) \in 1..m /\ Hi(m, size) \in m..size
          /\ Lo(m) = (IF m - Context >= 1 THEN m - Context ELSE 1)
          /\ Hi(m, size) = (IF m + Context <= size THEN m + Context ELSE size)
      BY LoHi
    <3>5. Lo(m) <= Lo(n) /\ Hi(m, size) <= Hi(n, size)
      <4>1. Context \in Nat
        BY LineMatchesConstants
      <4> QED BY <2>5, <3>2, <3>4, <4>1
    <3>6. Last(upto[j]).start \in Nat
      <4>1. Len(upto[j]) \in 1..Len(upto[j]) /\ upto[j] \in Seq(LineRange)
        BY <2>2 DEF Covers
      <4>2. Last(upto[j]) \in LineRange
        BY <4>1 DEF Last
      <4> QED BY <4>2 DEF LineRange
    <3> QED BY <2>5, <3>3, <3>4, <3>5, <3>6
  <2> DEFINE set == Around(first(j), size)
             s == Lo(n)
             e == Hi(n, size)
  <2>8. s \in 1..size /\ e \in s..size
    BY <2>5
  <2>9. Covers(upto[j], size, set)
    BY <2>2
  <2>12. upto[j] # <<>> => Last(upto[j]).start <= s /\ Last(upto[j]).end <= e
    BY <2>7
  <2> HIDE DEF set, s, e
  <2>10. /\ Covers(Merge(upto[j], s, e), size, set \cup s..e) /\ Merge(upto[j], s, e) # <<>>
         /\ Last(Merge(upto[j], s, e)).start <= s /\ Last(Merge(upto[j], s, e)).end = e
    <3>1. Covers(Merge(upto[j], s, e), size, set \cup s..e) /\ EndsWith(Merge(upto[j], s, e), s, e)
      BY <2>8, <2>9, <2>12, MergeSpans
    <3> QED BY <3>1 DEF EndsWith
  <2>11. /\ Covers(upto[k], size, Around(first(k), size)) /\ upto[k] # <<>>
         /\ Last(upto[k]).start <= Lo(L(k)) /\ Last(upto[k]).end = Hi(L(k), size)
    BY <2>3, <2>4, <2>6, <2>10 DEF set, s, e
  <2> QED BY <2>1, <2>11
<1>6. Good(N)
  <2> HIDE DEF P
  <2>1. Nat \subseteq P
    BY <1>4, <1>5, Induction
  <2>2. N \in P
    BY <2>1
  <2> HIDE DEF Good
  <2> QED BY <2>2 DEF P
<1>7. Around(first(N), size) = Around(hits, size)
  <2>1. first(N) = hits
    <3>1. \A j \in 1..N : L(j) \in hits
      BY <1>1 DEF Collects
    <3>2. \A h \in hits : \E j \in 1..N : L(j) = h
      BY <1>1 DEF Collects
    <3> HIDE DEF L
    <3> QED BY <3>1, <3>2
  <2> QED BY <2>1
<1> QED BY <1>1, <1>6, <1>7


\* Blocks have the lines of ranges, each with what is found on it if it is a hit.
ShowsRanges(blocks, rs, hits, lines, pattern, i) ==
  /\ blocks \in Seq(Seq(LineMatch)) /\ Len(blocks) = Len(rs)
  /\ \A b \in 1..Len(rs) :
       /\ Len(blocks[b]) = rs[b].end - rs[b].start + 1
       /\ \A k \in 1..Len(blocks[b]) :
            LET n == rs[b].start + k - 1
            IN  /\ blocks[b][k].line_number = n
                /\ blocks[b][k].match_ranges =
                     IF n \in hits THEN FindOn(lines[n], pattern, i) ELSE <<>>

\* The blocks built from the matches have the lines of such ranges.
LEMMA BlocksShowRanges ==
  ASSUME NEW size \in Nat, NEW hits \in SUBSET (1..size), NEW lines, NEW pattern, NEW i,
         NEW matches, Collects(matches, hits, size, lines, pattern, i)
  PROVE  \E rs : /\ Covers(rs, size, Around(hits, size))
                 /\ ShowsRanges(Blocks(size, matches), rs, hits, lines, pattern, i)
<1>1. PICK N \in Nat : N = Len(matches) /\ matches \in Seq(LineMatch) /\ DOMAIN matches = 1..N
  BY DEF Collects
<1> DEFINE V == Seq(LineRange)
           none == <<>>
           more(v, j) == Merge(v, Lo(matches[j].line_number), Hi(matches[j].line_number, size))
           step == [j \in 1..N |-> [v \in V |-> more(v, j)]]
           upto[j \in 0..Len(matches)] ==
              IF j = 0 THEN <<>>
              ELSE LET n == matches[j].line_number
                   IN  Merge(upto[j - 1], Max({n - Context, 1}), Min({n + Context, size}))
           rs == upto[N]
           onLine(n) == {m \in {matches[j] : j \in DOMAIN matches} : m.line_number = n}
           line(n) == IF onLine(n) = {} THEN [line_number |-> n, match_ranges |-> <<>>]
                      ELSE CHOOSE m \in onLine(n) : TRUE
<1>2. Blocks(size, matches) =
        [b \in DOMAIN rs |-> [k \in 1..(rs[b].end - rs[b].start + 1) |-> line(rs[b].start + k - 1)]]
  BY <1>1 DEF Blocks
<1> HIDE DEF upto
<1>3. ASSUME NEW j \in 1..N, NEW v \in V PROVE more(v, j) \in V
  <2>1. PICK n \in 1..size : n = matches[j].line_number
    BY <1>1 DEF Collects
  <2>2. Lo(n) \in Nat /\ Hi(n, size) \in Nat
    <3>1. Lo(n) \in 1..n /\ Hi(n, size) \in n..size
      BY LoHi
    <3> QED BY <3>1
  <2> QED BY <2>1, <2>2, MergeType
<1> HIDE DEF more
<1>4. none \in V /\ step \in [1..N -> [V -> V]]
  BY <1>3
<1>5. PICK f : Iterates(f, step, N, V, none)
  <2> HIDE DEF step, V, none
  <2>1. IsStep(step, N, V, none)
    BY <1>4 DEF IsStep
  <2> QED BY <2>1, StepRecursion
<1>6. f = [j \in 0..N |-> IF j = 0 THEN none ELSE more(f[j - 1], j)]
  <2>1. ASSUME NEW j \in 1..N PROVE f[j] = more(f[j - 1], j)
    <3>1. j - 1 \in 0..N
      OBVIOUS
    <3>2. f[j - 1] \in V
      BY <1>5, <3>1 DEF Iterates
    <3> HIDE DEF V
    <3> QED BY <1>5, <3>2 DEF Iterates
  <2> HIDE DEF step, V, none
  <2>2. ASSUME NEW j \in 0..N PROVE f[j] = IF j = 0 THEN none ELSE more(f[j - 1], j)
    <3>1. f[0] = none
      BY <1>5 DEF Iterates
    <3>2. j # 0 => j \in 1..N
      OBVIOUS
    <3> QED BY <2>1, <3>1, <3>2
  <2> QED BY <1>5, <2>2 DEF Iterates
<1>7. IsMerging(upto, size, matches)
  <2>1. upto = [j \in 0..N |-> IF j = 0 THEN none ELSE more(upto[j - 1], j)]
    BY <1>1, <1>6, Zenon DEF upto, more, none, Lo, Hi
  <2> QED BY <1>1, <2>1, Zenon DEF IsMerging, more, none
<1>8. Covers(rs, size, Around(hits, size))
  BY <1>1, <1>7, RangesCover
<1> HIDE DEF rs, V, step, none
<1>9. ASSUME NEW n \in Nat
      PROVE  /\ line(n) \in LineMatch /\ line(n).line_number = n
             /\ line(n).match_ranges = IF n \in hits THEN FindOn(lines[n], pattern, i) ELSE <<>>
  <2>1. CASE n \in hits
    <3>1. PICK j \in 1..N : matches[j].line_number = n
      <4>1. n <= size
        BY <2>1
      <4> QED BY <1>1, <2>1, <4>1 DEF Collects
    <3>2. onLine(n) # {}
      BY <1>1, <3>1
    <3>3. line(n) \in onLine(n)
      BY <3>2
    <3>4. PICK l \in 1..N : line(n) = matches[l] /\ matches[l].line_number = n
      BY <1>1, <3>3
    <3> HIDE DEF line
    <3>5. /\ matches[l] \in LineMatch
          /\ matches[l].match_ranges = FindOn(lines[matches[l].line_number], pattern, i)
      BY <1>1 DEF Collects
    <3> QED BY <2>1, <3>4, <3>5
  <2>2. CASE n \notin hits
    <3>1. onLine(n) = {}
      BY <1>1, <2>2 DEF Collects
    <3>2. line(n) = [line_number |-> n, match_ranges |-> <<>>]
      BY <3>1
    <3>3. [line_number |-> n, match_ranges |-> <<>>] \in LineMatch
      <4> DEFINE Marked == Seq(MarkRange)
      <4>1. <<>> \in Marked
        OBVIOUS
      <4> HIDE DEF Marked
      <4>2. [line_number |-> n, match_ranges |-> <<>>] \in [line_number : Nat, match_ranges : Marked]
        BY <4>1
      <4> QED BY <4>2 DEF LineMatch, Marked
    <3> HIDE DEF line
    <3> QED BY <2>2, <3>2, <3>3
  <2> QED BY <2>1, <2>2
<1> HIDE DEF line
<1> DEFINE blocks == Blocks(size, matches)
           long(b) == rs[b].end - rs[b].start + 1
<1>10. PICK R \in Nat : R = Len(rs) /\ DOMAIN rs = 1..R
  BY <1>8 DEF Covers
<1>11. ASSUME NEW b \in 1..R PROVE rs[b].start \in Nat /\ long(b) \in Nat
  <2>1. rs[b] \in LineRange /\ rs[b].start <= rs[b].end
    BY <1>8, <1>10 DEF Covers
  <2>2. rs[b].start \in Nat /\ rs[b].end \in Nat
    BY <2>1 DEF LineRange
  <2> QED BY <2>1, <2>2
<1>12. blocks = [b \in 1..R |-> [k \in 1..long(b) |-> line(rs[b].start + k - 1)]]
  BY <1>2, <1>10, Zenon
<1> HIDE DEF blocks, long
<1>13. ASSUME NEW b \in 1..R
       PROVE  /\ blocks[b] \in Seq(LineMatch) /\ Len(blocks[b]) = long(b)
              /\ \A k \in 1..long(b) : blocks[b][k] = line(rs[b].start + k - 1)
  <2>1. PICK m \in Nat, a \in Nat : m = long(b) /\ a = rs[b].start
    BY <1>11
  <2>2. blocks[b] = [k \in 1..m |-> line(a + k - 1)]
    BY <1>12, <2>1
  <2>3. ASSUME NEW k \in 1..m PROVE line(a + k - 1) \in LineMatch
    <3>1. PICK n \in Nat : n = a + k - 1
      OBVIOUS
    <3> QED BY <1>9, <3>1
  <2>4. blocks[b] \in Seq(LineMatch) /\ Len(blocks[b]) = m
    <3> DEFINE here == [k \in 1..m |-> line(a + k - 1)]
    <3>1. here \in Seq(LineMatch) /\ Len(here) = m
      BY <2>3
    <3> QED BY <2>2, <3>1
  <2>5. \A k \in 1..m : blocks[b][k] = line(a + k - 1)
    BY <2>2
  <2> QED BY <2>1, <2>4, <2>5
<1>14. blocks \in Seq(Seq(LineMatch)) /\ Len(blocks) = R
  <2> DEFINE W == Seq(LineMatch)
  <2>1. \A b \in 1..R : blocks[b] \in W
    BY <1>13
  <2>2. DOMAIN blocks = 1..R /\ blocks = [b \in 1..R |-> blocks[b]]
    BY <1>12
  <2> HIDE DEF W
  <2>3. blocks \in Seq(W) /\ Len(blocks) = R
    BY <2>1, <2>2
  <2> QED BY <2>3 DEF W
<1>15. ASSUME NEW b \in 1..R, NEW k \in 1..Len(blocks[b])
       PROVE  /\ blocks[b][k].line_number = rs[b].start + k - 1
              /\ blocks[b][k].match_ranges = IF rs[b].start + k - 1 \in hits
                    THEN FindOn(lines[rs[b].start + k - 1], pattern, i) ELSE <<>>
  <2>1. PICK n \in Nat : n = rs[b].start + k - 1
    BY <1>11, <1>13
  <2>2. blocks[b][k] = line(n)
    BY <1>13, <2>1
  <2> QED BY <1>9, <2>1, <2>2
<1>16. ShowsRanges(blocks, rs, hits, lines, pattern, i)
  BY <1>10, <1>13, <1>14, <1>15 DEF ShowsRanges, long
<1> QED BY <1>8, <1>16 DEF blocks


\* What the blocks show: the lines of their ranges, in order, and on each what is
\* found on it.
Shown(blocks) == UNION {{blocks[b][k] : k \in DOMAIN blocks[b]} : b \in DOMAIN blocks}
ShowsAround(blocks, hits, size, lines, pattern, i) ==
  /\ {m.line_number : m \in Shown(blocks)} = Around(hits, size)
  /\ \A b \in DOMAIN blocks : \A k \in 1..(Len(blocks[b]) - 1) :
        blocks[b][k].line_number < blocks[b][k + 1].line_number
  /\ \A b \in 1..(Len(blocks) - 1) :
        Last(blocks[b]).line_number + 1 < Head(blocks[b + 1]).line_number
  /\ \A m \in Shown(blocks) : m.match_ranges =
        IF m.line_number \in hits THEN FindOn(lines[m.line_number], pattern, i) ELSE <<>>

\* Such blocks show the lines around the hits, once each and in order.
LEMMA BlocksShowAround ==
  ASSUME NEW size \in Nat, NEW hits \in SUBSET (1..size), NEW lines, NEW pattern, NEW i,
         NEW rs, Covers(rs, size, Around(hits, size)),
         NEW blocks, ShowsRanges(blocks, rs, hits, lines, pattern, i)
  PROVE  ShowsAround(blocks, hits, size, lines, pattern, i)
<1>1. PICK R \in Nat : R = Len(rs) /\ rs \in Seq(LineRange)
  BY DEF Covers
<1>2. ASSUME NEW b \in 1..R
      PROVE  /\ rs[b].start \in Nat /\ rs[b].end \in Nat
             /\ 1 <= rs[b].start /\ rs[b].start <= rs[b].end /\ rs[b].end <= size
  <2>1. rs[b] \in LineRange
    BY <1>1
  <2> QED BY <1>1, <2>1 DEF Covers, LineRange
<1>3. DOMAIN blocks = 1..R /\ Len(blocks) = R /\ \A b \in 1..R : blocks[b] \in Seq(LineMatch)
  <2> DEFINE W == Seq(LineMatch)
  <2>1. blocks \in Seq(W) /\ Len(blocks) = R
    BY <1>1 DEF ShowsRanges
  <2> HIDE DEF W
  <2>2. DOMAIN blocks = 1..R /\ \A b \in 1..R : blocks[b] \in W
    BY <2>1
  <2> QED BY <2>1, <2>2 DEF W
<1>4. ASSUME NEW b \in 1..R
      PROVE  /\ DOMAIN blocks[b] = 1..Len(blocks[b])
             /\ Len(blocks[b]) = rs[b].end - rs[b].start + 1
             /\ Len(blocks[b]) \in Nat \ {0}
  <2>1. blocks[b] \in Seq(LineMatch) /\ Len(blocks[b]) = rs[b].end - rs[b].start + 1
    BY <1>1, <1>3 DEF ShowsRanges
  <2>2. DOMAIN blocks[b] = 1..Len(blocks[b])
    BY <2>1
  <2> QED BY <1>2, <2>1, <2>2
<1>5. ASSUME NEW b \in 1..R, NEW k \in 1..Len(blocks[b])
      PROVE  /\ blocks[b][k].line_number = rs[b].start + k - 1
             /\ blocks[b][k].match_ranges =
                  IF rs[b].start + k - 1 \in hits
                  THEN FindOn(lines[rs[b].start + k - 1], pattern, i) ELSE <<>>
  BY <1>1 DEF ShowsRanges
<1>6. ASSUME NEW m \in Shown(blocks)
      PROVE  \E b \in 1..R : \E k \in 1..Len(blocks[b]) : m = blocks[b][k]
  <2>1. \E b \in 1..R : m \in {blocks[b][k] : k \in DOMAIN blocks[b]}
    BY <1>3 DEF Shown
  <2> QED BY <1>4, <2>1
<1>7. ASSUME NEW b \in 1..R, NEW k \in 1..Len(blocks[b]) PROVE blocks[b][k] \in Shown(blocks)
  BY <1>3, <1>4 DEF Shown
<1>8. {m.line_number : m \in Shown(blocks)} = Around(hits, size)
  <2>1. ASSUME NEW m \in Shown(blocks) PROVE m.line_number \in Around(hits, size)
    <3>0. PICK b \in 1..R : \E k \in 1..Len(blocks[b]) : m = blocks[b][k]
      BY <1>6
    <3>1. PICK k \in 1..Len(blocks[b]) : m = blocks[b][k]
      BY <3>0
    <3>2. PICK n \in Nat : /\ n = rs[b].start + k - 1
                           /\ rs[b].start <= n /\ n <= rs[b].end
      <4>1. PICK a \in Nat, e \in Nat, l \in Nat :
              /\ a = rs[b].start /\ e = rs[b].end /\ l = Len(blocks[b])
              /\ 1 <= a /\ a <= e /\ l = e - a + 1
        <5>1. Len(blocks[b]) \in Nat /\ rs[b].start \in Nat /\ rs[b].end \in Nat
          BY <1>2, <1>4
        <5> QED BY <1>2, <1>4, <5>1
      <4>2. a + k - 1 \in Nat /\ a <= a + k - 1 /\ a + k - 1 <= e
        BY <4>1
      <4> QED BY <4>1, <4>2
    <3>3. n \in Around(hits, size)
      BY <1>1, <3>2 DEF Covers
    <3> QED BY <1>5, <3>1, <3>2, <3>3
  <2>2. ASSUME NEW n \in Around(hits, size)
        PROVE  \E m \in Shown(blocks) : m.line_number = n
    <3>1. n \in Nat
      BY DEF Around
    <3>2. PICK b \in 1..R : rs[b].start <= n /\ n <= rs[b].end
      BY <1>1, <3>1 DEF Covers
    <3>3. \E k \in 1..Len(blocks[b]) : rs[b].start + k - 1 = n
      <4>1. n - rs[b].start + 1 \in 1..Len(blocks[b])
        BY <1>2, <1>4, <3>1, <3>2
      <4>2. rs[b].start + (n - rs[b].start + 1) - 1 = n
        BY <1>2, <3>1
      <4> QED BY <4>1, <4>2
    <3> QED BY <1>5, <1>7, <3>3
  <2> QED BY <2>1, <2>2
<1>9. ASSUME NEW b \in 1..R, NEW k \in 1..(Len(blocks[b]) - 1)
      PROVE  blocks[b][k].line_number < blocks[b][k + 1].line_number
  <2>1. k \in 1..Len(blocks[b]) /\ k + 1 \in 1..Len(blocks[b])
    BY <1>4
  <2>2. /\ blocks[b][k].line_number = rs[b].start + k - 1
        /\ blocks[b][k + 1].line_number = rs[b].start + (k + 1) - 1
    BY <1>5, <2>1
  <2> QED BY <1>2, <2>2
<1>10. ASSUME NEW b \in 1..(R - 1)
       PROVE  Last(blocks[b]).line_number + 1 < Head(blocks[b + 1]).line_number
  <2>1. b \in 1..R /\ b + 1 \in 1..R
    OBVIOUS
  <2>2. Len(blocks[b]) \in 1..Len(blocks[b]) /\ 1 \in 1..Len(blocks[b + 1])
    BY <1>4, <2>1
  <2>3. /\ Last(blocks[b]).line_number = rs[b].end
        /\ Head(blocks[b + 1]).line_number = rs[b + 1].start
    <3>1. Last(blocks[b]) = blocks[b][Len(blocks[b])] /\ Head(blocks[b + 1]) = blocks[b + 1][1]
      BY <1>3, <1>4, <2>1 DEF Last
    <3>2. /\ blocks[b][Len(blocks[b])].line_number = rs[b].start + Len(blocks[b]) - 1
          /\ blocks[b + 1][1].line_number = rs[b + 1].start + 1 - 1
      BY <1>5, <2>1, <2>2
    <3>3. ASSUME NEW c \in 1..R
          PROVE  rs[c].start + Len(blocks[c]) - 1 = rs[c].end /\ rs[c].start + 1 - 1 = rs[c].start
      <4>1. PICK a \in Nat, e \in Nat, m \in Nat :
              a = rs[c].start /\ e = rs[c].end /\ m = Len(blocks[c])
        BY <1>2, <1>4
      <4>2. m = e - a + 1
        BY <1>4, <4>1
      <4> QED BY <4>1, <4>2
    <3> QED BY <2>1, <3>1, <3>2, <3>3
  <2>4. rs[b].end + 1 < rs[b + 1].start
    BY <1>1 DEF Covers
  <2> QED BY <2>3, <2>4
<1>11. ASSUME NEW m \in Shown(blocks)
       PROVE  m.match_ranges =
                IF m.line_number \in hits THEN FindOn(lines[m.line_number], pattern, i) ELSE <<>>
  BY <1>5, <1>6
<1> QED BY <1>3, <1>8, <1>9, <1>10, <1>11 DEF ShowsAround

\* What is shown of a file is its first matching lines with their context.
LEMMA AllIsShown ==
  ASSUME NEW text \in Seq(AllChars), NEW pattern \in Seq(AllChars), pattern # <<>>,
         NEW i \in BOOLEAN, NEW most \in Nat
  PROVE  ShowsMatches(text, pattern, i, most)
<1>1. PICK lines \in Seq(Seq(AllChars)) : lines = Lines(text)
  BY LinesAreParts
<1>2. PICK size \in Nat : size = Len(lines) /\ DOMAIN lines = 1..size
  OBVIOUS
<1> DEFINE matches == FindMatches(text, pattern, i, most)
           hits == FirstOf(WithPattern(lines, pattern, i), most)
           blocks == Blocks(size, matches)
<1>3. Collects(matches, hits, size, lines, pattern, i)
  BY <1>1, <1>2, MatchesAreHits
<1>4. hits \in SUBSET (1..size)
  BY <1>2 DEF FirstOf, WithPattern
<1> HIDE DEF matches, hits
<1>5. PICK rs : /\ Covers(rs, size, Around(hits, size))
                /\ ShowsRanges(blocks, rs, hits, lines, pattern, i)
  BY <1>3, <1>4, BlocksShowRanges
<1> HIDE DEF blocks
<1>6. ShowsAround(blocks, hits, size, lines, pattern, i)
  BY <1>2, <1>4, <1>5, BlocksShowAround
<1>7. ASSUME NEW m \in Shown(blocks)
      PROVE  IF m.line_number \in hits
             THEN ~i \/ OneToOne(lines[m.line_number]) =>
                    Marks(lines[m.line_number], pattern, i, m.match_ranges)
             ELSE m.match_ranges = <<>>
  <2>1. CASE m.line_number \in hits
    <3>1. PICK n \in 1..size : n = m.line_number
      BY <1>4, <2>1
    <3>2. lines[n] \in Seq(AllChars)
      <4> DEFINE W == Seq(AllChars)
      <4>1. lines \in Seq(W)
        OBVIOUS
      <4> HIDE DEF W
      <4>2. lines[n] \in W
        BY <1>2, <4>1
      <4> QED BY <4>2 DEF W
    <3>3. ~i \/ OneToOne(lines[n]) => Marks(lines[n], pattern, i, FindOn(lines[n], pattern, i))
      BY <3>2, FindOnMarks
    <3> QED BY <1>6, <2>1, <3>1, <3>3 DEF ShowsAround
  <2>2. CASE m.line_number \notin hits
    BY <1>6, <2>2 DEF ShowsAround
  <2> QED BY <2>1, <2>2
<1>8. Around(hits, size) = {n \in DOMAIN lines : \E h \in hits : n - h \in (-Context)..Context}
  BY <1>2 DEF Around
<1> DEFINE theLines == Lines(text)
           all == {n \in DOMAIN theLines :
                     Places(IF i THEN InLowerCase(theLines[n]) ELSE theLines[n],
                            IF i THEN InLowerCase(pattern) ELSE pattern) # {}}
           theHits == {n \in all : Cardinality({m \in all : m < n}) < most}
           theBlocks == Blocks(Len(theLines), FindMatches(text, pattern, i, most))
           shown == UNION {{theBlocks[b][k] : k \in DOMAIN theBlocks[b]} : b \in DOMAIN theBlocks}
<1>9. theHits = hits
  <2>1. all = WithPattern(theLines, pattern, i)
    BY Zenon DEF WithPattern, Fold
  <2> HIDE DEF all
  <2>2. theHits = FirstOf(all, most)
    BY Zenon DEF FirstOf, Earlier
  <2> QED BY <1>1, <2>1, <2>2 DEF hits
<1>10. theBlocks = blocks
  BY <1>1, <1>2 DEF blocks, matches
<1>11. shown = Shown(theBlocks)
  BY Zenon DEF Shown
<1> HIDE DEF theLines, theHits, theBlocks, shown
<1>12. shown = Shown(blocks) /\ theLines = lines
  BY <1>1, <1>10, <1>11 DEF theLines
<1>13. {m.line_number : m \in shown} =
         {n \in DOMAIN theLines : \E h \in theHits : n - h \in (-Context)..Context}
  BY <1>6, <1>8, <1>9, <1>12 DEF ShowsAround
<1>14. /\ \A b \in DOMAIN theBlocks : \A k \in 1..(Len(theBlocks[b]) - 1) :
            theBlocks[b][k].line_number < theBlocks[b][k + 1].line_number
       /\ \A b \in 1..(Len(theBlocks) - 1) :
            Last(theBlocks[b]).line_number + 1 < Head(theBlocks[b + 1]).line_number
  BY <1>6, <1>10 DEF ShowsAround
<1>15. ASSUME NEW m \in shown
       PROVE  IF m.line_number \in theHits
              THEN ~i \/ OneToOne(theLines[m.line_number]) =>
                     Marks(theLines[m.line_number], pattern, i, m.match_ranges)
              ELSE m.match_ranges = <<>>
  BY <1>7, <1>9, <1>12
<1> QED BY <1>13, <1>14, <1>15, Zenon DEF ShowsMatches, theLines, theHits, theBlocks, shown

\* What a result shows of a file is right, for every text and pattern.
THEOREM ScansAreShown == SearchSpec => []ScanShowsMatches
<1>1. AskedInv => ScanShowsMatches
  <2> SUFFICES ASSUME AskedInv, NEW text \in ScanTexts, NEW pattern \in ScanPatterns
               PROVE  ShowsMatches(text, pattern, query.i, MaxMatchesPerFile)
    BY DEF ScanShowsMatches
  <2>1. query.i \in BOOLEAN /\ MaxMatchesPerFile \in Nat
    BY SearchConstants, SearchExecutionConstants DEF AskedInv, IsQuery
  <2>2. text \in Seq(AllChars) /\ pattern \in Seq(AllChars) /\ pattern # <<>>
    BY SearchConstants DEF AllChars
  <2> QED BY <2>1, <2>2, AllIsShown
<1> QED BY <1>1, AskedStays, PTL

=============================================================================
